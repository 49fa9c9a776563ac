---------------------------- MODULE Hosts_proofs -----------------------------
(***************************************************************************)
(* Proofs about HostsStore, for any hosts, labels and bounds, and about    *)
(* HostTokens, for any tabs, ids, machines and bounds.  OnePoll            *)
(* rests on the loop's flags and the requests in flight telling the same:  *)
(* a run is on exactly while one poll is, and a loop that was stopped has  *)
(* left neither a timer nor a poll behind.  ShownTokenOpens rests on every *)
(* token on its way to a dialog being its host's own, and on two hashes    *)
(* under way for one host making rivals of both their tokens.              *)
(***************************************************************************)
EXTENDS HostsStore, HostTokens, FiniteSetTheorems, SequenceTheorems, TLAPS

(* What a request may be answered with.                                     *)
Fits(request, answer) ==
    \/ answer \in {None, Failed}
    \/ request \in {Poll, Refresh} /\ answer \in Tables
    \/ request \in Edits \cup Creations /\ answer \in Row
    \/ request \in Removals /\ answer = Gone

AnswersFit == \A c \in calls : Fits(c.request, c.answer)

Polls == {c \in calls : c.request = Poll}

RunIsAPoll == IF loop.running THEN \E c \in calls : Polls = {c} ELSE Polls = {}

LoopOK ==
    /\ ~loop.started => ~loop.running /\ ~loop.timer
    /\ hidden => ~loop.timer
    /\ loop.started /\ ~hidden => loop.timer # loop.running

IInv == TypeOK /\ AnswersFit /\ RunIsAPoll /\ LoopOK /\ ShownIsSelected

Calls == [request : Requests, answer : Answers]
Loops == [started : BOOLEAN, timer : BOOLEAN, running : BOOLEAN]

----------------------------------------------------------------------------
(* The data.                                                                *)

LEMMA Constants ==
    /\ IsFiniteSet(Hosts) /\ Local \notin Hosts /\ Label \in Labels
BY HostsStoreConstantsOK DEF HostsStoreConstantsOK

LEMMA KindsApart ==
    /\ \A r \in Edits : r.kind \in {"rename", "setEnabled"} /\ r.host \in Hosts
    /\ \A r \in Creations : r.kind = "enroll" /\ r.host \in Hosts
    /\ \A r \in Removals : r.kind = "remove" /\ r.host \in Hosts
    /\ Poll.kind = "poll" /\ Refresh.kind = "refresh"
BY DEF Edits, Creations, Removals, Poll, Refresh

LEMMA RenameLabels == \A r \in Edits : r.kind = "rename" => r.to \in Labels
BY DEF Edits

LEMMA EnabledStatus == \A r \in Edits : r.kind = "setEnabled" => r.to \in Statuses
BY DEF Edits, Statuses

LEMMA NewRowOK == NewRow \in Row
BY Constants DEF NewRow, Row, Statuses

LEMMA EntryOK == ASSUME NEW h \in Hosts, NEW row \in Row PROVE Entry(h, row) \in Entries
BY DEF Entry, Entries, Row

LEMMA EnrolledRow == ASSUME NEW table \in Tables, NEW h \in Enrolled(table) PROVE h \in Hosts /\ table[h] \in Row
BY DEF Tables, Enrolled

LEMMA TableExcept ==
    ASSUME NEW table \in Tables, NEW h \in Hosts, NEW row \in Row \cup {Gone}
    PROVE  [table EXCEPT ![h] = row] \in Tables
BY DEF Tables

(* The hub's list in some order is a list of entries.                       *)
LEMMA ListsOK == ASSUME NEW table \in Tables PROVE Lists(table) \subseteq Seq(Entries)
<1> DEFINE S == {Entry(h, table[h]) : h \in Enrolled(table)}
<1>1. S \subseteq Entries
  BY EnrolledRow, EntryOK
<1>2. IsFiniteSet(Enrolled(table))
  BY Constants, FS_Subset DEF Enrolled
<1>3. IsFiniteSet(S)
  <2> DEFINE f == [h \in Enrolled(table) |-> Entry(h, table[h])]
  <2>1. f \in Surjection(Enrolled(table), S)
    BY DEF Surjection
  <2>2. QED
    BY <1>2, <2>1, FS_Surjection
<1>4. Cardinality(S) \in Nat
  BY <1>3, FS_CardinalityType
<1>5. Lists(table) \subseteq [1 .. Cardinality(S) -> S]
  BY DEF Lists, SetToSeqs
<1>6. [1 .. Cardinality(S) -> S] \subseteq [1 .. Cardinality(S) -> Entries]
  BY <1>1
<1> HIDE DEF S
<1>7. [1 .. Cardinality(S) -> Entries] \subseteq Seq(Entries)
  BY <1>4, SeqDef
<1>8. QED
  BY <1>5, <1>6, <1>7

LEMMA WithoutOK == ASSUME hosts \in Seq(Entries), NEW h PROVE Without(h) \subseteq Seq(Entries)
<1> DEFINE kept == {i \in DOMAIN hosts : hosts[i].id # h}
           n == Cardinality(kept)
<1>1. DOMAIN hosts = 1 .. Len(hosts) /\ Len(hosts) \in Nat
  BY LenProperties
<1>2. IsFiniteSet(kept)
  <2>1. IsFiniteSet(1 .. Len(hosts))
    BY <1>1, FS_Interval
  <2>2. kept \in SUBSET (1 .. Len(hosts))
    BY <1>1
  <2>3. QED
    BY <2>1, <2>2, FS_Subset
<1>3. n \in Nat
  BY <1>2, FS_CardinalityType
<1>4. \A i \in kept : hosts[i] \in Entries
  BY ElementOfSeq, <1>1
<1> HIDE DEF kept, n
<1>5. \A p \in [1 .. n -> kept] : [i \in DOMAIN p |-> hosts[p[i]]] \in [1 .. n -> Entries]
  BY <1>4
<1>6. [1 .. n -> Entries] \subseteq Seq(Entries)
  BY <1>3, SeqDef
<1>7. \A t \in Without(h) : \E p \in [1 .. n -> kept] : t = [i \in DOMAIN p |-> hosts[p[i]]]
  BY DEF Without, kept, n
<1>8. QED
  BY <1>5, <1>6, <1>7

LEMMA MappedOK ==
    ASSUME hosts \in Seq(Entries), NEW t, DOMAIN t = DOMAIN hosts,
           t = [i \in DOMAIN hosts |-> t[i]], \A i \in DOMAIN hosts : t[i] \in Entries
    PROVE  t \in Seq(Entries)
<1>1. DOMAIN hosts = 1 .. Len(hosts) /\ Len(hosts) \in Nat
  BY LenProperties
<1>2. t \in [1 .. Len(hosts) -> Entries]
  BY <1>1
<1>3. QED
  BY <1>1, <1>2, SeqDef

LEMMA ReplacedOK ==
    ASSUME hosts \in Seq(Entries), NEW h \in Hosts, NEW row \in Row
    PROVE  Replaced(h, row) \in Seq(Entries)
<1>1. \A i \in DOMAIN hosts : hosts[i] \in Entries
  BY LenProperties, ElementOfSeq
<1>2. \A i \in DOMAIN hosts : Replaced(h, row)[i] \in Entries
  BY <1>1, EntryOK DEF Replaced
<1>3. /\ DOMAIN Replaced(h, row) = DOMAIN hosts
      /\ Replaced(h, row) = [i \in DOMAIN hosts |-> Replaced(h, row)[i]]
  BY DEF Replaced
<1>4. QED
  BY <1>2, <1>3, MappedOK

LEMMA AppliedOK ==
    ASSUME TypeOK, NEW c \in calls, Fits(c.request, c.answer), c.answer # None
    PROVE  Applied(c) \subseteq Seq(Entries)
<1>1. CASE c.answer = Failed
  BY <1>1 DEF Applied, TypeOK
<1>2. CASE c.answer # Failed /\ c.request \in {Poll, Refresh}
  <2>1. c.answer \in Tables
    BY <1>2, KindsApart DEF Fits
  <2>2. Applied(c) = Lists(c.answer)
    BY <1>2, KindsApart DEF Applied, Refreshed
  <2>3. QED
    BY <2>1, <2>2, ListsOK
<1>3. CASE c.answer # Failed /\ c.request \in Edits
  <2>1. c.answer \in Row /\ c.request.host \in Hosts
    BY <1>3, KindsApart DEF Fits
  <2>2. Applied(c) = {Replaced(c.request.host, c.answer)}
    BY <1>3, KindsApart DEF Applied
  <2>3. QED
    BY <2>1, <2>2, ReplacedOK DEF TypeOK
<1>4. CASE c.answer # Failed /\ c.request \in Creations
  <2>1. c.answer \in Row /\ c.request.host \in Hosts
    BY <1>4, KindsApart DEF Fits
  <2>2. Applied(c) = {Append(hosts, Entry(c.request.host, c.answer))}
    BY <1>4, KindsApart DEF Applied
  <2>3. QED
    BY <2>1, <2>2, EntryOK, AppendProperties DEF TypeOK
<1>5. CASE c.answer # Failed /\ c.request \in Removals
  <2>1. Applied(c) = Without(c.request.host)
    BY <1>5, KindsApart DEF Applied
  <2>2. QED
    BY <2>1, WithoutOK DEF TypeOK
<1>6. QED
  BY <1>1, <1>2, <1>3, <1>4, <1>5 DEF TypeOK, Requests

----------------------------------------------------------------------------
(* The requests in flight.                                                  *)

LEMMA FitsAnswers == ASSUME NEW r, NEW a, Fits(r, a) PROVE a \in Answers
BY DEF Fits, Answers

(* An answer leaves each request as it is.                                  *)
LEMMA ServedOK ==
    ASSUME TypeOK, AnswersFit, RunIsAPoll,
           NEW c \in calls, NEW a, Fits(c.request, a), Served(c, a), loop' = loop
    PROVE  calls' \subseteq Calls /\ AnswersFit' /\ RunIsAPoll'
<1> DEFINE d == [c EXCEPT !.answer = a]
<1>1. c \in Calls /\ calls \subseteq Calls
  BY DEF TypeOK, Calls
<1>2. d \in Calls /\ d.request = c.request /\ d.answer = a
  BY <1>1, FitsAnswers DEF Calls
<1>3. calls' = (calls \ {c}) \cup {d}
  BY DEF Served
<1> HIDE DEF d
<1>4. calls' \subseteq Calls /\ AnswersFit'
  BY <1>1, <1>2, <1>3 DEF AnswersFit
<1>5. Polls' = IF c.request = Poll THEN (Polls \ {c}) \cup {d} ELSE Polls
  BY <1>2, <1>3 DEF Polls
<1>6. RunIsAPoll'
  <2>1. CASE c.request = Poll
    BY <1>2, <1>3, <1>5, <2>1 DEF RunIsAPoll, Polls
  <2>2. CASE c.request # Poll
    BY <1>3, <1>5, <2>2 DEF RunIsAPoll, Polls
  <2>3. QED
    BY <2>1, <2>2
<1>7. QED
  BY <1>4, <1>6

(* Any request but a poll may be sent at any time.                          *)
LEMMA SentOK ==
    ASSUME TypeOK, AnswersFit, RunIsAPoll,
           NEW r \in Requests, r # Poll, calls' = calls \cup {Sent(r)}, loop'.running = loop.running
    PROVE  calls' \subseteq Calls /\ AnswersFit' /\ RunIsAPoll'
<1>1. Sent(r) \in Calls /\ Sent(r).request = r /\ Sent(r).answer = None
  BY DEF Sent, Calls, Answers
<1>2. calls' \subseteq Calls /\ AnswersFit'
  BY <1>1 DEF TypeOK, Calls, AnswersFit, Fits
<1>3. Polls' = Polls
  BY <1>1 DEF Polls
<1>4. QED
  BY <1>2, <1>3 DEF RunIsAPoll

(* run starts a poll only where none is in flight.                          *)
LEMMA RunOK ==
    ASSUME TypeOK, AnswersFit, RunIsAPoll, ~loop.running, Run
    PROVE  /\ calls' \subseteq Calls /\ AnswersFit' /\ RunIsAPoll'
           /\ loop' = [loop EXCEPT !.timer = FALSE, !.running = TRUE]
<1>1. /\ Sent(Poll) \in Calls /\ Sent(Poll).request = Poll /\ Sent(Poll).answer = None
  BY DEF Sent, Calls, Answers, Requests
<1>2. /\ calls' = calls \cup {Sent(Poll)}
      /\ loop' = [loop EXCEPT !.timer = FALSE, !.running = TRUE]
      /\ loop'.running
  BY DEF Run, TypeOK
<1>3. calls' \subseteq Calls /\ AnswersFit'
  BY <1>1, <1>2 DEF TypeOK, Calls, AnswersFit, Fits
<1>4. Polls' = {Sent(Poll)}
  BY <1>1, <1>2 DEF Polls, RunIsAPoll
<1>5. QED
  BY <1>2, <1>3, <1>4 DEF RunIsAPoll

----------------------------------------------------------------------------
(* The steps.                                                               *)

LEMMA InitIInv == Init => IInv
<1> SUFFICES ASSUME Init PROVE IInv
  OBVIOUS
<1>1. hub \in Tables
  <2>1. [label : {Label}, status : {"online", "pending"}] \subseteq Row
    BY Constants DEF Row, Statuses
  <2>2. QED
    BY <2>1 DEF Init, Tables
<1>2. events \in Seq([id : Hosts, status : Statuses]) /\ hosts \in Seq(Entries)
  BY EmptySeq DEF Init
<1>3. TypeOK
  BY <1>1, <1>2 DEF Init, TypeOK, Places, BucketOf
<1>4. AnswersFit /\ RunIsAPoll /\ LoopOK /\ ShownIsSelected
  BY DEF Init, AnswersFit, RunIsAPoll, Polls, LoopOK, ShownIsSelected
<1>5. QED
  BY <1>3, <1>4 DEF IInv

(* What the loop does, and the tab that is hidden and shown.                *)
LEMMA LoopStep ==
    ASSUME IInv, StartPolling \/ StopPolling \/ TimerFires \/ Hide \/ Show \/ PageOpens
    PROVE  IInv'
<1> USE DEF IInv
<1> SUFFICES /\ calls' \subseteq Calls /\ AnswersFit' /\ RunIsAPoll'
             /\ loop' \in Loops /\ LoopOK' /\ hidden' \in BOOLEAN
             /\ UNCHANGED <<hub, events, connected, listVars, shown>>
  BY DEF TypeOK, Calls, Loops, listVars, ShownIsSelected
<1>1. loop \in Loops /\ calls \subseteq Calls /\ hidden \in BOOLEAN
  BY DEF TypeOK, Loops, Calls
<1>2. Refresh \in Requests /\ Refresh # Poll
  BY KindsApart DEF Requests
<1>3. CASE StartPolling
  <2>1. /\ ~loop.started /\ calls' = calls \cup {Sent(Refresh)}
        /\ loop' = [started |-> TRUE, timer |-> ~hidden, running |-> FALSE]
        /\ UNCHANGED <<hub, events, connected, listVars, hidden, shown>>
    BY <1>3 DEF StartPolling
  <2>2. loop'.running = loop.running
    BY <2>1, <1>1 DEF LoopOK, Loops
  <2>3. QED
    BY <1>1, <1>2, <2>1, <2>2, SentOK DEF LoopOK, Loops
<1>4. CASE StopPolling
  <2> DEFINE quiet(c) == IF c.request = Poll THEN [c EXCEPT !.request = Refresh] ELSE c
  <2>1. /\ loop' = [started |-> FALSE, timer |-> FALSE, running |-> FALSE]
        /\ calls' = {quiet(c) : c \in calls}
        /\ UNCHANGED <<hub, events, connected, listVars, hidden, shown>>
    BY <1>4 DEF StopPolling
  <2>2. ASSUME NEW c \in calls
        PROVE  /\ quiet(c) \in Calls /\ quiet(c).request # Poll
               /\ Fits(quiet(c).request, quiet(c).answer)
    <3>1. CASE c.request = Poll
      <4>1. /\ quiet(c) = [c EXCEPT !.request = Refresh] /\ c \in Calls
            /\ Fits(Poll, c.answer)
        BY <1>1, <3>1 DEF AnswersFit
      <4>2. quiet(c) \in Calls /\ quiet(c).request = Refresh /\ quiet(c).answer = c.answer
        BY <4>1, <1>2 DEF Calls
      <4>3. Fits(Refresh, c.answer)
        BY <4>1, KindsApart DEF Fits
      <4>4. QED
        BY <4>2, <4>3, <1>2
    <3>2. CASE c.request # Poll
      BY <1>1, <3>2 DEF AnswersFit
    <3>3. QED
      BY <3>1, <3>2
  <2> HIDE DEF quiet
  <2>3. calls' \subseteq Calls /\ AnswersFit' /\ Polls' = {}
    BY <2>1, <2>2 DEF AnswersFit, Polls
  <2>4. QED
    BY <1>1, <2>1, <2>3 DEF LoopOK, Loops, RunIsAPoll
<1>5. CASE TimerFires
  <2>1. /\ loop.timer /\ Run
        /\ UNCHANGED <<hub, events, connected, listVars, hidden, shown>>
    BY <1>5 DEF TimerFires
  <2>2. loop.started /\ ~hidden /\ ~loop.running
    BY <1>1, <2>1 DEF LoopOK, Loops
  <2>3. QED
    BY <1>1, <2>1, <2>2, RunOK DEF LoopOK, Loops
<1>6. CASE Hide
  <2>1. /\ hidden' = TRUE /\ loop' = [loop EXCEPT !.timer = FALSE]
        /\ calls' = calls
        /\ UNCHANGED <<hub, events, connected, listVars, shown>>
    BY <1>6 DEF Hide, netVars
  <2>2. loop' \in Loops /\ loop'.running = loop.running /\ loop'.started = loop.started /\ ~loop'.timer
    BY <1>1, <2>1 DEF Loops
  <2>3. AnswersFit' /\ RunIsAPoll'
    BY <2>1, <2>2 DEF AnswersFit, RunIsAPoll, Polls
  <2>4. LoopOK'
    BY <2>1, <2>2 DEF LoopOK
  <2>5. QED
    BY <1>1, <2>1, <2>2, <2>3, <2>4
<1>7. CASE Show
  <2>1. /\ hidden /\ hidden' = FALSE /\ ~loop.timer
        /\ UNCHANGED <<hub, events, connected, listVars, shown>>
    BY <1>7 DEF Show, LoopOK
  <2>2. CASE loop.started /\ ~loop.running
    <3>1. Run
      BY <1>7, <2>1, <2>2 DEF Show
    <3>2. QED
      BY <1>1, <2>1, <2>2, <3>1, RunOK DEF LoopOK, Loops
  <2>3. CASE ~(loop.started /\ ~loop.running)
    <3>1. loop' = loop /\ calls' = calls
      BY <1>7, <2>1, <2>3 DEF Show
    <3>2. AnswersFit' /\ RunIsAPoll'
      BY <3>1 DEF AnswersFit, RunIsAPoll, Polls
    <3>3. LoopOK'
      BY <1>1, <2>1, <2>3, <3>1 DEF LoopOK, Loops
    <3>4. QED
      BY <1>1, <2>1, <3>1, <3>2, <3>3
  <2>4. QED
    BY <2>2, <2>3
<1>8. CASE PageOpens
  <2>1. /\ calls' = calls \cup {Sent(Refresh)}
        /\ loop' = loop /\ hidden' = hidden
        /\ UNCHANGED <<hub, events, connected, listVars, shown>>
    BY <1>8 DEF PageOpens, pollVars
  <2>2. QED
    BY <1>1, <1>2, <2>1, SentOK DEF LoopOK
<1>9. QED
  BY <1>3, <1>4, <1>5, <1>6, <1>7, <1>8

LEMMA SendStep ==
    ASSUME IInv, NEW request \in Edits \cup Creations \cup Removals, AdminCalls(request)
    PROVE  IInv'
<1> USE DEF IInv
<1>1. request \in Requests /\ request # Poll
  BY KindsApart DEF Requests
<1>2. /\ calls' = calls \cup {Sent(request)}
      /\ UNCHANGED <<hub, events, connected, hosts, selected, loop, hidden, shown>>
  BY DEF AdminCalls, listVars, pollVars
<1>3. calls' \subseteq Calls /\ AnswersFit' /\ RunIsAPoll'
  BY <1>1, <1>2, SentOK
<1>4. QED
  BY <1>2, <1>3 DEF TypeOK, Calls, LoopOK, ShownIsSelected

LEMMA AnnouncedOK ==
    ASSUME TypeOK, NEW h \in Hosts, NEW status \in Statuses, Announced(h, status)
    PROVE  events' \in Seq([id : Hosts, status : Statuses])
<1>1. [id |-> h, status |-> status] \in [id : Hosts, status : Statuses]
  OBVIOUS
<1>2. QED
  BY <1>1, AppendProperties DEF TypeOK, Announced

LEMMA ServeStep ==
    ASSUME IInv, NEW c \in calls, Serve(c) \/ CallFails(c)
    PROVE  IInv'
<1> USE DEF IInv
<1> SUFFICES /\ \E a : Fits(c.request, a) /\ Served(c, a)
             /\ hub' \in Tables /\ events' \in Seq([id : Hosts, status : Statuses])
             /\ UNCHANGED <<connected, hosts, selected, loop, hidden, shown>>
  <2>1. PICK a : Fits(c.request, a) /\ Served(c, a)
    OBVIOUS
  <2>2. calls' \subseteq Calls /\ AnswersFit' /\ RunIsAPoll'
    BY <2>1, ServedOK
  <2>3. QED
    BY <2>2 DEF TypeOK, Calls, LoopOK, ShownIsSelected
<1>1. hub \in Tables /\ events \in Seq([id : Hosts, status : Statuses])
  BY DEF TypeOK
<1>2. Fits(c.request, Failed)
  BY DEF Fits
<1>3. CASE CallFails(c)
  BY <1>1, <1>2, <1>3 DEF CallFails, listVars, pollVars
<1>4. ASSUME Serve(c)
      PROVE  UNCHANGED <<connected, hosts, selected, loop, hidden, shown>>
  BY <1>4 DEF Serve, listVars, pollVars
<1>5. CASE Serve(c) /\ ServeList(c)
  <2>1. Served(c, hub) /\ hub' = hub /\ events' = events /\ Fits(c.request, hub)
    BY <1>1, <1>5 DEF ServeList, Served, Fits
  <2>2. QED
    BY <1>1, <1>4, <1>5, <2>1
<1>6. CASE Serve(c) /\ ServeEnroll(c)
  <2>1. c.request.host \in Hosts /\ hub' = [hub EXCEPT ![c.request.host] = NewRow]
        /\ Served(c, NewRow) /\ events' = events /\ Fits(c.request, NewRow)
    BY <1>6, KindsApart, NewRowOK DEF ServeEnroll, Fits
  <2>2. QED
    BY <1>1, <1>4, <1>6, <2>1, TableExcept, NewRowOK
<1>7. CASE Serve(c) /\ ServeEdit(c)
  <2> DEFINE h == c.request.host
             row == IF c.request.kind = "rename"
                      THEN [hub[h] EXCEPT !.label = c.request.to]
                      ELSE [hub[h] EXCEPT !.status = c.request.to]
  <2>1. /\ c.request \in Edits /\ h \in Enrolled(hub)
        /\ hub' = [hub EXCEPT ![h] = row] /\ Served(c, row)
        /\ IF c.request.kind = "setEnabled" THEN Announced(h, row.status) ELSE UNCHANGED events
    BY <1>7 DEF ServeEdit
  <2>2. h \in Hosts /\ hub[h] \in Row
    BY <1>1, <2>1, EnrolledRow
  <2>3. row \in Row
    BY <2>1, <2>2, KindsApart, RenameLabels, EnabledStatus DEF Row
  <2> HIDE DEF row
  <2>4. row.status \in Statuses
    BY <2>3 DEF Row
  <2>5. events' \in Seq([id : Hosts, status : Statuses])
    BY <1>1, <2>1, <2>2, <2>4, AnnouncedOK
  <2>6. Fits(c.request, row)
    BY <2>1, <2>3 DEF Fits
  <2>7. QED
    BY <1>1, <1>4, <1>7, <2>1, <2>2, <2>3, <2>5, <2>6, TableExcept
<1>8. CASE Serve(c) /\ ServeRemove(c)
  <2>1. c.request.host \in Hosts /\ hub' = [hub EXCEPT ![c.request.host] = Gone]
        /\ Served(c, Gone) /\ events' = events /\ Fits(c.request, Gone)
    BY <1>8, KindsApart DEF ServeRemove, Fits
  <2>2. QED
    BY <1>1, <1>4, <1>8, <2>1, TableExcept
<1>9. CASE Serve(c) /\ ServeNotFound(c)
  BY <1>1, <1>2, <1>4, <1>9 DEF ServeNotFound
<1>10. QED
  BY <1>3, <1>4, <1>5, <1>6, <1>7, <1>8, <1>9 DEF Serve

LEMMA SelectsOK ==
    ASSUME TypeOK, ShownIsSelected, NEW h \in Places, Selects(h)
    PROVE  /\ selected' \in Places /\ shown' \in [Kinds -> [of : Places, current : BOOLEAN]]
           /\ ShownIsSelected'
<1>1. CASE h # selected
  <2>1. selected' = h /\ shown' = [k \in Kinds |-> BucketOf(h)]
    BY <1>1 DEF Selects, Project
  <2>2. BucketOf(h) \in [of : Places, current : BOOLEAN]
    BY DEF BucketOf
  <2>3. \A k \in Kinds : shown'[k] = BucketOf(selected')
    BY <2>1
  <2>4. QED
    BY <2>1, <2>2, <2>3 DEF ShownIsSelected, BucketOf
<1>2. CASE h = selected
  BY <1>2 DEF Selects, ShownIsSelected, BucketOf, TypeOK
<1>3. QED
  BY <1>1, <1>2

(* An answer arrives: what the loop, the list and the selection make of it. *)
LEMMA AnswerStep == ASSUME IInv, NEW c \in calls, Answered(c) PROVE IInv'
<1> USE DEF IInv
<1>1. /\ c.answer # None /\ calls' = calls \ {c} /\ hosts' \in Applied(c)
      /\ RunEnds(c)
      /\ UNCHANGED <<hub, events, connected, hidden>>
  BY DEF Answered
<1>2. /\ loop \in Loops /\ calls \subseteq Calls /\ hidden \in BOOLEAN
      /\ Fits(c.request, c.answer)
  BY DEF TypeOK, Loops, Calls, AnswersFit
<1>3. hosts' \in Seq(Entries)
  BY <1>1, <1>2, AppliedOK
<1>4. calls' \subseteq Calls /\ AnswersFit'
  BY <1>1, <1>2 DEF AnswersFit
<1>5. loop' \in Loops /\ LoopOK' /\ RunIsAPoll'
  <2>1. CASE c.request = Poll
    <3>1. c \in Polls /\ loop.running /\ Polls = {c}
      BY <2>1 DEF RunIsAPoll, Polls
    <3>2. loop' = [loop EXCEPT !.running = FALSE, !.timer = Schedules]
      BY <1>1, <2>1 DEF RunEnds
    <3>3. /\ loop' \in Loops /\ loop'.running = FALSE /\ loop'.started = loop.started
          /\ loop'.timer = Schedules
      BY <1>2, <3>2 DEF Loops, Schedules
    <3>4. Polls' = {}
      BY <1>1, <3>1 DEF Polls
    <3>5. RunIsAPoll'
      BY <3>3, <3>4 DEF RunIsAPoll
    <3>6. LoopOK'
      BY <1>1, <3>3 DEF LoopOK, Schedules
    <3>7. QED
      BY <3>3, <3>5, <3>6
  <2>2. CASE c.request # Poll
    <3>1. loop' = loop
      BY <1>1, <2>2 DEF RunEnds
    <3>2. Polls' = Polls
      BY <1>1, <2>2 DEF Polls
    <3>3. RunIsAPoll'
      BY <1>1, <3>1, <3>2 DEF RunIsAPoll, Polls
    <3>4. QED
      BY <1>1, <1>2, <3>1, <3>3 DEF LoopOK
  <2>3. QED
    BY <2>1, <2>2
<1>6. selected' \in Places /\ shown' \in [Kinds -> [of : Places, current : BOOLEAN]] /\ ShownIsSelected'
  <2>1. CASE Selects(Local)
    BY <2>1, SelectsOK DEF Places
  <2>2. CASE ~Selects(Local)
    <3>1. selected' = selected /\ shown' = shown
      BY <2>2 DEF Answered
    <3>2. QED
      BY <3>1 DEF TypeOK, ShownIsSelected, BucketOf
  <2>3. QED
    BY <2>1, <2>2
<1>7. QED
  BY <1>1, <1>3, <1>4, <1>5, <1>6 DEF TypeOK, Calls, Loops

(* The projections follow the selection.                                    *)
LEMMA ShownStep ==
    ASSUME IInv, \/ \E h \in Places : SelectHost(h)
                 \/ \E k \in Kinds, h \in Places : Receives(k, h)
    PROVE  IInv'
<1> USE DEF IInv
<1>1. UNCHANGED <<hub, calls, events, connected, hosts, loop, hidden>>
  BY DEF SelectHost, Receives, netVars, listVars, pollVars
<1>2. shown \in [Kinds -> [of : Places, current : BOOLEAN]] /\ \A k \in Kinds : shown[k] = BucketOf(selected)
  BY DEF TypeOK, ShownIsSelected
<1>3. /\ selected' \in Places /\ shown' \in [Kinds -> [of : Places, current : BOOLEAN]]
      /\ ShownIsSelected'
  <2>1. CASE \E h \in Places : SelectHost(h)
    BY <2>1, SelectsOK DEF SelectHost
  <2>2. CASE \E k \in Kinds, h \in Places : Receives(k, h)
    <3>1. PICK k \in Kinds, h \in Places : Receives(k, h)
      BY <2>2
    <3>2. selected' = selected /\ selected \in Places
      BY <3>1 DEF Receives, listVars, TypeOK
    <3>3. CASE h = selected
      <4>1. shown' = [shown EXCEPT ![k] = BucketOf(h)]
        BY <3>1, <3>3 DEF Receives, Projects
      <4>2. QED
        BY <1>2, <3>2, <3>3, <4>1 DEF ShownIsSelected, BucketOf
    <3>4. CASE h # selected
      <4>1. shown' = [shown EXCEPT ![k] = [of |-> shown[k].of,
                                          current |-> shown[k].current /\ shown[k].of # h]]
        BY <3>1, <3>4 DEF Receives, Projects
      <4>2. shown[k] = [of |-> selected, current |-> TRUE]
        BY <1>2 DEF BucketOf
      <4>3. [of |-> shown[k].of, current |-> shown[k].current /\ shown[k].of # h] = BucketOf(selected)
        <5>1. shown[k].of = selected /\ shown[k].current = TRUE
          BY <4>2
        <5>2. (shown[k].current /\ shown[k].of # h) = TRUE
          BY <3>4, <5>1, Zenon
        <5>3. QED
          BY <5>1, <5>2, Zenon DEF BucketOf
      <4>4. BucketOf(selected) \in [of : Places, current : BOOLEAN]
        BY <3>2 DEF BucketOf
      <4>5. QED
        BY <1>2, <3>2, <4>1, <4>3, <4>4 DEF ShownIsSelected
    <3>5. QED
      BY <3>3, <3>4
  <2>3. QED
    BY <2>1, <2>2
<1>4. QED
  BY <1>1, <1>3 DEF TypeOK, AnswersFit, RunIsAPoll, Polls, LoopOK

(* The stream's events and the hub's own changes touch no loop.             *)
LEMMA EventStep == ASSUME IInv, EventArrives PROVE IInv'
<1> USE DEF IInv
<1>1. /\ events' = Tail(events) /\ events # <<>>
      /\ UNCHANGED <<hub, calls, connected, selected, loop, hidden, shown>>
  BY DEF EventArrives, pollVars
<1>2. /\ Head(events) \in [id : Hosts, status : Statuses]
      /\ events' \in Seq([id : Hosts, status : Statuses])
  BY <1>1, HeadTailProperties DEF TypeOK
<1>3. hosts' \in Seq(Entries)
  <2>1. \A i \in DOMAIN hosts : hosts[i] \in Entries
    BY LenProperties, ElementOfSeq DEF TypeOK
  <2>2. /\ DOMAIN hosts' = DOMAIN hosts
        /\ hosts' = [i \in DOMAIN hosts |-> hosts'[i]]
    BY DEF EventArrives
  <2>3. ASSUME NEW i \in DOMAIN hosts PROVE hosts'[i] \in Entries
    <3>1. hosts'[i] = hosts[i] \/ hosts'[i] = [hosts[i] EXCEPT !.status = Head(events).status]
      BY DEF EventArrives
    <3>2. QED
      BY <1>2, <2>1, <3>1 DEF Entries
  <2>4. QED
    BY <2>2, <2>3, MappedOK DEF TypeOK
<1>4. QED
  BY <1>1, <1>2, <1>3 DEF TypeOK, AnswersFit, RunIsAPoll, Polls, LoopOK, ShownIsSelected

LEMMA WorldStep ==
    ASSUME IInv, \/ \E h \in Hosts : AgentTurns(h) \/ OtherAdmin(h)
                 \/ StreamOpens \/ StreamDrops \/ UNCHANGED vars
    PROVE  IInv'
<1> USE DEF IInv
<1> SUFFICES /\ hub' \in Tables /\ events' \in Seq([id : Hosts, status : Statuses])
             /\ connected' \in BOOLEAN
             /\ UNCHANGED <<calls, hosts, selected, loop, hidden, shown>>
  BY DEF TypeOK, AnswersFit, RunIsAPoll, Polls, LoopOK, ShownIsSelected
<1>1. /\ hub \in Tables /\ events \in Seq([id : Hosts, status : Statuses])
      /\ connected \in BOOLEAN
  BY DEF TypeOK
<1>2. CASE \E h \in Hosts : AgentTurns(h)
  <2>1. PICK h \in Hosts : AgentTurns(h)
    BY <1>2
  <2>2. hub[h] \in Row
    BY <1>1, <2>1, EnrolledRow DEF AgentTurns
  <2>3. \E s \in {"online", "offline"} :
           /\ hub' = [hub EXCEPT ![h].status = s]
           /\ Announced(h, s) \/ UNCHANGED events
    BY <2>1 DEF AgentTurns, AgentSeen, AgentQuiet
  <2>4. PICK s \in {"online", "offline"} :
           /\ hub' = [hub EXCEPT ![h].status = s]
           /\ Announced(h, s) \/ UNCHANGED events
    BY <2>3
  <2>5. [hub[h] EXCEPT !.status = s] \in Row /\ s \in Statuses
    BY <2>2 DEF Row, Statuses
  <2>6. hub' \in Tables
    BY <1>1, <2>4, <2>5, TableExcept
  <2>7. events' \in Seq([id : Hosts, status : Statuses])
    BY <1>1, <2>4, <2>5, AnnouncedOK
  <2>8. QED
    BY <1>1, <2>1, <2>6, <2>7 DEF AgentTurns, listVars, pollVars
<1>3. CASE \E h \in Hosts : OtherAdmin(h)
  <2>1. PICK h \in Hosts : OtherAdmin(h)
    BY <1>3
  <2>2. hub' \in Tables
    BY <1>1, <2>1, NewRowOK, TableExcept DEF OtherAdmin
  <2>3. QED
    BY <1>1, <2>1, <2>2 DEF OtherAdmin, listVars, pollVars
<1>4. CASE StreamOpens
  BY <1>1, <1>4 DEF StreamOpens, listVars, pollVars
<1>5. CASE StreamDrops
  BY <1>1, <1>5, EmptySeq DEF StreamDrops, listVars, pollVars
<1>6. CASE UNCHANGED vars
  BY <1>1, <1>6 DEF vars, netVars, listVars, pollVars
<1>7. QED
  BY <1>2, <1>3, <1>4, <1>5, <1>6

LEMMA StepIInv == IInv /\ [Next]_vars => IInv'
BY LoopStep, SendStep, ServeStep, AnswerStep, ShownStep, EventStep, WorldStep DEF Next

LEMMA IInvOnePoll == IInv => OnePoll
<1> SUFFICES ASSUME IInv PROVE OnePoll
  OBVIOUS
<1>1. Cardinality(Polls) = IF loop.running THEN 1 ELSE 0
  BY FS_Singleton, FS_EmptySet DEF IInv, RunIsAPoll
<1>2. QED
  BY <1>1 DEF IInv, LoopOK, OnePoll, Polls

(* One poll at most is under way, none is to come for a hidden tab and one  *)
(* always is for a visible one, whatever the order of starts and stops,     *)
(* hiding and showing, answers and failures.                                *)
THEOREM OnePollHolds == HostsStoreSpec => []OnePoll
BY InitIInv, StepIInv, IInvOnePoll, PTL DEF HostsStoreSpec

(* The charts are the selected host's, and as they are now.                 *)
THEOREM ShownIsSelectedHolds == HostsStoreSpec => []ShownIsSelected
<1>1. IInv => ShownIsSelected
  BY DEF IInv
<1>2. QED
  BY <1>1, InitIInv, StepIInv, PTL DEF HostsStoreSpec

-----------------------------------------------------------------------------
(* The tokens.  A token is its own host's: the one it was generated for.    *)
TokenRow == [hash : Nat, disabled : BOOLEAN]

TokenAsk == [op : {"enroll", "rotate", "delete", "disabled", "offline"}, tab : Admins,
             n : Nat, heard : BOOLEAN, host : Ids \cup {Empty}, token : Nat,
             at : {"asked", "hashing", "answered", "failed"}]

TokenDialog == [kind : {"enroll", "rotate", "delete"}, host : Ids \cup {Empty}, n : Nat,
                busy : BOOLEAN, token : Nat]

TokensTypeOK ==
    /\ DOMAIN rows \subseteq Ids /\ \A h \in DOMAIN rows : rows[h] \in TokenRow
    /\ issued \in Seq(Ids)
    /\ asks \subseteq TokenAsk
    /\ dialog \in [Admins -> {NoDialog} \cup TokenDialog]
    /\ clicks \in Nat

Owned(token, h) == token \in DOMAIN issued /\ issued[token] = h

Stands(token, h) == h \in DOMAIN rows => rows[h].hash = token \/ token \in rivals

HashersOwn == \A a \in asks : a.at = "hashing" => Owned(a.token, a.host)

AnswersStand ==
    \A a \in asks : a.at \in {"answered", "failed"} /\ a.token # 0 =>
        Owned(a.token, a.host) /\ Stands(a.token, a.host)

DialogsStand ==
    \A t \in Admins : dialog[t] # NoDialog /\ dialog[t].token # 0 =>
        Owned(dialog[t].token, dialog[t].host) /\ Stands(dialog[t].token, dialog[t].host)

(* Two hashes under way for one host make rivals of both tokens.            *)
HashersAgree ==
    \A k \in DOMAIN issued \ rivals, b \in asks :
        b.at = "hashing" /\ b.host = issued[k] => b.token = k

AskedHaveNone == \A a \in asks : a.at = "asked" => a.token = 0

TokensInv ==
    /\ TokensTypeOK
    /\ HashersOwn /\ AnswersStand /\ DialogsStand /\ HashersAgree /\ AskedHaveNone

LEMMA TokensInvShows == TokensInv => ShownTokenOpens
BY DEF TokensInv, ShownTokenOpens, DialogsStand, Stands, Shows

LEMMA TokensInitInv == TokensInit => TokensInv
<1> SUFFICES ASSUME TokensInit PROVE TokensInv
  OBVIOUS
<1>1. PICK h \in Ids : /\ rows = [i \in {h} |-> [hash |-> 1, disabled |-> FALSE]]
                       /\ issued = <<h>> /\ rivals = {} /\ asks = {} /\ clicks = 0
                       /\ dialog = [t \in Admins |-> NoDialog]
  BY DEF TokensInit
<1>2. TokensTypeOK
  BY <1>1 DEF TokensTypeOK, TokenRow
<1>3. QED
  BY <1>1, <1>2 DEF TokensInv, HashersOwn, AnswersStand, DialogsStand, HashersAgree, AskedHaveNone

----------------------------------------------------------------------------
(* What most steps leave alone: the hub's tables, or the asks that hash.    *)

LEMMA AskStep ==
    ASSUME TokensInv, UNCHANGED <<rows, issued, rivals>>, clicks' \in Nat,
           dialog' \in [Admins -> {NoDialog} \cup TokenDialog],
           \A t \in Admins : dialog'[t] # NoDialog /\ dialog'[t].token # 0 =>
               Owned(dialog'[t].token, dialog'[t].host) /\ Stands(dialog'[t].token, dialog'[t].host),
           asks' \subseteq TokenAsk,
           \A b \in asks' : \/ b.token = 0 /\ b.at # "hashing"
                            \/ \E c \in asks : c.at = b.at /\ c.token = b.token /\ c.host = b.host
    PROVE  TokensInv'
<1>1. TokensTypeOK'
  BY DEF TokensInv, TokensTypeOK
<1>2. HashersOwn' /\ AnswersStand'
  BY DEF TokensInv, HashersOwn, AnswersStand, Owned, Stands
<1>3. DialogsStand'
  BY DEF TokensInv, DialogsStand, Owned, Stands
<1>4. HashersAgree'
  BY DEF TokensInv, HashersAgree
<1>5. AskedHaveNone'
  BY DEF TokensInv, AskedHaveNone
<1>6. QED
  BY <1>1, <1>2, <1>3, <1>4, <1>5 DEF TokensInv

LEMMA PageSteps ==
    ASSUME TokensInv,
           NEW t \in Admins,
           \/ Submit(t) \/ CloseDialog(t) \/ OpenDialog(t, "enroll", Empty)
           \/ \E h \in Used : \/ \E kind \in {"rotate", "delete"} : OpenDialog(t, kind, h)
                              \/ \E to \in {"disabled", "offline"} : Toggle(t, h, to)
    PROVE  TokensInv'
<1> USE DEF hubVars
<1>T. TokensTypeOK /\ DialogsStand
  BY DEF TokensInv
<1>U. Used \subseteq Ids
  BY <1>T DEF TokensTypeOK, Used
<1>1. CASE Submit(t)
  <2>1. dialog[t] \in TokenDialog
    BY <1>T, <1>1 DEF TokensTypeOK, Submit
  <2>a. [op |-> dialog[t].kind, tab |-> t, n |-> dialog[t].n, heard |-> TRUE,
         host |-> dialog[t].host, token |-> 0, at |-> "asked"] \in TokenAsk
    <3>1. /\ dialog[t].kind \in {"enroll", "rotate", "delete"} /\ dialog[t].n \in Nat
          /\ dialog[t].host \in Ids \cup {Empty}
      BY <2>1 DEF TokenDialog
    <3>2. QED
      BY <3>1 DEF TokenAsk
  <2>2. asks' \subseteq TokenAsk
    BY <1>T, <1>1, <2>a DEF TokensTypeOK, Submit
  <2>b. [dialog[t] EXCEPT !.busy = TRUE] \in TokenDialog
    BY <2>1 DEF TokenDialog
  <2>3. dialog' \in [Admins -> {NoDialog} \cup TokenDialog]
    BY <1>T, <1>1, <2>b DEF TokensTypeOK, Submit
  <2>4. \A s \in Admins : dialog'[s] = dialog[s] \/ dialog'[s].token = 0
    BY <1>T, <1>1, <2>1 DEF TokensTypeOK, Submit, TokenDialog
  <2>5. QED
    BY <1>T, <1>1, <2>2, <2>3, <2>4, AskStep DEF TokensTypeOK, DialogsStand, Submit
<1>2. CASE CloseDialog(t)
  BY <1>T, <1>2, AskStep DEF TokensTypeOK, DialogsStand, CloseDialog
<1>3. CASE \E kind \in {"enroll", "rotate", "delete"}, h \in Used \cup {Empty} : OpenDialog(t, kind, h)
  BY <1>T, <1>U, <1>3, AskStep DEF TokensTypeOK, DialogsStand, OpenDialog, Click, TokenDialog
<1>4. CASE \E h \in Used, to \in {"disabled", "offline"} : Toggle(t, h, to)
  <2>1. PICK h \in Ids, to \in {"disabled", "offline"} : Toggle(t, h, to)
    BY <1>4, <1>U
  <2>2. clicks' \in Nat /\ clicks' = clicks + 1
    BY <1>T, <2>1 DEF TokensTypeOK, Toggle, Click
  <2>3. [op |-> to, tab |-> t, n |-> clicks + 1, heard |-> TRUE,
         host |-> h, token |-> 0, at |-> "asked"] \in TokenAsk
    BY <2>2 DEF TokenAsk
  <2> DEFINE b == [op |-> to, tab |-> t, n |-> clicks + 1, heard |-> TRUE,
                   host |-> h, token |-> 0, at |-> "asked"]
  <2>4. b.token = 0 /\ b.at # "hashing"
    OBVIOUS
  <2>5. asks' = asks \cup {b} /\ UNCHANGED <<rows, issued, rivals, dialog>>
    BY <2>1 DEF Toggle
  <2>6. b \in TokenAsk
    BY <2>3
  <2> HIDE DEF b
  <2>7. QED
    BY <1>T, <2>2, <2>4, <2>5, <2>6, AskStep DEF TokensTypeOK, DialogsStand
<1>5. QED
  BY <1>1, <1>2, <1>3, <1>4
----------------------------------------------------------------------------
(* The answers.                                                             *)

LEMMA AnswerSteps ==
    ASSUME TokensInv, NEW a \in asks, TokenAnswered(a) \/ ConnectionBreaks(a) \/ NotFound(a)
    PROVE  TokensInv'
<1> USE DEF hubVars
<1>T. TokensTypeOK /\ DialogsStand /\ AnswersStand /\ AskedHaveNone /\ a \in TokenAsk
  BY DEF TokensInv, TokensTypeOK
<1>1. CASE TokenAnswered(a)
  <2> DEFINE d == dialog[a.tab]
             e == DialogAfter(d, a)
  <2>1. a.tab \in Admins /\ d \in {NoDialog} \cup TokenDialog /\ a.host \in Ids \cup {Empty} /\ a.token \in Nat
    BY <1>T DEF TokensTypeOK, TokenAsk
  <2>2. \/ e = NoDialog
        \/ e = d
        \/ d \in TokenDialog /\ d # NoDialog /\ e = [d EXCEPT !.busy = FALSE]
        \/ d \in TokenDialog /\ e = [d EXCEPT !.busy = FALSE, !.host = a.host, !.token = a.token]
    BY <2>1 DEF DialogAfter, IsOf
  <2>3. e \in {NoDialog} \cup TokenDialog
    BY <2>1, <2>2 DEF TokenDialog
  <2>4. e # NoDialog /\ e.token # 0 => Owned(e.token, e.host) /\ Stands(e.token, e.host)
    <3>1. d # NoDialog /\ d.token # 0 => Owned(d.token, d.host) /\ Stands(d.token, d.host)
      BY <1>T, <2>1 DEF DialogsStand
    <3>2. a.token # 0 => Owned(a.token, a.host) /\ Stands(a.token, a.host)
      BY <1>T, <1>1 DEF AnswersStand, TokenAnswered
    <3>3. CASE d \in TokenDialog /\ d # NoDialog /\ e = [d EXCEPT !.busy = FALSE]
      BY <3>1, <3>3 DEF TokenDialog
    <3>4. CASE d \in TokenDialog /\ e = [d EXCEPT !.busy = FALSE, !.host = a.host, !.token = a.token]
      BY <3>2, <3>4 DEF TokenDialog
    <3>5. QED
      BY <2>2, <3>1, <3>3, <3>4
  <2>5. dialog' = dialog \/ dialog' = [dialog EXCEPT ![a.tab] = e]
    BY <1>1 DEF TokenAnswered
  <2> HIDE DEF d, e
  <2>6. dialog' \in [Admins -> {NoDialog} \cup TokenDialog]
    BY <1>T, <2>1, <2>3, <2>5 DEF TokensTypeOK
  <2>7. \A t \in Admins : dialog'[t] = dialog[t] \/ dialog'[t] = e
    BY <1>T, <2>1, <2>5 DEF TokensTypeOK
  <2>8. QED
    BY <1>T, <1>1, <2>4, <2>6, <2>7, AskStep DEF TokensTypeOK, DialogsStand, TokenAnswered
<1>2. CASE ConnectionBreaks(a)
  <2> DEFINE d == dialog[a.tab]
             e == IF IsOf(d, a) THEN [d EXCEPT !.busy = FALSE] ELSE d
             b == [a EXCEPT !.heard = FALSE]
  <2>1. a.tab \in Admins /\ d \in {NoDialog} \cup TokenDialog
    BY <1>T DEF TokensTypeOK, TokenAsk
  <2>2. e \in {NoDialog} \cup TokenDialog
    BY <2>1 DEF TokenDialog, IsOf
  <2>3. e # NoDialog /\ e.token # 0 => Owned(e.token, e.host) /\ Stands(e.token, e.host)
    <3>1. d # NoDialog /\ d.token # 0 => Owned(d.token, d.host) /\ Stands(d.token, d.host)
      BY <1>T, <2>1 DEF DialogsStand
    <3>2. QED
      BY <2>1, <3>1 DEF TokenDialog, IsOf
  <2>4. b \in TokenAsk /\ b.at = a.at /\ b.token = a.token /\ b.host = a.host
    BY <1>T DEF TokenAsk
  <2>5. asks' = asks \ {a} \/ asks' = (asks \ {a}) \cup {b}
    BY <1>2 DEF ConnectionBreaks, Onward
  <2>6. dialog' = [dialog EXCEPT ![a.tab] = e]
    BY <1>2 DEF ConnectionBreaks
  <2> HIDE DEF d, e, b
  <2>7. dialog' \in [Admins -> {NoDialog} \cup TokenDialog]
    BY <1>T, <2>1, <2>2, <2>6 DEF TokensTypeOK
  <2>8. \A t \in Admins : dialog'[t] = dialog[t] \/ dialog'[t] = e
    BY <1>T, <2>1, <2>6 DEF TokensTypeOK
  <2>9. asks' \subseteq TokenAsk
    BY <1>T, <2>4, <2>5 DEF TokensTypeOK
  <2>10. \A c \in asks' : \E c0 \in asks : c0.at = c.at /\ c0.token = c.token /\ c0.host = c.host
    BY <2>4, <2>5
  <2>11. QED
    BY <1>T, <1>2, <2>3, <2>7, <2>8, <2>9, <2>10, AskStep DEF TokensTypeOK, DialogsStand, ConnectionBreaks
<1>3. CASE NotFound(a)
  <2> DEFINE b == [a EXCEPT !.at = "failed"]
  <2>1. b \in TokenAsk /\ b.at = "failed" /\ b.token = a.token
    BY <1>T DEF TokenAsk
  <2>2. a.token = 0
    BY <1>T, <1>3 DEF AskedHaveNone, NotFound, Handled
  <2>3. asks' = (asks \ {a}) \cup {b}
    BY <1>3 DEF NotFound, Ended, Onward
  <2> HIDE DEF b
  <2>4. QED
    BY <1>T, <1>3, <2>1, <2>2, <2>3, AskStep DEF TokensTypeOK, DialogsStand, NotFound
<1>4. QED
  BY <1>1, <1>2, <1>3

----------------------------------------------------------------------------
(* The hub.                                                                 *)

LEMMA GenerateInv ==
    ASSUME TokensInv, NEW a \in asks, NEW h \in Ids, Generate(a, h)
    PROVE  TokensInv'
<1> DEFINE n == Len(issued')
           b == [a EXCEPT !.host = h, !.token = n, !.at = "hashing"]
<1>T. TokensTypeOK /\ a \in TokenAsk
  BY DEF TokensInv, TokensTypeOK
<1>1. /\ issued' \in Seq(Ids) /\ n \in Nat \ {0} /\ n = Len(issued) + 1 /\ issued'[n] = h
      /\ DOMAIN issued' = DOMAIN issued \cup {n} /\ \A k \in DOMAIN issued : issued'[k] = issued[k] /\ k # n
  BY <1>T, AppendProperties, LenProperties DEF TokensTypeOK, Generate
<1>2. b \in TokenAsk /\ b.host = h /\ b.token = n /\ b.at = "hashing"
  BY <1>T, <1>1 DEF TokenAsk
<1>3. /\ asks' = (asks \ {a}) \cup {b} /\ UNCHANGED <<rows, dialog, clicks>>
      /\ rivals' = rivals \cup TokensOf(h) \cup IF HashingFor(h) = {} THEN {} ELSE {n}
  BY DEF Generate, Onward
<1> HIDE DEF n, b
<1>4. TokensTypeOK'
  BY <1>T, <1>1, <1>2, <1>3 DEF TokensTypeOK
<1>5. \A k, g : Owned(k, g) => Owned(k, g)'
  BY <1>1 DEF Owned
<1>6. \A k, g : Stands(k, g) => Stands(k, g)'
  BY <1>3 DEF Stands
<1>7. HashersOwn'
  BY <1>1, <1>2, <1>3, <1>5 DEF TokensInv, HashersOwn, Owned
<1>8. AnswersStand'
  BY <1>2, <1>3, <1>5, <1>6 DEF TokensInv, AnswersStand
<1>9. DialogsStand'
  BY <1>3, <1>5, <1>6 DEF TokensInv, DialogsStand
<1>10. HashersAgree'
  <2> SUFFICES ASSUME NEW k \in DOMAIN issued', k \notin rivals', NEW c \in asks',
                      c.at = "hashing", c.host = issued'[k]
               PROVE  c.token = k
    BY DEF HashersAgree
  <2>1. CASE k = n
    BY <1>1, <1>2, <1>3, <2>1 DEF HashingFor
  <2>2. CASE k # n
    <3>1. k \in DOMAIN issued /\ issued'[k] = issued[k] /\ k \notin rivals /\ issued[k] # h
      BY <1>1, <1>3, <2>2 DEF TokensOf
    <3>2. QED
      BY <1>2, <1>3, <3>1 DEF TokensInv, HashersAgree
  <2>3. QED
    BY <2>1, <2>2
<1>11. AskedHaveNone'
  BY <1>2, <1>3 DEF TokensInv, AskedHaveNone
<1>12. QED
  BY <1>4, <1>7, <1>8, <1>9, <1>10, <1>11 DEF TokensInv

(* A hash that is stored is of a token nobody competes with, or makes rivals *)
(* of the tokens it shuts out: HashersAgree.                                *)
LEMMA StoreInv ==
    ASSUME TokensInv, NEW a \in asks, StoreRotated(a) \/ StoreEnrolled(a)
    PROVE  TokensInv'
<1> DEFINE b == [a EXCEPT !.at = "answered"]
<1>T. TokensTypeOK /\ a \in TokenAsk
  BY DEF TokensInv, TokensTypeOK
<1>1. b \in TokenAsk /\ b.host = a.host /\ b.token = a.token /\ b.at = "answered" /\ a.token \in Nat
  BY <1>T DEF TokenAsk
<1>2. asks' = (asks \ {a}) \cup {b} /\ UNCHANGED <<issued, rivals, dialog, clicks>> /\ a.at = "hashing"
  BY DEF StoreRotated, StoreEnrolled, Ended, Onward
<1> HIDE DEF b
<1>3. Owned(a.token, a.host)
  BY <1>2 DEF TokensInv, HashersOwn
<1>4. /\ DOMAIN rows' \subseteq DOMAIN rows \cup {a.host}
      /\ \A h \in DOMAIN rows' : \/ h = a.host /\ rows'[h] \in TokenRow /\ rows'[h].hash = a.token
                                 \/ h # a.host /\ h \in DOMAIN rows /\ rows'[h] = rows[h]
  <2>1. CASE StoreRotated(a)
    <3>1. rows' = [h \in DOMAIN rows |-> IF h = a.host THEN Rehashed(h, a.token) ELSE rows[h]]
      BY <2>1 DEF StoreRotated
    <3>2. \A h \in DOMAIN rows : Rehashed(h, a.token) \in TokenRow /\ Rehashed(h, a.token).hash = a.token
      BY <1>1, <1>T DEF TokensTypeOK, TokenRow, Rehashed
    <3>3. DOMAIN rows' = DOMAIN rows
      BY <3>1
    <3>4. \A h \in DOMAIN rows : rows'[h] = IF h = a.host THEN Rehashed(h, a.token) ELSE rows[h]
      BY <3>1
    <3>5. QED
      BY <3>2, <3>3, <3>4
  <2>2. CASE StoreEnrolled(a)
    <3> DEFINE r == [hash |-> a.token, disabled |-> FALSE]
    <3>1. r \in TokenRow /\ r.hash = a.token
      BY <1>1 DEF TokenRow
    <3>2. rows' = [h \in DOMAIN rows \cup {a.host} |-> IF h = a.host THEN r ELSE rows[h]]
      BY <2>2 DEF StoreEnrolled
    <3> HIDE DEF r
    <3>3. DOMAIN rows' = DOMAIN rows \cup {a.host}
      BY <3>2
    <3>4. \A h \in DOMAIN rows' : rows'[h] = IF h = a.host THEN r ELSE rows[h]
      BY <3>2
    <3>5. QED
      BY <3>1, <3>3, <3>4
  <2>3. QED
    BY <2>1, <2>2
<1>5. TokensTypeOK'
  <2>1. a.host \in Ids
    BY <1>T, <1>3, ElementOfSeq DEF TokensTypeOK, Owned
  <2>2. QED
    BY <1>T, <1>1, <1>2, <1>4, <2>1 DEF TokensTypeOK
<1>6. \A k, h : Owned(k, h) /\ Stands(k, h) => Stands(k, h)'
  <2> SUFFICES ASSUME NEW k, NEW h, Owned(k, h), Stands(k, h), h \in DOMAIN rows', k \notin rivals
               PROVE  rows'[h].hash = k
    BY <1>2 DEF Stands
  <2>1. CASE h = a.host
    BY <1>2, <1>4, <2>1 DEF TokensInv, HashersAgree, Owned
  <2>2. CASE h # a.host
    BY <1>4, <2>2 DEF Stands
  <2>3. QED
    BY <2>1, <2>2
<1>7. Stands(a.token, a.host)'
  BY <1>4 DEF Stands
<1>8. \A k, h : Owned(k, h)' <=> Owned(k, h)
  BY <1>2 DEF Owned
<1>9. HashersOwn'
  BY <1>1, <1>2, <1>8 DEF TokensInv, HashersOwn
<1>10. AnswersStand'
  BY <1>1, <1>2, <1>3, <1>6, <1>7, <1>8 DEF TokensInv, AnswersStand
<1>11. DialogsStand'
  BY <1>2, <1>6, <1>8 DEF TokensInv, DialogsStand
<1>12. HashersAgree' /\ AskedHaveNone'
  BY <1>1, <1>2 DEF TokensInv, HashersAgree, AskedHaveNone
<1>13. QED
  BY <1>5, <1>9, <1>10, <1>11, <1>12 DEF TokensInv

LEMMA EditInv ==
    ASSUME TokensInv, NEW a \in asks, Delete(a) \/ SetStatus(a)
    PROVE  TokensInv'
<1> DEFINE b == [a EXCEPT !.at = "answered"]
<1>T. TokensTypeOK /\ a \in TokenAsk
  BY DEF TokensInv, TokensTypeOK
<1>1. b \in TokenAsk /\ b.host = a.host /\ b.token = a.token /\ b.at = "answered"
  BY <1>T DEF TokenAsk
<1>2. asks' = (asks \ {a}) \cup {b} /\ UNCHANGED <<issued, rivals, dialog, clicks>> /\ a.at = "asked"
  BY DEF Delete, SetStatus, Handled, Ended, Onward
<1> HIDE DEF b
<1>3. a.token = 0
  BY <1>2 DEF TokensInv, AskedHaveNone
<1>4. /\ DOMAIN rows' \subseteq DOMAIN rows
      /\ \A h \in DOMAIN rows' : rows'[h] \in TokenRow /\ rows'[h].hash = rows[h].hash
  <2>1. CASE Delete(a)
    BY <1>T, <2>1 DEF Delete, TokensTypeOK
  <2>2. CASE SetStatus(a)
    <3>1. rows' = [rows EXCEPT ![a.host] = [rows[a.host] EXCEPT !.disabled = (a.op = "disabled")]] /\ a.host \in DOMAIN rows
      BY <2>2 DEF SetStatus
    <3>2. [rows[a.host] EXCEPT !.disabled = (a.op = "disabled")] \in TokenRow
      BY <1>T, <3>1 DEF TokensTypeOK, TokenRow
    <3>3. [rows[a.host] EXCEPT !.disabled = (a.op = "disabled")].hash = rows[a.host].hash
      BY <1>T, <3>1 DEF TokensTypeOK, TokenRow
    <3>4. QED
      BY <1>T, <3>1, <3>2, <3>3 DEF TokensTypeOK
  <2>3. QED
    BY <2>1, <2>2
<1>5. TokensTypeOK'
  BY <1>T, <1>1, <1>2, <1>4 DEF TokensTypeOK
<1>6. \A k, h : Stands(k, h) => Stands(k, h)'
  BY <1>2, <1>4 DEF Stands
<1>7. \A k, h : Owned(k, h)' <=> Owned(k, h)
  BY <1>2 DEF Owned
<1>8. HashersOwn' /\ HashersAgree' /\ AskedHaveNone'
  BY <1>1, <1>2, <1>7 DEF TokensInv, HashersOwn, HashersAgree, AskedHaveNone
<1>9. AnswersStand' /\ DialogsStand'
  BY <1>1, <1>2, <1>3, <1>6, <1>7 DEF TokensInv, AnswersStand, DialogsStand
<1>10. QED
  BY <1>5, <1>8, <1>9 DEF TokensInv

LEMMA TokensStepInv == TokensInv /\ [TokensNext]_tokenVars => TokensInv'
<1> SUFFICES ASSUME TokensInv, [TokensNext]_tokenVars PROVE TokensInv'
  OBVIOUS
<1>1. CASE \E t \in Admins : \/ Submit(t) \/ CloseDialog(t) \/ OpenDialog(t, "enroll", Empty)
                             \/ \E h \in Used : \/ \E kind \in {"rotate", "delete"} : OpenDialog(t, kind, h)
                                                \/ \E to \in {"disabled", "offline"} : Toggle(t, h, to)
  BY <1>1, PageSteps
<1>2. CASE \E a \in asks, h \in Ids : Generate(a, h)
  BY <1>2, GenerateInv
<1>3. CASE \E a \in asks : StoreRotated(a) \/ StoreEnrolled(a)
  BY <1>3, StoreInv
<1>4. CASE \E a \in asks : Delete(a) \/ SetStatus(a)
  BY <1>4, EditInv
<1>5. CASE \E a \in asks : NotFound(a) \/ TokenAnswered(a) \/ ConnectionBreaks(a)
  BY <1>5, AnswerSteps
<1>6. CASE UNCHANGED <<rows, issued, rivals, asks, dialog, clicks>>
  BY <1>6 DEF TokensInv, TokensTypeOK, HashersOwn, AnswersStand, DialogsStand, HashersAgree, AskedHaveNone, Owned, Stands
<1>7. CASE \E t \in Admins, m \in Machines : Install(t, m) \/ Uninstall(t, m)
  BY <1>6, <1>7 DEF Install, Uninstall, hubVars, pageVars
<1>8. CASE \E m \in Machines : Knock(m) \/ Compared(m) \/ SocketDrops(m)
  BY <1>6, <1>8 DEF Knock, Compared, SocketDrops, hubVars, pageVars
<1>9. CASE UNCHANGED tokenVars
  BY <1>6, <1>9 DEF tokenVars, hubVars, pageVars
<1>10. QED
  BY <1>1, <1>2, <1>3, <1>4, <1>5, <1>7, <1>8, <1>9 DEF TokensNext

LEMMA TokensInductive == TokensSpec => []TokensInv
BY TokensInitInv, TokensStepInv, PTL DEF TokensSpec

\* A token a dialog shows is the one the hub opens to (settings/EnrollHostModal.tsx,
\* routes/hosts.ts), unless another rotation for its host is under way or has run.
THEOREM ShownTokenOpensHolds == TokensSpec => []ShownTokenOpens
BY TokensInductive, TokensInvShows, PTL
=============================================================================
