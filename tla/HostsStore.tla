---------------------------- MODULE HostsStore ----------------------------
(***************************************************************************)
(* What a browser tab knows of the hosts: src/store/hostsStore.ts, fed by  *)
(* a poll every 15 s while the tab is visible (lib/poll.ts), by the        *)
(* refresh some pages call when they open, by the answers to the admin's   *)
(* own calls and by the host_status events of the stream; and the          *)
(* projections of src/store/gpuStore.ts on the selected host.               *)
(*                                                                         *)
(* Each request is served by the hub at one moment and answered at another,*)
(* in any order.  A host's row is its label and its status.  An id is      *)
(* never used twice.                                                       *)
(***************************************************************************)
EXTENDS Integers, Sequences, FiniteSets, SequencesExt

CONSTANTS
    Hosts,       \* ids of agents, enrolled or to be enrolled
    Local,       \* LOCAL_HOST_ID, selected at first
    Labels,      \* labels a host may be given
    Label,       \* of them, the one a host is enrolled with
    MaxChanges,  \* bound: changes of the hub's table
    MaxCalls,    \* bound: requests in flight when one more is sent
    MaxFaults,   \* bound: requests that fail and streams that drop
    None,        \* not enrolled yet, not served yet
    Gone,        \* deleted
    Failed       \* an answer that is an error, or none

ASSUME HostsStoreConstantsOK ==
    /\ IsFiniteSet(Hosts) /\ Local \notin Hosts
    /\ Label \in Labels /\ Cardinality({None, Gone, Failed}) = 3
    /\ MaxChanges \in Nat /\ MaxCalls \in Nat /\ MaxFaults \in Nat

VARIABLES
    hub,       \* the hub's hosts table
    calls,     \* requests sent and not answered
    events,    \* host_status frames on the open stream
    connected, \* the stream is open
    hosts,     \* the store's list
    selected,  \* selectedHostId
    loop,      \* pollWhileVisible: started, a timer is set, a run is on
    hidden,    \* document.hidden
    shown,     \* latest and history: whose bucket, and as it is now or before
    changes,   \* history: changes of the table so far
    faults     \* history: faults so far

netVars == <<hub, calls, events, connected>>
listVars == <<hosts, selected>>
pollVars == <<loop, hidden>>
boundVars == <<changes, faults>>
vars == <<netVars, listVars, pollVars, shown, boundVars>>

Statuses == {"pending", "online", "offline", "disabled"}
Row == [label : Labels, status : Statuses]
NewRow == [label |-> Label, status |-> "pending"]
Enrolled(table) == {h \in Hosts : table[h] \notin {None, Gone}}

(* The row a store's entry shows, and the hub's list in some order.         *)
Entry(h, row) == [id |-> h, label |-> row.label, status |-> row.status]
Entries == [id : Hosts, label : Labels, status : Statuses]

Tables == [Hosts -> Row \cup {None, Gone}]

(* What is sent, and what the hub answered.                                 *)
Edits == {[kind |-> "rename", host |-> h, to |-> l] : h \in Hosts, l \in Labels}
           \cup {[kind |-> "setEnabled", host |-> h, to |-> s] :
                     h \in Hosts, s \in {"offline", "disabled"}}
Creations == {[kind |-> "enroll", host |-> h, to |-> Label] : h \in Hosts}
Removals == {[kind |-> "remove", host |-> h, to |-> None] : h \in Hosts}
Poll == [kind |-> "poll", host |-> None, to |-> None]
Refresh == [kind |-> "refresh", host |-> None, to |-> None]
Requests == Edits \cup Creations \cup Removals \cup {Poll, Refresh}
Answers == Tables \cup Row \cup {None, Gone, Failed}

Sent(request) == [request |-> request, answer |-> None]

(* Two projections, of the samples and of the history.                      *)
Kinds == {"latest", "history"}
Places == Hosts \cup {Local}
BucketOf(h) == [of |-> h, current |-> TRUE]

Init ==
    /\ hub \in [Hosts -> [label : {Label}, status : {"online", "pending"}] \cup {None}]
    /\ calls = {} /\ events = <<>> /\ connected = FALSE
    /\ hosts = <<>> /\ selected = Local
    /\ loop = [started |-> FALSE, timer |-> FALSE, running |-> FALSE]
    /\ hidden = FALSE
    /\ shown = [k \in Kinds |-> BucketOf(Local)]
    /\ changes = 0 /\ faults = 0

----------------------------------------------------------------------------
(* pollWhileVisible.                                                        *)

CanSend == Cardinality(calls) < MaxCalls

(* App's effect on a token: startPolling, with its own first refresh.       *)
StartPolling ==
    /\ ~loop.started
    /\ CanSend
    /\ calls' = calls \cup {Sent(Refresh)}
    /\ loop' = [started |-> TRUE, timer |-> ~hidden, running |-> FALSE]
    /\ UNCHANGED <<hub, events, connected, listVars, hidden, shown, boundVars>>

(* Its cleanup.  A run that is on ends as a refresh that schedules nothing. *)
StopPolling ==
    /\ loop.started
    /\ loop' = [started |-> FALSE, timer |-> FALSE, running |-> FALSE]
    /\ calls' = {IF c.request = Poll THEN [c EXCEPT !.request = Refresh] ELSE c : c \in calls}
    /\ UNCHANGED <<hub, events, connected, listVars, hidden, shown, boundVars>>

(* run, from the timer or from a tab that is shown again.                   *)
Run ==
    IF loop.running
        THEN loop' = [loop EXCEPT !.timer = FALSE] /\ UNCHANGED calls
        ELSE /\ loop' = [loop EXCEPT !.timer = FALSE, !.running = TRUE]
             /\ calls' = calls \cup {Sent(Poll)}

TimerFires ==
    /\ loop.timer
    /\ Run
    /\ UNCHANGED <<hub, events, connected, listVars, hidden, shown, boundVars>>

Hide ==
    /\ ~hidden
    /\ hidden' = TRUE
    /\ loop' = [loop EXCEPT !.timer = FALSE]
    /\ UNCHANGED <<netVars, listVars, shown, boundVars>>

Show ==
    /\ hidden
    /\ hidden' = FALSE
    /\ IF loop.started /\ ~loop.timer /\ ~loop.running
        THEN Run
        ELSE UNCHANGED <<loop, calls>>
    /\ UNCHANGED <<hub, events, connected, listVars, shown, boundVars>>

(* The end of a run: finally, then schedule.                                *)
Schedules == loop.started /\ ~hidden

RunEnds_OnSuccess(c) ==
    IF c.request = Poll /\ c.answer # Failed
        THEN loop' = [loop EXCEPT !.running = FALSE, !.timer = Schedules]
        ELSE UNCHANGED loop

RunEnds(c) ==
    IF c.request = Poll
        THEN loop' = [loop EXCEPT !.running = FALSE, !.timer = Schedules]
        ELSE UNCHANGED loop

----------------------------------------------------------------------------
(* Requests.                                                                *)

(* FleetPage, HostsSettingsTab and LlmSettings refresh when they open.       *)
PageOpens ==
    /\ loop.started
    /\ CanSend
    /\ calls' = calls \cup {Sent(Refresh)}
    /\ UNCHANGED <<hub, events, connected, listVars, pollVars, shown, boundVars>>

(* What the settings page offers to do with an entry.                       *)
Offered(request, entry) ==
    /\ request.kind = "rename" => request.to # entry.label
    /\ request.kind = "setEnabled" => (request.to = "offline") = (entry.status = "disabled")

(* The admin's calls: enroll, rename (as setColor and setAutoUpdate),        *)
(* setEnabled, remove.  The id of a new host is the hub's choice.           *)
AdminCalls(request) ==
    /\ loop.started
    /\ CanSend
    /\ request.kind # "enroll" =>
         \E i \in DOMAIN hosts : hosts[i].id = request.host /\ Offered(request, hosts[i])
    /\ calls' = calls \cup {Sent(request)}
    /\ UNCHANGED <<hub, events, connected, listVars, pollVars, shown, boundVars>>

(* metricsBus host_status, sent to the streams that are open.               *)
Announced(h, status) ==
    events' = IF connected THEN Append(events, [id |-> h, status |-> status]) ELSE events

Changes == changes < MaxChanges /\ changes' = changes + 1

(* The hub serves a request of the list.                                    *)
ServeList(c) ==
    /\ c.request \in {Poll, Refresh}
    /\ calls' = (calls \ {c}) \cup {[c EXCEPT !.answer = hub]}
    /\ UNCHANGED <<hub, events, changes>>

Served(c, answer) == calls' = (calls \ {c}) \cup {[c EXCEPT !.answer = answer]}

ServeEnroll(c) ==
    /\ c.request \in Creations
    /\ hub[c.request.host] = None
    /\ Changes
    /\ hub' = [hub EXCEPT ![c.request.host] = NewRow]
    /\ Served(c, NewRow)
    /\ UNCHANGED events

ServeEdit(c) ==
    /\ c.request \in Edits
    /\ c.request.host \in Enrolled(hub)
    /\ Changes
    /\ LET h == c.request.host
           row == IF c.request.kind = "rename"
                    THEN [hub[h] EXCEPT !.label = c.request.to]
                    ELSE [hub[h] EXCEPT !.status = c.request.to]
       IN /\ hub' = [hub EXCEPT ![h] = row]
          /\ Served(c, row)
          /\ IF c.request.kind = "setEnabled" THEN Announced(h, row.status) ELSE UNCHANGED events

ServeRemove(c) ==
    /\ c.request \in Removals
    /\ c.request.host \in Enrolled(hub)
    /\ Changes
    /\ hub' = [hub EXCEPT ![c.request.host] = Gone]
    /\ Served(c, Gone)
    /\ UNCHANGED events

(* A host that is not there any more: 404; an id that is taken: the hub     *)
(* would have chosen another, so that request is one that was never made.   *)
ServeNotFound(c) ==
    /\ c.request \in Edits \cup Removals \cup Creations
    /\ IF c.request \in Creations
         THEN hub[c.request.host] # None
         ELSE c.request.host \notin Enrolled(hub)
    /\ Served(c, Failed)
    /\ UNCHANGED <<hub, events, changes>>

Serve(c) ==
    /\ c.answer = None
    /\ ServeList(c) \/ ServeEnroll(c) \/ ServeEdit(c) \/ ServeRemove(c) \/ ServeNotFound(c)
    /\ UNCHANGED <<connected, listVars, pollVars, shown, faults>>

(* The hub is down, or the connection breaks before or after it has served. *)
CallFails(c) ==
    /\ c.answer # Failed
    /\ faults < MaxFaults /\ faults' = faults + 1
    /\ Served(c, Failed)
    /\ UNCHANGED <<hub, events, connected, listVars, pollVars, shown, changes>>

----------------------------------------------------------------------------
(* The store.                                                               *)

(* The list the hub's answer holds: any order, each host once.              *)
Lists(table) == SetToSeqs({Entry(h, table[h]) : h \in Enrolled(table)})

(* refresh puts it in the place of the old list.                            *)
Refreshed_Merged(table) ==
    {SelectSeq(hosts, LAMBDA e : e.id \notin Enrolled(table)) \o l : l \in Lists(table)}
Refreshed(table) == Lists(table)

Replaced(h, row) ==
    [i \in DOMAIN hosts |-> IF hosts[i].id = h THEN Entry(h, row) ELSE hosts[i]]

(* The list without h, the others in their order.                           *)
Without(h) ==
    LET kept == {i \in DOMAIN hosts : hosts[i].id # h}
        orders == {p \in [1 .. Cardinality(kept) -> kept] :
                      \A i, j \in DOMAIN p : i < j => p[i] < p[j]}
    IN {[i \in DOMAIN p |-> hosts[p[i]]] : p \in orders}

(* What an answer makes of the list; refresh keeps the old one on failure.  *)
Applied(c) ==
    IF c.answer = Failed THEN {hosts}
    ELSE CASE c.request \in {Poll, Refresh} -> Refreshed(c.answer)
           [] c.request \in Edits           -> {Replaced(c.request.host, c.answer)}
           [] c.request \in Creations       -> {Append(hosts, Entry(c.request.host, c.answer))}
           [] c.request \in Removals        -> Without(c.request.host)

(* The subscription of gpuStore: the projections follow the selected host.  *)
Project(h) == shown' = [k \in Kinds |-> BucketOf(h)]

Selects(h) ==
    /\ selected' = h
    /\ IF h # selected THEN Project(h) ELSE UNCHANGED shown

Answered(c) ==
    /\ c.answer # None
    /\ calls' = calls \ {c}
    /\ hosts' \in Applied(c)
    /\ IF c.request \in Removals /\ c.answer = Gone /\ selected = c.request.host
        THEN Selects(Local)
        ELSE UNCHANGED <<selected, shown>>
    /\ RunEnds(c)
    /\ UNCHANGED <<hub, events, connected, hidden, boundVars>>

(* onmessage, host_status: applyStatusEvent.                                *)
EventArrives ==
    /\ events # <<>>
    /\ events' = Tail(events)
    /\ LET e == Head(events)
       IN hosts' = [i \in DOMAIN hosts |->
                       IF hosts[i].id = e.id THEN [hosts[i] EXCEPT !.status = e.status]
                       ELSE hosts[i]]
    /\ UNCHANGED <<hub, calls, connected, selected, pollVars, shown, boundVars>>

(* The selector, or a page whose address names a host.                      *)
SelectHost(h) ==
    /\ h # selected
    /\ Selects(h)
    /\ UNCHANGED <<netVars, hosts, pollVars, boundVars>>

(* gpuStore ingest and setHistory put a new bucket in the place of h's, and  *)
(* show it if h is the one selected by now.                                 *)
Projects_Always(k, h) == TRUE
Projects(k, h) == h = selected

Receives(k, h) ==
    /\ shown' = [shown EXCEPT ![k] =
                   IF Projects(k, h) THEN BucketOf(h)
                   ELSE [of |-> @.of, current |-> @.current /\ @.of # h]]
    /\ UNCHANGED <<netVars, listVars, pollVars, boundVars>>

----------------------------------------------------------------------------
(* The rest of the world.                                                   *)

(* An agent connects, or turns its host online by markSeen without an event; *)
(* the watchdog gives it up.                                                *)
AgentSeen(h) ==
    /\ hub[h].status \in {"pending", "offline"}
    /\ hub' = [hub EXCEPT ![h].status = "online"]
    /\ Announced(h, "online") \/ UNCHANGED events

AgentQuiet(h) ==
    /\ hub[h].status = "online"
    /\ hub' = [hub EXCEPT ![h].status = "offline"]
    /\ Announced(h, "offline")

AgentTurns(h) ==
    /\ h \in Enrolled(hub)
    /\ Changes
    /\ AgentSeen(h) \/ AgentQuiet(h)
    /\ UNCHANGED <<calls, connected, listVars, pollVars, shown, faults>>

(* Another admin enrolls or deletes a host.                                 *)
OtherAdmin(h) ==
    /\ Changes
    /\ \/ /\ hub[h] = None
          /\ hub' = [hub EXCEPT ![h] = NewRow]
       \/ /\ h \in Enrolled(hub)
          /\ hub' = [hub EXCEPT ![h] = Gone]
    /\ UNCHANGED <<calls, events, connected, listVars, pollVars, shown, faults>>

StreamOpens ==
    /\ ~connected
    /\ connected' = TRUE
    /\ UNCHANGED <<hub, calls, events, listVars, pollVars, shown, boundVars>>

StreamDrops ==
    /\ connected
    /\ faults < MaxFaults /\ faults' = faults + 1
    /\ connected' = FALSE
    /\ events' = <<>>
    /\ UNCHANGED <<hub, calls, listVars, pollVars, shown, changes>>

Next ==
    \/ StartPolling \/ StopPolling \/ TimerFires \/ Hide \/ Show
    \/ PageOpens
    \/ \E request \in Edits \cup Creations \cup Removals : AdminCalls(request)
    \/ \E c \in calls : Serve(c) \/ CallFails(c) \/ Answered(c)
    \/ EventArrives
    \/ \E h \in Places : SelectHost(h)
    \/ \E k \in Kinds, h \in Places : Receives(k, h)
    \/ \E h \in Hosts : AgentTurns(h) \/ OtherAdmin(h)
    \/ StreamOpens \/ StreamDrops

HostsStoreSpec == Init /\ [][Next]_vars

(* The poll's timer fires, and what the poll asks is served and answered.    *)
FairSpec ==
    /\ HostsStoreSpec
    /\ WF_vars(TimerFires)
    /\ WF_vars(\E c \in calls : c.request = Poll /\ Serve(c))
    /\ WF_vars(\E c \in calls : c.request = Poll /\ Answered(c))

----------------------------------------------------------------------------
TypeOK ==
    /\ hub \in Tables
    /\ calls \subseteq [request : Requests, answer : Answers]
    /\ events \in Seq([id : Hosts, status : Statuses])
    /\ hosts \in Seq(Entries)
    /\ selected \in Places
    /\ hidden \in BOOLEAN /\ connected \in BOOLEAN
    /\ loop \in [started : BOOLEAN, timer : BOOLEAN, running : BOOLEAN]
    /\ shown \in [Kinds -> [of : Places, current : BOOLEAN]]

(* lib/poll.ts: "a slow hub never gets overlapping requests from the same   *)
(* loop", nothing is polled for a hidden tab, and a visible one always has  *)
(* the next poll coming: however the tab is hidden and shown while a run is *)
(* on, and whether it succeeds.                                             *)
OnePoll ==
    /\ TypeOK
    /\ Cardinality({c \in calls : c.request = Poll}) = IF loop.running THEN 1 ELSE 0
    /\ hidden => ~loop.timer
    /\ loop.started /\ ~hidden => loop.timer # loop.running

(* What the page draws is the selected host's, whichever host a sample, a   *)
(* late history or a deletion is about.                                     *)
ShownIsSelected ==
    \A k \in Kinds : shown[k] = BucketOf(selected)

Matches ==
    /\ Len(hosts) = Cardinality(Enrolled(hub))
    /\ \A h \in Enrolled(hub) : \E i \in DOMAIN hosts : hosts[i] = Entry(h, hub[h])

(* A visible tab catches up with the hub once the hub stops changing,       *)
(* whatever answers came out of order and whatever events were lost.        *)
CatchesUp == <>[](loop.started /\ ~hidden) => <>[]Matches
=============================================================================
