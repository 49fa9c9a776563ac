------------------------------ MODULE HostTokens ------------------------------
(***************************************************************************)
(* The tokens of the agents' hosts: issued by the hub when an              *)
(* administrator enrolls a host or rotates its token                       *)
(* (server/routes/hosts.ts), shown once by the dialog that asked           *)
(* (settings/EnrollHostModal.tsx, RotateTokenModal), installed from there  *)
(* on a machine, and checked when its agent connects                       *)
(* (services/agentIngestWS.ts).  Only the hash is stored, and hashing and  *)
(* comparing yield to other requests.                                      *)
(*                                                                         *)
(* A token is its number in the order they are generated.  A host's row is *)
(* the token its hash is of, and whether it is disabled.                   *)
(***************************************************************************)
EXTENDS Naturals, Sequences

CONSTANTS
    Admins,       \* tabs with the hosts page open
    Ids,          \* randomUUID: ids of hosts, none used twice
    Machines,     \* where an agent may be installed
    MaxTokens,    \* bound: tokens ever generated
    MaxClicks,    \* bound: dialogs opened and switches turned
    MaxDrops      \* bound: connections lost, of tabs and of agents

ASSUME HostTokensConstantsOK ==
    MaxTokens \in Nat \ {0} /\ MaxClicks \in Nat /\ MaxDrops \in Nat

VARIABLES
    rows,     \* hosts: id |-> row
    issued,   \* whose host each token was generated for, in order
    asks,     \* requests of the tabs under way
    dialog,   \* per tab: the dialog that is open, or NoDialog
    holds,    \* per machine: the host and token its agent is installed with, or Nothing
    link,     \* per machine: its agent's socket to the hub
    rivals,   \* history: tokens another rotation of whose host ran after they were asked for
    clicks, drops

hubVars == <<rows, issued, rivals>>
pageVars == <<asks, dialog>>
agentVars == <<holds, link>>
tokenVars == <<hubVars, pageVars, agentVars, clicks, drops>>

Empty == <<>>
NoDialog == Empty
Nothing == Empty

Click == clicks < MaxClicks /\ clicks' = clicks + 1
Drop == drops < MaxDrops /\ drops' = drops + 1

(* Ids in use, or taken by an enrolment that is still hashing.              *)
Used == {issued[k] : k \in DOMAIN issued}
TokensOf(h) == {k \in DOMAIN issued : issued[k] = h}

Closed == [at |-> "closed"]
Checking(hash) == [at |-> "checking", hash |-> hash]
Open == [at |-> "open"]
Connected(h) == {m \in Machines : link[m] = Open /\ holds[m][1] = h}
CutFrom(h) == [m \in Machines |-> IF m \in Connected(h) THEN Closed ELSE link[m]]

-----------------------------------------------------------------------------
(* The page.                                                                *)

(* "Add host", and the buttons of a host's line; the page may still list a  *)
(* host that is gone.                                                       *)
OpenDialog(t, kind, h) ==
    /\ Click
    /\ dialog[t] = NoDialog
    /\ kind = "enroll" <=> h = Empty
    /\ dialog' = [dialog EXCEPT ![t] = [kind |-> kind, host |-> h, n |-> clicks + 1,
                                       busy |-> FALSE, token |-> 0]]
    /\ UNCHANGED <<hubVars, asks, agentVars, drops>>

(* The button of a dialog is disabled until the answer.                     *)
Submit(t) ==
    /\ dialog[t] # NoDialog /\ ~dialog[t].busy /\ dialog[t].token = 0
    /\ dialog' = [dialog EXCEPT ![t].busy = TRUE]
    /\ asks' = asks \cup {[op |-> dialog[t].kind, tab |-> t, n |-> dialog[t].n, heard |-> TRUE,
                          host |-> dialog[t].host, token |-> 0, at |-> "asked"]}
    /\ UNCHANGED <<hubVars, agentVars, clicks, drops>>

(* A dialog closes at any time, and what it asked goes on.                  *)
CloseDialog(t) ==
    /\ dialog[t] # NoDialog
    /\ dialog' = [dialog EXCEPT ![t] = NoDialog]
    /\ UNCHANGED <<hubVars, asks, agentVars, clicks, drops>>

(* The switch of a line sends the opposite of what the page shows.          *)
Toggle(t, h, to) ==
    /\ Click
    /\ asks' = asks \cup {[op |-> to, tab |-> t, n |-> clicks + 1, heard |-> TRUE,
                          host |-> h, token |-> 0, at |-> "asked"]}
    /\ UNCHANGED <<hubVars, dialog, agentVars, drops>>

-----------------------------------------------------------------------------
(* The hub.                                                                 *)

Handled(a) == a \in asks /\ a.at = "asked"
Onward(a, b) == asks' = (asks \ {a}) \cup {b}
Ended(a, at) == Onward(a, [a EXCEPT !.at = at])

HashingFor(h) == {b \in asks : b.at = "hashing" /\ b.host = h}

(* handleEnroll and handleRotate, up to the hash.                           *)
Generate(a, h) ==
    /\ Handled(a) /\ Len(issued) < MaxTokens
    /\ \/ a.op = "enroll" /\ h \notin Used
       \/ a.op = "rotate" /\ h = a.host /\ h \in DOMAIN rows
    /\ issued' = Append(issued, h)
    /\ rivals' = rivals \cup TokensOf(h) \cup IF HashingFor(h) = {} THEN {} ELSE {Len(issued')}
    /\ Onward(a, [a EXCEPT !.host = h, !.token = Len(issued'), !.at = "hashing"])
    /\ UNCHANGED <<rows, dialog, agentVars, clicks, drops>>

Rehashed_Grace(h, token) == IF Connected(h) = {} THEN [rows[h] EXCEPT !.hash = token] ELSE rows[h]

Rehashed(h, token) == [rows[h] EXCEPT !.hash = token]

(* The rest of handleRotate: nothing is written for a host deleted since,    *)
(* and the answer is the same.                                              *)
StoreRotated(a) ==
    /\ a \in asks /\ a.at = "hashing" /\ a.op = "rotate"
    /\ rows' = [h \in DOMAIN rows |-> IF h = a.host THEN Rehashed(h, a.token) ELSE rows[h]]
    /\ Ended(a, "answered")
    /\ UNCHANGED <<issued, rivals, dialog, agentVars, clicks, drops>>

StoreEnrolled(a) ==
    /\ a \in asks /\ a.at = "hashing" /\ a.op = "enroll"
    /\ rows' = [h \in DOMAIN rows \cup {a.host} |->
                  IF h = a.host THEN [hash |-> a.token, disabled |-> FALSE] ELSE rows[h]]
    /\ Ended(a, "answered")
    /\ UNCHANGED <<issued, rivals, dialog, agentVars, clicks, drops>>

(* The agent of a deleted host keeps its socket.                            *)
Delete(a) ==
    /\ Handled(a) /\ a.op = "delete" /\ a.host \in DOMAIN rows
    /\ rows' = [h \in DOMAIN rows \ {a.host} |-> rows[h]]
    /\ Ended(a, "answered")
    /\ UNCHANGED <<issued, rivals, dialog, agentVars, clicks, drops>>

(* PATCH of the status; disabling cuts the agent.                           *)
SetStatus(a) ==
    /\ Handled(a) /\ a.op \in {"disabled", "offline"} /\ a.host \in DOMAIN rows
    /\ rows' = [rows EXCEPT ![a.host].disabled = (a.op = "disabled")]
    /\ link' = IF a.op = "disabled" THEN CutFrom(a.host) ELSE link
    /\ Ended(a, "answered")
    /\ UNCHANGED <<issued, rivals, dialog, holds, clicks, drops>>

NotFound(a) ==
    /\ Handled(a) /\ a.op # "enroll" /\ a.host \notin DOMAIN rows
    /\ Ended(a, "failed")
    /\ UNCHANGED <<hubVars, dialog, agentVars, clicks, drops>>

-----------------------------------------------------------------------------
(* The answers.                                                             *)

IsOf(d, a) == d # NoDialog /\ d.n = a.n

(* doRotate and submit show the token; doDelete closes whatever dialog on a *)
(* deletion is open by then.                                                *)
DialogAfter(d, a) ==
    IF a.at = "failed" THEN IF IsOf(d, a) THEN [d EXCEPT !.busy = FALSE] ELSE d
    ELSE IF a.op = "delete" THEN IF d # NoDialog /\ d.kind = "delete" THEN NoDialog ELSE d
    ELSE IF IsOf(d, a) THEN [d EXCEPT !.busy = FALSE, !.host = a.host, !.token = a.token]
    ELSE d

TokenAnswered(a) ==
    /\ a \in asks /\ a.at \in {"answered", "failed"}
    /\ asks' = asks \ {a}
    /\ dialog' = IF a.heard THEN [dialog EXCEPT ![a.tab] = DialogAfter(@, a)] ELSE dialog
    /\ UNCHANGED <<hubVars, agentVars, clicks, drops>>

(* The connection breaks: the tab shows an error and allows another try,    *)
(* whether or not the hub has the request.                                  *)
ConnectionBreaks(a) ==
    /\ Drop
    /\ a \in asks /\ a.heard
    /\ \/ a.at = "asked" /\ asks' = asks \ {a}
       \/ Onward(a, [a EXCEPT !.heard = FALSE])
    /\ dialog' = [dialog EXCEPT ![a.tab] = IF IsOf(@, a) THEN [@ EXCEPT !.busy = FALSE] ELSE @]
    /\ UNCHANGED <<hubVars, agentVars, clicks>>

-----------------------------------------------------------------------------
(* The machines.                                                            *)

\* buildInstallCommands: the command holds the host's id and the token.
Install(t, m) ==
    /\ dialog[t] # NoDialog /\ dialog[t].token # 0
    /\ holds' = [holds EXCEPT ![m] = <<dialog[t].host, dialog[t].token>>]
    /\ holds' # holds
    /\ link' = [link EXCEPT ![m] = Closed]
    /\ UNCHANGED <<hubVars, pageVars, clicks, drops>>

\* The command DeleteHostModal shows.
Uninstall(t, m) ==
    /\ dialog[t] # NoDialog /\ dialog[t].kind = "delete"
    /\ holds[m] # Nothing
    /\ holds' = [holds EXCEPT ![m] = Nothing]
    /\ link' = [link EXCEPT ![m] = Closed]
    /\ UNCHANGED <<hubVars, pageVars, clicks, drops>>

(* authenticateAgent, up to the comparison: an unknown host or a disabled   *)
(* one is refused at once, and the agent knocks again.                      *)
Knock(m) ==
    /\ link[m] = Closed /\ holds[m] # Nothing
    /\ holds[m][1] \in DOMAIN rows /\ ~rows[holds[m][1]].disabled
    /\ link' = [link EXCEPT ![m] = Checking(rows[holds[m][1]].hash)]
    /\ UNCHANGED <<hubVars, pageVars, holds, clicks, drops>>

(* The comparison, with the hash as it was: the socket takes the place of   *)
(* the host's previous one, or is closed.                                   *)
Compared(m) ==
    /\ link[m].at = "checking"
    /\ link' = IF link[m].hash = holds[m][2]
               THEN [CutFrom(holds[m][1]) EXCEPT ![m] = Open]
               ELSE [link EXCEPT ![m] = Closed]
    /\ UNCHANGED <<hubVars, pageVars, holds, clicks, drops>>

SocketDrops(m) ==
    /\ Drop
    /\ link[m] # Closed
    /\ link' = [link EXCEPT ![m] = Closed]
    /\ UNCHANGED <<hubVars, pageVars, holds, clicks>>

\* One host is enrolled, and installed on a machine or on none.
TokensInit ==
    \E h \in Ids, m \in Machines :
        /\ rows = [i \in {h} |-> [hash |-> 1, disabled |-> FALSE]]
        /\ issued = <<h>> /\ rivals = {}
        /\ asks = {} /\ dialog = [t \in Admins |-> NoDialog]
        /\ holds = [i \in Machines |-> IF i = m THEN <<h, 1>> ELSE Nothing]
        /\ link = [i \in Machines |-> Closed]
        /\ clicks = 0 /\ drops = 0

TokensNext ==
    \/ \E t \in Admins : Submit(t) \/ CloseDialog(t) \/ OpenDialog(t, "enroll", Empty)
    \/ \E t \in Admins, h \in Used :
         \/ \E kind \in {"rotate", "delete"} : OpenDialog(t, kind, h)
         \/ \E to \in {"disabled", "offline"} : Toggle(t, h, to)
    \/ \E a \in asks, h \in Ids : Generate(a, h)
    \/ \E a \in asks : \/ StoreRotated(a) \/ StoreEnrolled(a) \/ Delete(a) \/ SetStatus(a)
                      \/ NotFound(a) \/ TokenAnswered(a) \/ ConnectionBreaks(a)
    \/ \E t \in Admins, m \in Machines : Install(t, m) \/ Uninstall(t, m)
    \/ \E m \in Machines : Knock(m) \/ Compared(m) \/ SocketDrops(m)

TokensSpec == TokensInit /\ [][TokensNext]_tokenVars

-----------------------------------------------------------------------------
(* Properties                                                               *)

Shows(t, kind) == dialog[t] # NoDialog /\ dialog[t].kind = kind /\ dialog[t].token # 0

\* A token a dialog shows is the one the hub opens to, as long as the host
\* exists and no other rotation of its token was asked while this one was under
\* way or since: whatever agents are connected, checked or disabled meanwhile,
\* and whichever answers were lost before.
ShownTokenOpens ==
    \A t \in Admins : Shows(t, "enroll") \/ Shows(t, "rotate") =>
        LET h == dialog[t].host
        IN  h \in DOMAIN rows => rows[h].hash = dialog[t].token \/ dialog[t].token \in rivals

(* What the page says and the code does not do.                             *)

\* "The existing agent will be disconnected and must be reconfigured with the
\* new value.": once the dialog shows the new token, no agent of that host is
\* connected that holds another.
RotationDisconnects ==
    \A t \in Admins, m \in Machines :
        Shows(t, "rotate") /\ m \in Connected(dialog[t].host) /\ dialog[t].token \notin rivals =>
            holds[m][2] = dialog[t].token

=============================================================================
