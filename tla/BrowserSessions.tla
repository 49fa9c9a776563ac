--------------------------- MODULE BrowserSessions ---------------------------
(***************************************************************************)
(* The tabs of one browser signed in to the hub under one account: the     *)
(* live stream of src/lib/useGpuStream.ts, the API client's answer to a    *)
(* 401 (src/lib/api.ts), the session kept in localStorage, which the tabs  *)
(* share, and in each tab's own store (src/store/authStore.ts).            *)
(*                                                                         *)
(* A token stands for the version of the account it was signed with; the   *)
(* hub accepts the current one (module Accounts).  Every request a page    *)
(* makes on a timer is a Poll.  An answer is applied some time after the   *)
(* hub gave it.                                                            *)
(***************************************************************************)
EXTENDS Integers

CONSTANTS
    Tabs,
    MaxChanges,   \* bound: password changes
    CanHide,      \* may a tab be in the background
    None          \* no token

ASSUME BrowserConstantsOK ==
    /\ MaxChanges \in Nat
    /\ CanHide \in BOOLEAN

VARIABLES
    ver,      \* hub: the account's token_version
    saved,    \* localStorage: the token api() sends
    held,     \* of each tab the store's token; None is the login page
    stream,   \* of each tab what its live stream is doing
    denied,   \* tabs a 401 of a poll is on its way to
    change,   \* of each tab the token in the answer to its password change
    hidden    \* tabs in the background

vars == <<ver, saved, held, stream, denied, change, hidden>>

Versions == 0 .. MaxChanges

TypeOK ==
    /\ ver \in Versions
    /\ saved \in Versions \cup {None}
    /\ held \in [Tabs -> Versions \cup {None}]
    /\ stream \in [Tabs -> {"off", "connecting", "open", "retry", "refused", "asking"}]
    /\ denied \in SUBSET Tabs
    /\ change \in [Tabs -> Versions \cup {None}]
    /\ hidden \in SUBSET Tabs

(* Every tab signed in with the account as it is.                          *)
Init ==
    /\ ver = 0
    /\ saved = 0
    /\ held = [t \in Tabs |-> 0]
    /\ stream = [t \in Tabs |-> "connecting"]
    /\ denied = {}
    /\ change = [t \in Tabs |-> None]
    /\ hidden = {}

----------------------------------------------------------------------------
(* The stream of a tab, and nothing else, moves on.                        *)
Turns(t, from, to) ==
    /\ stream[t] = from
    /\ stream' = [stream EXCEPT ![t] = to]
    /\ UNCHANGED <<ver, saved, held, denied, change, hidden>>

(* connect() opens a socket with the store's token.  The hub closes 4001   *)
(* a token it refuses, at once or at its next re-check.                    *)
Connected(t) == held[t] = ver /\ Turns(t, "connecting", "open")
ClosedRefused(t) ==
    /\ held[t] # ver
    /\ Turns(t, "connecting", "refused") \/ Turns(t, "open", "refused")

(* Any other close, or a hub out of reach: again after the back-off.       *)
Dropped(t) == Turns(t, "open", "retry") \/ Turns(t, "connecting", "retry")
RetryFires(t) == Turns(t, "retry", "connecting")

(* onTokenRefused, a second later: a token that is not the saved one ends  *)
(* it; otherwise /auth/me is asked, its answer ignored, and connect() runs *)
(* again.  A 401 on a path under /auth/ is left alone by api().            *)
StillMine_Always(t) == TRUE
StillMine(t) == saved = held[t]

AsksMe(t) == StillMine(t) /\ Turns(t, "refused", "asking")
GivesUp(t) == ~StillMine(t) /\ Turns(t, "refused", "off")
MeAnswered(t) == Turns(t, "asking", "connecting")

----------------------------------------------------------------------------
(* The hub answers a poll of a visible tab.                                *)
PollDenied(t) ==
    /\ held[t] # None /\ t \notin hidden /\ t \notin denied
    /\ saved # ver
    /\ denied' = denied \cup {t}
    /\ UNCHANGED <<ver, saved, held, stream, change, hidden>>

(* The page is loaded anew on /login: its timers and requests are gone.    *)
ToLogin(t) ==
    /\ saved' = None
    /\ held' = [held EXCEPT ![t] = None]
    /\ stream' = [stream EXCEPT ![t] = "off"]
    /\ denied' = denied \ {t}
    /\ change' = [change EXCEPT ![t] = None]

(* handleUnauthorized: nothing to do for a tab without a saved token.      *)
Redirects == saved # None

Unauthorized(t) ==
    /\ t \in denied
    /\ IF Redirects THEN ToLogin(t)
       ELSE /\ denied' = denied \ {t}
            /\ UNCHANGED <<saved, held, stream, change>>
    /\ UNCHANGED <<ver, hidden>>

SaveSession_NoRestart(t, token) ==
    /\ saved' = token
    /\ held' = [held EXCEPT ![t] = token]
    /\ UNCHANGED stream

(* A new token in the store starts the effect over: its cleanup ends the   *)
(* socket and the timer of the old one.                                    *)
SaveSession(t, token) ==
    /\ saved' = token
    /\ held' = [held EXCEPT ![t] = token]
    /\ stream' = [stream EXCEPT ![t] =
                    IF held[t] # token THEN "connecting" ELSE @]

(* The hub changes the password for a tab; the answer is on its way.       *)
ChangePassword(t) ==
    /\ held[t] # None /\ t \notin hidden /\ change[t] = None
    /\ saved = ver /\ ver < MaxChanges
    /\ ver' = ver + 1
    /\ change' = [change EXCEPT ![t] = ver + 1]
    /\ UNCHANGED <<saved, held, stream, denied, hidden>>

ChangeAnswered(t) ==
    /\ change[t] # None
    /\ SaveSession(t, change[t])
    /\ change' = [change EXCEPT ![t] = None]
    /\ UNCHANGED <<ver, denied, hidden>>

(* A password change made elsewhere: another browser, the reset script.    *)
ChangedElsewhere ==
    /\ ver < MaxChanges
    /\ ver' = ver + 1
    /\ UNCHANGED <<saved, held, stream, denied, change, hidden>>

Login(t) ==
    /\ held[t] = None
    /\ SaveSession(t, ver)
    /\ UNCHANGED <<ver, denied, change, hidden>>

Logout(t) ==
    /\ held[t] # None
    /\ saved' = None
    /\ held' = [held EXCEPT ![t] = None]
    /\ stream' = [stream EXCEPT ![t] = "off"]
    /\ UNCHANGED <<ver, denied, change, hidden>>

Hide(t) ==
    /\ CanHide
    /\ hidden' = IF t \in hidden THEN hidden \ {t} ELSE hidden \cup {t}
    /\ UNCHANGED <<ver, saved, held, stream, denied, change>>

(* The timers of the stream and the answers they wait for.                 *)
Continues(t) == RetryFires(t) \/ AsksMe(t) \/ GivesUp(t) \/ MeAnswered(t)

Next ==
    \/ \E t \in Tabs :
         \/ Connected(t) \/ ClosedRefused(t) \/ Dropped(t) \/ Continues(t)
         \/ PollDenied(t) \/ Unauthorized(t)
         \/ ChangePassword(t) \/ ChangeAnswered(t)
         \/ Login(t) \/ Logout(t) \/ Hide(t)
    \/ ChangedElsewhere

Spec == Init /\ [][Next]_vars

(* Timers fire, answers arrive, a poll runs every few seconds and at once  *)
(* when the tab is shown again, and a hub tried again and again is reached *)
(* in the end.                                                             *)
FairSpec ==
    /\ Spec
    /\ \A t \in Tabs : /\ SF_vars(Connected(t))
                       /\ SF_vars(ClosedRefused(t))
                       /\ WF_vars(Continues(t))
                       /\ SF_vars(PollDenied(t))
                       /\ WF_vars(Unauthorized(t))
                       /\ WF_vars(ChangeAnswered(t))

----------------------------------------------------------------------------
(* A tab in front whose session was revoked does not stay as it is: it goes *)
(* to the login page or comes by the new token (CHANGELOG.md:88, "The       *)
(* revoked tab then goes to the login page instead of retrying in a loop."). *)
(* Unless another tab has replaced the saved token or taken it away: its    *)
(* polls then go out with that one, or their 401 is left alone, and its     *)
(* stream has given up.                                                     *)
RevokedTabLeaves ==
    \A t \in Tabs :
       <>[](t \notin hidden) =>
         (held[t] \notin {None, ver} ~> held[t] \in {None, ver} \/ saved # held[t])

(* A tab that keeps a good session has its live stream again and again,    *)
(* whatever refusals and drops came before.                                *)
StreamComesBack ==
    \A t \in Tabs : <>[](held[t] = ver) => []<>(stream[t] = "open")

(* After the last change the hub's refusals come to an end: no tab in front *)
(* goes on presenting a token that is never accepted again.                 *)
NoRefusalLoop ==
    \A t \in Tabs :
       <>[](t \notin hidden) => <>[](stream[t] \notin {"refused", "asking"})

(* What a password change leaves behind comes to rest.                      *)
RevokedTabGoes == RevokedTabLeaves /\ NoRefusalLoop

----------------------------------------------------------------------------
(* A statement of the changelog that the code does not keep.               *)

(* A page is sent to /login only when its session is no longer good        *)
(* (CHANGELOG.md:88, "The tab that made the change stays signed in.").     *)
SentAwayOnlyIfRevoked ==
    [][\A t \in Tabs :
          Unauthorized(t) /\ held'[t] = None => held[t] # ver]_vars
=============================================================================
