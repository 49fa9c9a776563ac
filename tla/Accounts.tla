------------------------------ MODULE Accounts ------------------------------
(***************************************************************************)
(* The hub's accounts and sessions: server/services/authService.ts behind  *)
(* server/routes/auth.ts, the users table, the dashboards' live streams    *)
(* (server/services/gpuStreamWS.ts) and what is done to the table from     *)
(* outside the hub (scripts/reset-password.ts).                            *)
(*                                                                         *)
(* A session is a signed token, which the hub does not store: it names an  *)
(* account and the token_version its row had when the token was signed,    *)
(* and is accepted while the row still has that version.  A request reads  *)
(* the row, awaits bcrypt, and goes on with the row it read; between the   *)
(* two any other request runs.                                             *)
(*                                                                         *)
(* Usernames are left out: the UNIQUE constraint of the table keeps them   *)
(* apart, and a request refused over a name, a length or a wrong password  *)
(* ends in Refused.  A request in flight was given the password of the row *)
(* it read.                                                                *)
(***************************************************************************)
EXTENDS Integers

CONSTANTS
    MaxAccounts,  \* bound: accounts ever created
    MaxChanges,   \* bound: password changes of one account
    Passwords,
    Requests,     \* requests that may be in flight together
    Sockets,      \* /ws/gpu connections
    None          \* no row, no token, no request

ASSUME AccountConstantsOK ==
    /\ MaxAccounts \in Nat
    /\ MaxChanges \in Nat

VARIABLES
    users,     \* the users table: of each id its row, or None
    created,   \* the table's AUTOINCREMENT: ids handed out so far
    tokens,    \* sessions handed out and not expired
    request,   \* of each request in flight what it holds across its await
    stream,    \* of each socket the token it was opened with
    lapsed     \* open sockets whose token is past its 7 days

vars == <<users, created, tokens, request, stream, lapsed>>
streams == <<stream, lapsed>>

Ids == 1 .. MaxAccounts
Roles == {"admin", "user"}
Versions == 0 .. MaxChanges

Rows == [password : Passwords, ver : Versions, role : Roles]

(* "proved" is history: the password whose knowledge earned the token.     *)
Tokens == [id : Ids, ver : Versions, proved : Passwords]

(* What a request keeps of the row it read, and for a registration what    *)
(* the route decided about its caller.                                     *)
Pending ==
    [kind : {"register"}, admin : BOOLEAN, new : Passwords]
      \cup [kind : {"login", "rename"}, id : Ids, seen : Rows]
      \cup [kind : {"check", "hash"}, id : Ids, seen : Rows, new : Passwords]

TypeOK ==
    /\ users \in [Ids -> Rows \cup {None}]
    /\ created \in 0 .. MaxAccounts
    /\ tokens \in SUBSET Tokens
    /\ request \in [Requests -> Pending \cup {None}]
    /\ stream \in [Sockets -> Tokens \cup {None}]
    /\ lapsed \in SUBSET Sockets

Init ==
    /\ users = [i \in Ids |-> None]
    /\ created = 0
    /\ tokens = {}
    /\ request = [r \in Requests |-> None]
    /\ stream = [s \in Sockets |-> None]
    /\ lapsed = {}

----------------------------------------------------------------------------
(* verifyToken, authService.ts:37-67.                                      *)
AcceptedIn(table, t) == table[t.id] # None /\ table[t.id].ver = t.ver
Accepted(t) == AcceptedIn(users, t)

SignToken(i, row, proved) == [id |-> i, ver |-> row.ver, proved |-> proved]

NoUsers == \A i \in Ids : users[i] = None

(* canRegister, authService.ts:179-181.                                    *)
CanRegister(callerIsAdmin) == NoUsers \/ callerIsAdmin

Start(r, pending) ==
    /\ request[r] = None
    /\ request' = [request EXCEPT ![r] = pending]

End(r) == request' = [request EXCEPT ![r] = None]

(* Any check that fails ends a request: a wrong password, a name taken or  *)
(* too short, the new password equal to the current one.                   *)
Refused(r) ==
    /\ request[r] # None
    /\ End(r)
    /\ UNCHANGED <<users, created, tokens, streams>>

----------------------------------------------------------------------------
(* POST /register up to the hash: whether the caller is an admin is        *)
(* decided here, once.                                                     *)
CallerIsAdmin(t) == t # None /\ Accepted(t) /\ users[t.id].role = "admin"

Register(r, t, p) ==
    /\ CanRegister(CallerIsAdmin(t))
    /\ Start(r, [kind |-> "register", admin |-> CallerIsAdmin(t), new |-> p])
    /\ UNCHANGED <<users, created, tokens, streams>>

(* The route's check again, on the table as it is now.                     *)
StillOpen(r) == CanRegister(request[r].admin)

RoleGiven(callerIsAdmin) == IF NoUsers THEN "admin" ELSE "user"

NextId == created + 1

(* doRegisterLocked: it runs without an await, so one at a time.           *)
Registered(r) ==
    /\ request[r] # None /\ request[r].kind = "register"
    /\ StillOpen(r)
    /\ NextId \in Ids
    /\ LET row == [password |-> request[r].new, ver |-> 0,
                   role |-> RoleGiven(request[r].admin)]
       IN  /\ users' = [users EXCEPT ![NextId] = row]
           /\ tokens' = tokens \cup {SignToken(NextId, row, request[r].new)}
    /\ created' = NextId
    /\ End(r)
    /\ UNCHANGED streams

(* POST /login, and POST /username once requireAuth has passed: the row is *)
(* read before the await and signed after it.                              *)
Login(r, i) ==
    /\ users[i] # None
    /\ Start(r, [kind |-> "login", id |-> i, seen |-> users[i]])
    /\ UNCHANGED <<users, created, tokens, streams>>

Rename(r, t) ==
    /\ Accepted(t)
    /\ Start(r, [kind |-> "rename", id |-> t.id, seen |-> users[t.id]])
    /\ UNCHANGED <<users, created, tokens, streams>>

RowSigned_ReadAgain(r) ==
    IF users[request[r].id] = None THEN request[r].seen ELSE users[request[r].id]

(* The row a login or a rename signs: the one it read before the await.    *)
RowSigned(r) == request[r].seen

SignedIn(r) ==
    /\ request[r] # None /\ request[r].kind \in {"login", "rename"}
    /\ tokens' = tokens \cup
         {SignToken(request[r].id, RowSigned(r), request[r].seen.password)}
    /\ End(r)
    /\ UNCHANGED <<users, created, streams>>

----------------------------------------------------------------------------
(* POST /password: two awaits, one on the check of the current password,   *)
(* one on the hash of the new one; then the row's version moves on         *)
(* (updatePassword), the account's streams re-check theirs ('revoked'),    *)
(* and the caller gets a token of the row read again.                      *)
ChangePassword(r, t, p) ==
    /\ Accepted(t)
    /\ Start(r, [kind |-> "check", id |-> t.id, seen |-> users[t.id], new |-> p])
    /\ UNCHANGED <<users, created, tokens, streams>>

PasswordChecked(r) ==
    /\ request[r] # None /\ request[r].kind = "check"
    /\ request[r].new # request[r].seen.password
    /\ request' = [request EXCEPT ![r].kind = "hash"]
    /\ UNCHANGED <<users, created, tokens, streams>>

VersionAfter(row, seen) == row.ver + 1

Updated(row, p, seen) ==
    [row EXCEPT !.password = p, !.ver = VersionAfter(row, seen)]

(* verifyToken as a stream's re-check asks it.                             *)
StillGood(table, s) == AcceptedIn(table, stream[s]) /\ s \notin lapsed

Revoked_Early(i) ==
    {s \in Sockets : stream[s] # None /\ stream[s].id = i /\ ~StillGood(users, s)}

(* closeIfRevoked over the sockets of account i: verifyToken reads the     *)
(* table as updatePassword left it.                                        *)
Revoked(i) ==
    {s \in Sockets : /\ stream[s] # None /\ stream[s].id = i
                     /\ ~StillGood(users', s)}

Close(closing) ==
    /\ stream' = [s \in Sockets |-> IF s \in closing THEN None ELSE stream[s]]
    /\ lapsed' = lapsed \ closing

PasswordChanged(r) ==
    /\ request[r] # None /\ request[r].kind = "hash"
    /\ LET i == request[r].id IN
       /\ users[i] # None /\ users[i].ver < MaxChanges
       /\ users' = [users EXCEPT ![i] = Updated(@, request[r].new, request[r].seen)]
       /\ tokens' = tokens \cup {SignToken(i, users'[i], request[r].new)}
       /\ Close(Revoked(i))
    /\ End(r)
    /\ UNCHANGED created

(* The same on an account deleted meanwhile: the UPDATE finds no row and   *)
(* the token cannot be signed, but the event is out.                       *)
PasswordChangeLost(r) ==
    /\ request[r] # None /\ request[r].kind = "hash"
    /\ users[request[r].id] = None
    /\ UNCHANGED <<users, created, tokens>>
    /\ Close(Revoked(request[r].id))
    /\ End(r)

(* scripts/reset-password.ts and any other writer of the database file:    *)
(* no event reaches the hub.                                               *)
ResetPassword(i, p) ==
    /\ users[i] # None /\ users[i].ver < MaxChanges
    /\ users' = [users EXCEPT ![i] = Updated(@, p, @)]
    /\ UNCHANGED <<created, tokens, request, streams>>

DeleteAccount(i) ==
    /\ users[i] # None
    /\ users' = [users EXCEPT ![i] = None]
    /\ UNCHANGED <<created, tokens, request, streams>>

----------------------------------------------------------------------------
(* /ws/gpu: the token is checked when the socket opens, on 'revoked' and   *)
(* every minute.                                                           *)
OpenStream(s, t) ==
    /\ stream[s] = None
    /\ Accepted(t)
    /\ stream' = [stream EXCEPT ![s] = t]
    /\ UNCHANGED <<users, created, tokens, request, lapsed>>

CloseStream(s) ==
    /\ stream[s] # None
    /\ Close({s})
    /\ UNCHANGED <<users, created, tokens, request>>

Recheck(s) ==
    /\ stream[s] # None /\ ~StillGood(users, s)
    /\ Close({s})
    /\ UNCHANGED <<users, created, tokens, request>>

Expire(t) ==
    /\ tokens' = tokens \ {t}
    /\ lapsed' = lapsed \cup {s \in Sockets : stream[s] = t}
    /\ UNCHANGED <<users, created, request, stream>>

HubRestart ==
    /\ request' = [r \in Requests |-> None]
    /\ Close(Sockets)
    /\ UNCHANGED <<users, created, tokens>>

Request(r) ==
    \/ \E t \in tokens \cup {None}, p \in Passwords : Register(r, t, p)
    \/ Registered(r)
    \/ \E i \in Ids : Login(r, i)
    \/ \E t \in tokens : Rename(r, t)
    \/ SignedIn(r)
    \/ \E t \in tokens, p \in Passwords : ChangePassword(r, t, p)
    \/ PasswordChecked(r)
    \/ PasswordChanged(r)
    \/ PasswordChangeLost(r)
    \/ Refused(r)

Next ==
    \/ \E r \in Requests : Request(r)
    \/ \E i \in Ids, p \in Passwords : ResetPassword(i, p)
    \/ \E i \in Ids : DeleteAccount(i)
    \/ \E s \in Sockets, t \in tokens : OpenStream(s, t)
    \/ \E s \in Sockets : CloseStream(s) \/ Recheck(s)
    \/ \E t \in tokens : Expire(t)
    \/ HubRestart

Spec == Init /\ [][Next]_vars

----------------------------------------------------------------------------
(* A session that is accepted was earned with the password the account has *)
(* now: whatever a login or a rename read before its await, a password     *)
(* change signs out every session of the password before it.               *)
AcceptedIsProved ==
    \A t \in tokens : Accepted(t) => t.proved = users[t.id].password

(* A session the hub refuses is never accepted again, although the hub     *)
(* keeps no list of them: versions only grow and ids are not reused.       *)
RefusedForGood ==
    [][\A t \in tokens : ~Accepted(t) => ~Accepted(t)']_vars

(* Accounts are created by an admin's request, or one at a time while the  *)
(* table is empty, and only then as an admin: of two first registrations   *)
(* that both passed the route's check, one wins.                           *)
RegistrationCloses ==
    [][\A i \in Ids : users[i] = None /\ users'[i] # None =>
          \/ NoUsers /\ users'[i].role = "admin"
          \/ /\ users'[i].role = "user"
             /\ \E r \in Requests : request[r] # None
                  /\ request[r].kind = "register" /\ request[r].admin]_vars

(* Registrations never make two admins, racing first ones included.        *)
OneAdmin ==
    \A i, j \in Ids :
       users[i] # None /\ users[j] # None
         /\ users[i].role = "admin" /\ users[j].role = "admin" => i = j

(* A password change through the hub leaves the account no stream of a     *)
(* session it signed out, in the same step.                                *)
ChangeCutsStreams ==
    [][\A r \in Requests : PasswordChanged(r) =>
          \A s \in Sockets :
             stream'[s] # None /\ stream'[s].id = request[r].id
               => Accepted(stream[s])']_vars

(* Sessions end with the password they were opened with, for good, and the *)
(* accounts behind them are made by an admin or as the first.              *)
SessionsFollowAccounts == ChangeCutsStreams /\ RefusedForGood /\ RegistrationCloses

----------------------------------------------------------------------------
(* A statement of a comment that the code does not keep.                   *)

(* What authService.ts:110 says of a password change, "the current         *)
(* password must match": the password it replaces is the one that was      *)
(* checked.                                                                *)
CurrentPasswordMatched ==
    [][\A r \in Requests : PasswordChanged(r) =>
          users[request[r].id].password = request[r].seen.password]_vars
=============================================================================
