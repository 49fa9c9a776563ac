--------------------------- MODULE Database_proofs ---------------------------
(***************************************************************************)
(* Proofs about Accounts, for any number of accounts, password changes,    *)
(* requests and sockets, and about MetricsStore over SchemaMigration, for  *)
(* any hosts, cards, rows, crashes and power cuts.                         *)
(*                                                                         *)
(* What carries the first is that everything that outlives a step (a       *)
(* token, the row a request has read) is a snapshot of an account's past:  *)
(* its version is not above the row's, and at the same version the         *)
(* password is the same.  What carries the second is StoreInv: wherever a  *)
(* boot is, what the statements before it have done holds (Progress), a    *)
(* table without host_id holds cards of the hub's own machine only, and    *)
(* every row has its device, in the database and in the one a power cut    *)
(* would leave.                                                            *)
(***************************************************************************)
EXTENDS Accounts, MetricsStore, TLAPS

Snapshot(i, ver, password) ==
    /\ i <= created
    /\ users[i] # None =>
         /\ ver <= users[i].ver
         /\ ver = users[i].ver => password = users[i].password

RowsCreated == \A i \in Ids : users[i] # None => i <= created

TokensArePast == \A t \in tokens : Snapshot(t.id, t.ver, t.proved)

Reads(r) == request[r] # None /\ request[r].kind # "register"

RequestsReadPast ==
    \A r \in Requests : Reads(r) =>
        Snapshot(request[r].id, request[r].seen.ver, request[r].seen.password)

IInv == TypeOK /\ RowsCreated /\ TokensArePast /\ RequestsReadPast

-----------------------------------------------------------------------------
(* What a request that has read a row holds.                               *)
LEMMA PendingShape ==
    ASSUME NEW q \in Pending
    PROVE  /\ q.kind = "register" => q.admin \in BOOLEAN /\ q.new \in Passwords
           /\ q.kind # "register" => q.id \in Ids /\ q.seen \in Rows
           /\ q.kind \in {"check", "hash"} =>
                q.new \in Passwords
                /\ q = [kind |-> q.kind, id |-> q.id, seen |-> q.seen, new |-> q.new]
  BY DEF Pending

(* A signed token is one.                                                  *)
LEMMA SignedIsToken ==
    ASSUME NEW i \in Ids, NEW row \in Rows, NEW p \in Passwords
    PROVE  /\ SignToken(i, row, p) \in Tokens
           /\ SignToken(i, row, p).id = i
           /\ SignToken(i, row, p).ver = row.ver
           /\ SignToken(i, row, p).proved = p
  BY DEF SignToken, Tokens, Rows

(* The row after a change of its password, within the bound.               *)
LEMMA UpdatedRow ==
    ASSUME NEW row \in Rows, NEW p \in Passwords, NEW seen,
           row.ver < MaxChanges
    PROVE  /\ Updated(row, p, seen) \in Rows
           /\ Updated(row, p, seen).ver = row.ver + 1
           /\ Updated(row, p, seen).password = p
           /\ Updated(row, p, seen).role = row.role
<1>1. row.ver + 1 \in Versions
  BY AccountConstantsOK DEF Rows, Versions
<1>2. Updated(row, p, seen) = [row EXCEPT !.password = p, !.ver = row.ver + 1]
  BY DEF Updated, VersionAfter
<1> QED
  BY <1>1, <1>2 DEF Rows

(* Closing sockets keeps the streams typed.                                *)
LEMMA CloseTyped ==
    ASSUME NEW closing, Close(closing),
           stream \in [Sockets -> Tokens \cup {None}], lapsed \in SUBSET Sockets
    PROVE  /\ stream' \in [Sockets -> Tokens \cup {None}]
           /\ lapsed' \in SUBSET Sockets
  BY DEF Close

LEMMA Initially == Init => IInv
  BY AccountConstantsOK
  DEF Init, IInv, TypeOK, RowsCreated, TokensArePast, RequestsReadPast, Reads, Ids

-----------------------------------------------------------------------------
(* A step that only starts or ends requests, and at most reads a row.      *)
LEMMA RequestStep ==
    ASSUME IInv, NEW r \in Requests, NEW q \in Pending \cup {None},
           request' = [request EXCEPT ![r] = q],
           q # None /\ q.kind # "register" =>
             Snapshot(q.id, q.seen.ver, q.seen.password),
           UNCHANGED <<users, created, tokens, streams>>
    PROVE  IInv'
<1>1. TypeOK'
  BY DEF IInv, TypeOK, streams
<1>2. ASSUME NEW x \in Requests, Reads(x)'
      PROVE  Snapshot(request[x].id, request[x].seen.ver, request[x].seen.password)'
  <2>1. CASE x = r
    BY <1>2, <2>1 DEF IInv, TypeOK, Reads, Snapshot
  <2>2. CASE x # r
    BY <1>2, <2>2 DEF IInv, TypeOK, RequestsReadPast, Reads, Snapshot
  <2> QED BY <2>1, <2>2
<1> QED
  BY <1>1, <1>2 DEF IInv, RowsCreated, TokensArePast, RequestsReadPast, Snapshot

(* A row as it is now is a snapshot of itself.                             *)
LEMMA NowIsPast ==
    ASSUME IInv, NEW i \in Ids, users[i] # None
    PROVE  /\ users[i] \in Rows
           /\ Snapshot(i, users[i].ver, users[i].password)
  BY DEF IInv, TypeOK, RowsCreated, Snapshot, Rows, Versions

(* A step that changes the password of one account, through the hub or     *)
(* past it: every snapshot of it is now strictly older.                    *)
LEMMA PasswordStep ==
    ASSUME IInv, NEW i \in Ids, NEW p \in Passwords, NEW seen,
           users[i] # None, users[i].ver < MaxChanges,
           users' = [users EXCEPT ![i] = Updated(@, p, seen)],
           created' = created
    PROVE  /\ users' \in [Ids -> Rows \cup {None}]
           /\ RowsCreated'
           /\ \A j \in Ids, v \in Versions, w \in Passwords :
                Snapshot(j, v, w) => Snapshot(j, v, w)'
           /\ (Snapshot(i, users[i].ver, p))'
<1>1. users[i] \in Rows /\ i <= created
  BY NowIsPast DEF Snapshot
<1>2. /\ users'[i] \in Rows /\ users'[i].ver = users[i].ver + 1
      /\ users'[i].password = p
  BY <1>1, UpdatedRow DEF IInv, TypeOK
<1>3. \A j \in Ids : j # i => users'[j] = users[j]
  BY DEF IInv, TypeOK
<1>4. users' \in [Ids -> Rows \cup {None}]
  BY <1>1, <1>2, UpdatedRow DEF IInv, TypeOK
<1>5. RowsCreated'
  BY <1>1, <1>3 DEF IInv, RowsCreated
<1>6. ASSUME NEW j \in Ids, NEW v \in Versions, NEW w \in Passwords, Snapshot(j, v, w)
      PROVE  Snapshot(j, v, w)'
  <2>1. CASE j = i
    <3>1. v <= users[i].ver /\ users[i].ver \in Int /\ v \in Int
      BY <1>1, <1>6, <2>1 DEF Snapshot, Rows, Versions
    <3> QED BY <1>1, <1>2, <2>1, <3>1 DEF Snapshot
  <2>2. CASE j # i
    BY <1>3, <1>6, <2>2 DEF Snapshot
  <2> QED BY <2>1, <2>2
<1>7. (Snapshot(i, users[i].ver, p))'
  <2>1. users'[i].ver <= users'[i].ver
    BY <1>2, AccountConstantsOK DEF Rows, Versions
  <2> QED BY <1>1, <1>2, <2>1 DEF Snapshot
<1> QED
  BY <1>4, <1>5, <1>6, <1>7

(* Snapshots of every row untouched: the invariants on them hold on.       *)
LEMMA SnapshotsKept ==
    ASSUME IInv, NEW kept, kept \in SUBSET Tokens,
           tokens' \subseteq tokens \cup kept,
           \A t \in kept : Snapshot(t.id, t.ver, t.proved)',
           \A r \in Requests : request'[r] = request[r] \/ request'[r] = None,
           \A j \in Ids, v \in Versions, w \in Passwords :
             Snapshot(j, v, w) => Snapshot(j, v, w)'
    PROVE  TokensArePast' /\ RequestsReadPast'
<1>1. ASSUME NEW t \in tokens' PROVE Snapshot(t.id, t.ver, t.proved)'
  <2>1. CASE t \in kept
    BY <2>1
  <2>2. CASE t \in tokens
    <3>1. t.id \in Ids /\ t.ver \in Versions /\ t.proved \in Passwords
      BY <2>2 DEF IInv, TypeOK, Tokens
    <3> QED BY <2>2, <3>1 DEF IInv, TokensArePast
  <2> QED BY <2>1, <2>2
<1>2. ASSUME NEW r \in Requests, Reads(r)'
      PROVE  Snapshot(request[r].id, request[r].seen.ver, request[r].seen.password)'
  <2>1. request'[r] = request[r] /\ Reads(r)
    BY <1>2 DEF Reads
  <2>2. request[r].id \in Ids /\ request[r].seen \in Rows
    BY <2>1, PendingShape DEF Reads, IInv, TypeOK
  <2>3. request[r].seen.ver \in Versions /\ request[r].seen.password \in Passwords
    BY <2>2 DEF Rows
  <2>4. Snapshot(request[r].id, request[r].seen.ver, request[r].seen.password)
    BY <2>1 DEF IInv, RequestsReadPast
  <2> QED BY <2>1, <2>2, <2>3, <2>4 DEF Snapshot
<1> QED
  BY <1>1, <1>2 DEF TokensArePast, RequestsReadPast

-----------------------------------------------------------------------------
(* One lemma for each group of actions.                                    *)
LEMMA ReadsStep ==
    ASSUME IInv, NEW r \in Requests,
           \/ Refused(r)
           \/ \E t \in tokens \cup {None}, p \in Passwords : Register(r, t, p)
           \/ \E i \in Ids : Login(r, i)
           \/ \E t \in tokens : Rename(r, t)
           \/ \E t \in tokens, p \in Passwords : ChangePassword(r, t, p)
           \/ PasswordChecked(r)
    PROVE  IInv'
<1>1. CASE Refused(r)
  BY <1>1, RequestStep DEF Refused, End
<1>2. ASSUME NEW t \in tokens \cup {None}, NEW p \in Passwords, Register(r, t, p)
      PROVE  IInv'
  <2>1. CallerIsAdmin(t) \in BOOLEAN
    BY DEF CallerIsAdmin
  <2> DEFINE q == [kind |-> "register", admin |-> CallerIsAdmin(t), new |-> p]
  <2>2. q \in Pending /\ q.kind = "register"
    BY <2>1 DEF Pending
  <2>3. request' = [request EXCEPT ![r] = q]
        /\ UNCHANGED <<users, created, tokens, streams>>
    BY <1>2 DEF Register, Start
  <2> HIDE DEF q
  <2> QED BY <2>2, <2>3, RequestStep
<1>3. ASSUME NEW i \in Ids, Login(r, i) PROVE IInv'
  <2> DEFINE q == [kind |-> "login", id |-> i, seen |-> users[i]]
  <2>1. users[i] # None /\ request' = [request EXCEPT ![r] = q]
        /\ UNCHANGED <<users, created, tokens, streams>>
    BY <1>3 DEF Login, Start
  <2>2. users[i] \in Rows /\ Snapshot(i, users[i].ver, users[i].password)
    BY <2>1, NowIsPast
  <2>3. q \in Pending
    BY <2>2 DEF Pending
  <2>4. Snapshot(q.id, q.seen.ver, q.seen.password)
    BY <2>2
  <2> HIDE DEF q
  <2> QED BY <2>1, <2>3, <2>4, RequestStep
<1>4. ASSUME NEW t \in tokens, Rename(r, t) PROVE IInv'
  <2> DEFINE q == [kind |-> "rename", id |-> t.id, seen |-> users[t.id]]
  <2>1. users[t.id] # None /\ request' = [request EXCEPT ![r] = q]
        /\ UNCHANGED <<users, created, tokens, streams>>
    BY <1>4 DEF Rename, Start, Accepted, AcceptedIn
  <2>2. t.id \in Ids
    BY DEF IInv, TypeOK, Tokens
  <2>3. users[t.id] \in Rows
        /\ Snapshot(t.id, users[t.id].ver, users[t.id].password)
    BY <2>1, <2>2, NowIsPast
  <2>4. q \in Pending
    BY <2>2, <2>3 DEF Pending
  <2>5. Snapshot(q.id, q.seen.ver, q.seen.password)
    BY <2>3
  <2> HIDE DEF q
  <2> QED BY <2>1, <2>4, <2>5, RequestStep
<1>5. ASSUME NEW t \in tokens, NEW p \in Passwords, ChangePassword(r, t, p)
      PROVE  IInv'
  <2> DEFINE q == [kind |-> "check", id |-> t.id, seen |-> users[t.id], new |-> p]
  <2>1. users[t.id] # None /\ request' = [request EXCEPT ![r] = q]
        /\ UNCHANGED <<users, created, tokens, streams>>
    BY <1>5 DEF ChangePassword, Start, Accepted, AcceptedIn
  <2>2. t.id \in Ids
    BY DEF IInv, TypeOK, Tokens
  <2>3. users[t.id] \in Rows
        /\ Snapshot(t.id, users[t.id].ver, users[t.id].password)
    BY <2>1, <2>2, NowIsPast
  <2>4. q \in Pending
    BY <2>2, <2>3 DEF Pending
  <2>5. Snapshot(q.id, q.seen.ver, q.seen.password)
    BY <2>3
  <2> HIDE DEF q
  <2> QED BY <2>1, <2>4, <2>5, RequestStep
<1>6. CASE PasswordChecked(r)
  <2>1. /\ request[r] \in Pending /\ request[r].kind = "check"
        /\ request' = [request EXCEPT ![r].kind = "hash"]
        /\ UNCHANGED <<users, created, tokens, streams>>
    BY <1>6 DEF PasswordChecked, IInv, TypeOK
  <2> DEFINE q == [kind |-> "hash", id |-> request[r].id,
                   seen |-> request[r].seen, new |-> request[r].new]
  <2>2. q \in Pending
    BY <2>1, PendingShape DEF Pending
  <2>3. [request[r] EXCEPT !.kind = "hash"] = q
    BY <2>1, PendingShape
  <2>4. request' = [request EXCEPT ![r] = q]
    BY <2>1, <2>3
  <2>5. Snapshot(q.id, q.seen.ver, q.seen.password)
    BY <2>1, <1>6 DEF IInv, RequestsReadPast, Reads, PasswordChecked
  <2> HIDE DEF q
  <2> QED BY <2>1, <2>2, <2>4, <2>5, RequestStep
<1> QED
  BY <1>1, <1>2, <1>3, <1>4, <1>5, <1>6

(* The new row takes an id no snapshot is of.                              *)
LEMMA RegisteredStep ==
    ASSUME IInv, NEW r \in Requests, Registered(r)
    PROVE  IInv'
<1>1. /\ request[r] \in Pending /\ request[r].kind = "register"
      /\ NextId \in Ids /\ NextId = created + 1 /\ created \in Nat
      /\ created' = NextId
      /\ request' = [request EXCEPT ![r] = None]
      /\ UNCHANGED streams
  BY DEF Registered, End, IInv, TypeOK, NextId
<1>2. PICK n \in Ids, row \in Rows, t \in Tokens :
        /\ n = created + 1
        /\ users' = [users EXCEPT ![n] = row]
        /\ tokens' = tokens \cup {t}
        /\ t.id = n /\ t.ver = row.ver /\ t.proved = row.password
        /\ row.ver = 0
  <2> DEFINE x == [password |-> request[r].new, ver |-> 0,
                   role |-> RoleGiven(request[r].admin)]
             y == SignToken(NextId, x, request[r].new)
  <2>1. users' = [users EXCEPT ![NextId] = x] /\ tokens' = tokens \cup {y}
    BY DEF Registered
  <2>2. request[r].new \in Passwords
    BY <1>1, PendingShape
  <2>3. x \in Rows /\ x.ver = 0 /\ x.password = request[r].new
    BY <2>2, AccountConstantsOK DEF Rows, RoleGiven, Roles, Versions
  <2> HIDE DEF x
  <2>4. y \in Tokens /\ y.id = NextId /\ y.ver = x.ver /\ y.proved = x.password
    BY <1>1, <2>2, <2>3, SignedIsToken
  <2> HIDE DEF y
  <2> QED BY <1>1, <2>1, <2>3, <2>4
<1>3. users'[n] = row /\ \A j \in Ids : j # n => users'[j] = users[j]
  BY <1>2 DEF IInv, TypeOK
<1>4. TypeOK'
  BY <1>1, <1>2 DEF IInv, TypeOK, streams, Ids
<1>5. RowsCreated'
  BY <1>1, <1>2, <1>3 DEF IInv, RowsCreated, Ids
<1>6. ASSUME NEW j \in Ids, NEW v \in Versions, NEW w \in Passwords, Snapshot(j, v, w)
      PROVE  Snapshot(j, v, w)'
  <2>1. j <= created /\ j \in Nat /\ j # n
    BY <1>1, <1>2, <1>6 DEF Snapshot, Ids
  <2> QED BY <1>1, <1>2, <1>3, <1>6, <2>1 DEF Snapshot
<1>7. (Snapshot(t.id, t.ver, t.proved))'
  BY <1>1, <1>2, <1>3 DEF Snapshot, Ids
<1>8. \A x \in Requests : request'[x] = request[x] \/ request'[x] = None
  BY <1>1 DEF IInv, TypeOK
<1>9. TokensArePast' /\ RequestsReadPast'
  <2> DEFINE kept == {t}
  <2>1. kept \in SUBSET Tokens /\ tokens' \subseteq tokens \cup kept
    BY <1>2
  <2>2. \A x \in kept : Snapshot(x.id, x.ver, x.proved)'
    BY <1>7
  <2> HIDE DEF kept
  <2> QED BY <1>6, <1>8, <2>1, <2>2, SnapshotsKept
<1> QED
  BY <1>4, <1>5, <1>9 DEF IInv

(* A request that signs the row it read.                                   *)
LEMMA SignedInStep ==
    ASSUME IInv, NEW r \in Requests, SignedIn(r)
    PROVE  IInv'
<1>1. /\ request[r] \in Pending /\ request[r] # None
      /\ request[r].kind \in {"login", "rename"}
      /\ request' = [request EXCEPT ![r] = None]
      /\ UNCHANGED <<users, created, streams>>
  BY DEF SignedIn, End, IInv, TypeOK
<1>2. PICK i \in Ids, seen \in Rows :
        i = request[r].id /\ seen = request[r].seen
  BY <1>1, PendingShape
<1>3. PICK t \in Tokens :
        /\ tokens' = tokens \cup {t}
        /\ t.id = i /\ t.ver = seen.ver /\ t.proved = seen.password
  <2> DEFINE y == SignToken(i, seen, seen.password)
  <2>1. tokens' = tokens \cup {y}
    BY <1>2 DEF SignedIn, RowSigned
  <2>2. seen.password \in Passwords
    BY DEF Rows
  <2>3. y \in Tokens /\ y.id = i /\ y.ver = seen.ver /\ y.proved = seen.password
    BY <2>2, SignedIsToken
  <2> HIDE DEF y
  <2> QED BY <2>1, <2>3
<1>4. Snapshot(i, seen.ver, seen.password)
  BY <1>1, <1>2 DEF IInv, RequestsReadPast, Reads
<1>5. \A j, v, w : Snapshot(j, v, w) => Snapshot(j, v, w)'
  BY <1>1 DEF Snapshot
<1>6. TypeOK' /\ RowsCreated'
  BY <1>1, <1>3 DEF IInv, TypeOK, RowsCreated, streams
<1>7. \A x \in Requests : request'[x] = request[x] \/ request'[x] = None
  BY <1>1 DEF IInv, TypeOK
<1>8. TokensArePast' /\ RequestsReadPast'
  <2> DEFINE kept == {t}
  <2>1. kept \in SUBSET Tokens /\ tokens' \subseteq tokens \cup kept
    BY <1>3
  <2>2. \A x \in kept : Snapshot(x.id, x.ver, x.proved)'
    BY <1>3, <1>4, <1>5
  <2> HIDE DEF kept
  <2> QED BY <1>5, <1>7, <2>1, <2>2, SnapshotsKept
<1> QED
  BY <1>6, <1>8 DEF IInv

(* A password change through the hub.                                      *)
LEMMA PasswordChangedStep ==
    ASSUME IInv, NEW r \in Requests, PasswordChanged(r)
    PROVE  IInv'
<1>1. /\ request[r] \in Pending /\ request[r].kind = "hash"
      /\ request' = [request EXCEPT ![r] = None]
      /\ created' = created
      /\ Close(Revoked(request[r].id))
  BY DEF PasswordChanged, End, IInv, TypeOK
<1>2. PICK i \in Ids, p \in Passwords, seen \in Rows :
        i = request[r].id /\ p = request[r].new /\ seen = request[r].seen
  BY <1>1, PendingShape
<1>3. /\ users[i] # None /\ users[i].ver < MaxChanges
      /\ users' = [users EXCEPT ![i] = Updated(@, p, seen)]
      /\ tokens' = tokens \cup {SignToken(i, users'[i], p)}
  BY <1>2 DEF PasswordChanged
<1>4. /\ users' \in [Ids -> Rows \cup {None}]
      /\ RowsCreated'
      /\ \A j \in Ids, v \in Versions, w \in Passwords :
           Snapshot(j, v, w) => Snapshot(j, v, w)'
      /\ (Snapshot(i, users[i].ver, p))'
  BY <1>1, <1>3, PasswordStep
<1>5. users'[i] \in Rows
  BY <1>3, NowIsPast, UpdatedRow DEF IInv, TypeOK
<1>6. PICK t \in Tokens :
        /\ tokens' = tokens \cup {t}
        /\ t.id = i /\ t.ver = users'[i].ver /\ t.proved = p
  <2> DEFINE y == SignToken(i, users'[i], p)
  <2>1. y \in Tokens /\ y.id = i /\ y.ver = users'[i].ver /\ y.proved = p
    BY <1>5, SignedIsToken
  <2> HIDE DEF y
  <2> QED BY <1>3, <2>1 DEF y
<1>7. TypeOK'
  BY <1>1, <1>4, <1>6, CloseTyped DEF IInv, TypeOK
<1>8. \A x \in Requests : request'[x] = request[x] \/ request'[x] = None
  BY <1>1 DEF IInv, TypeOK
<1>9. TokensArePast' /\ RequestsReadPast'
  <2> DEFINE kept == {t}
  <2>1. kept \in SUBSET Tokens /\ tokens' \subseteq tokens \cup kept
    BY <1>6
  <2>2. \A x \in kept : Snapshot(x.id, x.ver, x.proved)'
    BY <1>4, <1>6 DEF Snapshot
  <2> HIDE DEF kept
  <2> QED BY <1>4, <1>8, <2>1, <2>2, SnapshotsKept
<1> QED
  BY <1>4, <1>7, <1>9 DEF IInv

(* What is done to the table from outside.                                 *)
LEMMA OutsideStep ==
    ASSUME IInv, NEW i \in Ids,
           (\E p \in Passwords : ResetPassword(i, p)) \/ DeleteAccount(i)
    PROVE  IInv'
<1>1. UNCHANGED <<created, tokens, request, streams>> /\ users[i] # None
  BY DEF ResetPassword, DeleteAccount
<1>2. /\ users' \in [Ids -> Rows \cup {None}]
      /\ RowsCreated'
      /\ \A j \in Ids, v \in Versions, w \in Passwords :
           Snapshot(j, v, w) => Snapshot(j, v, w)'
  <2>1. ASSUME NEW p \in Passwords, ResetPassword(i, p)
        PROVE  /\ users' \in [Ids -> Rows \cup {None}]
               /\ RowsCreated'
               /\ \A j \in Ids, v \in Versions, w \in Passwords :
                    Snapshot(j, v, w) => Snapshot(j, v, w)'
    <3>1. PICK seen : users' = [users EXCEPT ![i] = Updated(@, p, seen)]
      BY <2>1 DEF ResetPassword
    <3>2. users[i].ver < MaxChanges
      BY <2>1 DEF ResetPassword
    <3> QED BY <1>1, <3>1, <3>2, PasswordStep
  <2>2. CASE DeleteAccount(i)
    <3>1. users' = [users EXCEPT ![i] = None]
      BY <2>2 DEF DeleteAccount
    <3> QED BY <1>1, <3>1 DEF IInv, TypeOK, RowsCreated, Snapshot
  <2> QED BY <2>1, <2>2
<1>3. TypeOK'
  BY <1>1, <1>2 DEF IInv, TypeOK, streams
<1>4. TokensArePast' /\ RequestsReadPast'
  <2> DEFINE kept == {}
  <2>1. kept \in SUBSET Tokens /\ tokens' \subseteq tokens \cup kept
        /\ \A x \in kept : Snapshot(x.id, x.ver, x.proved)'
    BY <1>1
  <2> HIDE DEF kept
  <2> QED BY <1>1, <1>2, <2>1, SnapshotsKept
<1> QED
  BY <1>2, <1>3, <1>4 DEF IInv

(* The steps that leave the table alone and at most end requests.          *)
LEMMA StreamStep ==
    ASSUME IInv,
           \/ \E r \in Requests : PasswordChangeLost(r)
           \/ \E s \in Sockets, t \in tokens : OpenStream(s, t)
           \/ \E s \in Sockets : CloseStream(s) \/ Recheck(s)
           \/ \E t \in tokens : Expire(t)
           \/ HubRestart
           \/ UNCHANGED vars
    PROVE  IInv'
<1>1. /\ UNCHANGED <<users, created>> /\ tokens' \subseteq tokens
      /\ request' \in [Requests -> Pending \cup {None}]
      /\ \A x \in Requests : request'[x] = request[x] \/ request'[x] = None
  BY DEF PasswordChangeLost, OpenStream, CloseStream, Recheck, Expire,
         HubRestart, vars, End, IInv, TypeOK
<1>2. /\ stream' \in [Sockets -> Tokens \cup {None}]
      /\ lapsed' \in SUBSET Sockets
  <2>1. CASE \E closing : Close(closing)
    BY <2>1, CloseTyped DEF IInv, TypeOK
  <2>2. CASE \E s \in Sockets, t \in tokens : OpenStream(s, t)
    BY <2>2 DEF OpenStream, IInv, TypeOK
  <2>3. CASE \E t \in tokens : Expire(t)
    BY <2>3 DEF Expire, IInv, TypeOK
  <2>4. CASE UNCHANGED vars
    BY <2>4 DEF vars, IInv, TypeOK
  <2> QED
    BY <2>1, <2>2, <2>3, <2>4
    DEF PasswordChangeLost, CloseStream, Recheck, HubRestart
<1>3. \A j, v, w : Snapshot(j, v, w) => Snapshot(j, v, w)'
  BY <1>1 DEF Snapshot
<1>4. TypeOK' /\ RowsCreated'
  BY <1>1, <1>2 DEF IInv, TypeOK, RowsCreated
<1>5. TokensArePast' /\ RequestsReadPast'
  <2> DEFINE kept == {}
  <2>1. kept \in SUBSET Tokens /\ tokens' \subseteq tokens \cup kept
        /\ \A x \in kept : Snapshot(x.id, x.ver, x.proved)'
    BY <1>1
  <2> HIDE DEF kept
  <2> QED BY <1>1, <1>3, <2>1, SnapshotsKept
<1> QED
  BY <1>4, <1>5 DEF IInv

LEMMA StepKeepsIInv == IInv /\ [Next]_vars => IInv'
<1> SUFFICES ASSUME IInv, [Next]_vars PROVE IInv'
  OBVIOUS
<1>1. ASSUME NEW r \in Requests, Request(r) PROVE IInv'
  BY <1>1, ReadsStep, RegisteredStep, SignedInStep, PasswordChangedStep, StreamStep
  DEF Request
<1> QED
  BY <1>1, OutsideStep, StreamStep DEF Next

LEMMA AlwaysIInv == Spec => []IInv
  BY Initially, StepKeepsIInv, PTL DEF Spec

-----------------------------------------------------------------------------
(* Every reachable state is well typed.                                    *)
THEOREM TypeCorrect == Spec => []TypeOK
<1>1. IInv => TypeOK
  BY DEF IInv
<1> QED BY <1>1, AlwaysIInv, PTL

(* A session the hub accepts was earned with the account's password of     *)
(* now, for any number of concurrent logins, renames and changes.          *)
THEOREM AcceptedIsProvedHolds == Spec => []AcceptedIsProved
<1>1. IInv => AcceptedIsProved
  BY DEF IInv, TokensArePast, Snapshot, AcceptedIsProved, Accepted, AcceptedIn
<1> QED BY <1>1, AlwaysIInv, PTL

-----------------------------------------------------------------------------
(* Everything a step may do to the users table.                            *)
LEMMA TableSteps ==
    ASSUME IInv, [Next]_vars
    PROVE  \/ users' = users
           \/ \E i \in Ids, p \in Passwords, row \in Rows :
                /\ users[i] # None /\ users[i] = row /\ row.ver < MaxChanges
                /\ \E seen : users' = [users EXCEPT ![i] = Updated(row, p, seen)]
           \/ \E i \in Ids : users' = [users EXCEPT ![i] = None]
           \/ \E r \in Requests : Registered(r)
<1>1. ASSUME NEW r \in Requests, PasswordChanged(r)
      PROVE  \E i \in Ids, p \in Passwords, row \in Rows :
                /\ users[i] # None /\ users[i] = row /\ row.ver < MaxChanges
                /\ \E seen : users' = [users EXCEPT ![i] = Updated(row, p, seen)]
  <2>1. request[r].id \in Ids /\ request[r].new \in Passwords
    BY <1>1, PendingShape DEF PasswordChanged, IInv, TypeOK
  <2> QED BY <1>1, <2>1 DEF PasswordChanged, IInv, TypeOK
<1>2. ASSUME NEW i \in Ids, NEW p \in Passwords, ResetPassword(i, p)
      PROVE  \E row \in Rows :
                /\ users[i] # None /\ users[i] = row /\ row.ver < MaxChanges
                /\ \E seen : users' = [users EXCEPT ![i] = Updated(row, p, seen)]
  BY <1>2 DEF ResetPassword, IInv, TypeOK
<1>3. ASSUME NEW r \in Requests, Request(r), ~PasswordChanged(r), ~Registered(r)
      PROVE  users' = users
  BY <1>3 DEF Request, Register, Login, Rename, SignedIn, ChangePassword,
              PasswordChecked, PasswordChangeLost, Refused
<1>4. ASSUME NEW s \in Sockets,
             (\E t \in tokens : OpenStream(s, t)) \/ CloseStream(s) \/ Recheck(s)
      PROVE  users' = users
  BY <1>4 DEF OpenStream, CloseStream, Recheck
<1>5. ASSUME (\E t \in tokens : Expire(t)) \/ HubRestart \/ UNCHANGED vars
      PROVE  users' = users
  BY <1>5 DEF Expire, HubRestart, vars
<1>6. ASSUME NEW i \in Ids, DeleteAccount(i)
      PROVE  users' = [users EXCEPT ![i] = None]
  BY <1>6 DEF DeleteAccount
<1> QED
  BY <1>1, <1>2, <1>3, <1>4, <1>5, <1>6 DEF Next

(* A token of a past version, or of a row that is gone, never fits a row   *)
(* again: versions grow by one and a new row takes a new id.               *)
THEOREM RefusedForGoodHolds == Spec => RefusedForGood
<1>1. ASSUME IInv, [Next]_vars, NEW t \in tokens, ~Accepted(t)
      PROVE  ~Accepted(t)'
  <2>1. t.id \in Ids /\ t.id <= created
        /\ (users[t.id] # None => t.ver < users[t.id].ver)
    <3>1. t \in Tokens /\ Snapshot(t.id, t.ver, t.proved)
      BY <1>1 DEF IInv, TypeOK, TokensArePast
    <3>2. t.id \in Ids /\ t.ver \in Versions
      BY <3>1 DEF Tokens
    <3>3. users[t.id] # None => users[t.id] \in Rows
      BY <1>1, <3>2 DEF IInv, TypeOK
    <3>4. users[t.id] # None => users[t.id].ver \in Versions
      BY <3>3 DEF Rows
    <3> QED BY <1>1, <3>1, <3>2, <3>4 DEF Snapshot, Accepted, AcceptedIn, Tokens, Versions
  <2>2. CASE users' = users
    BY <1>1, <2>2 DEF Accepted, AcceptedIn
  <2>3. ASSUME NEW i \in Ids, NEW p \in Passwords, NEW row \in Rows, NEW seen,
               users[i] # None, users[i] = row, row.ver < MaxChanges,
               users' = [users EXCEPT ![i] = Updated(row, p, seen)]
        PROVE  ~Accepted(t)'
    <3>1. CASE t.id = i
      <4>1. users'[i] = Updated(row, p, seen)
        BY <1>1, <2>3 DEF IInv, TypeOK
      <4>2. users'[i].ver = row.ver + 1 /\ t.ver < row.ver
        BY <2>1, <2>3, <3>1, <4>1, UpdatedRow
      <4>3. row.ver \in Int /\ t.ver \in Int
        BY <1>1 DEF Rows, Versions, Tokens, IInv, TypeOK
      <4> QED BY <3>1, <4>2, <4>3 DEF Accepted, AcceptedIn
    <3>2. CASE t.id # i
      BY <1>1, <2>1, <2>3, <3>2 DEF IInv, TypeOK, Accepted, AcceptedIn
    <3> QED BY <3>1, <3>2
  <2>4. ASSUME NEW i \in Ids, users' = [users EXCEPT ![i] = None]
        PROVE  ~Accepted(t)'
    BY <1>1, <2>1, <2>4 DEF IInv, TypeOK, Accepted, AcceptedIn
  <2>5. ASSUME NEW r \in Requests, Registered(r) PROVE ~Accepted(t)'
    <3>1. t.id # NextId
      <4>1. created \in Int /\ t.id \in Int
        BY <1>1, <2>1 DEF IInv, TypeOK, Ids
      <4> QED BY <2>1, <4>1 DEF NextId
    <3>2. users'[t.id] = users[t.id]
      BY <2>1, <2>5, <3>1 DEF Registered, IInv, TypeOK
    <3> QED BY <1>1, <3>2 DEF Accepted, AcceptedIn
  <2> QED BY <1>1, <2>2, <2>3, <2>4, <2>5, TableSteps
<1>2. ASSUME IInv, [Next]_vars
      PROVE  [\A t \in tokens : ~Accepted(t) => ~Accepted(t)']_vars
  BY <1>1, <1>2
<1> QED
  BY <1>2, AlwaysIInv, PTL DEF Spec, RefusedForGood

(* Whatever first registrations race, at most one admin is ever made.      *)
THEOREM OneAdminHolds == Spec => []OneAdmin
<1>1. Init => OneAdmin
  BY DEF Init, OneAdmin
<1>2. ASSUME IInv, OneAdmin, [Next]_vars PROVE OneAdmin'
  <2>1. CASE users' = users
    BY <1>2, <2>1 DEF OneAdmin
  <2>2. ASSUME NEW i \in Ids, NEW p \in Passwords, NEW row \in Rows, NEW seen,
               users[i] # None, users[i] = row, row.ver < MaxChanges,
               users' = [users EXCEPT ![i] = Updated(row, p, seen)]
        PROVE  OneAdmin'
    <3>1. \A j \in Ids : j # i => users'[j] = users[j]
      BY <2>2 DEF IInv, TypeOK
    <3>2. users'[i].role = users[i].role
      BY <2>2, UpdatedRow DEF IInv, TypeOK
    <3> QED BY <1>2, <2>2, <3>1, <3>2 DEF OneAdmin
  <2>3. ASSUME NEW i \in Ids, users' = [users EXCEPT ![i] = None]
        PROVE  OneAdmin'
    BY <1>2, <2>3 DEF IInv, TypeOK, OneAdmin
  <2>4. ASSUME NEW r \in Requests, Registered(r) PROVE OneAdmin'
    <3>1. PICK n, row : /\ n \in Ids
                        /\ users' = [users EXCEPT ![n] = row]
                        /\ row.role = RoleGiven(request[r].admin)
      <4> DEFINE x == [password |-> request[r].new, ver |-> 0,
                       role |-> RoleGiven(request[r].admin)]
      <4>1. NextId \in Ids /\ users' = [users EXCEPT ![NextId] = x]
        BY <2>4 DEF Registered
      <4>2. x.role = RoleGiven(request[r].admin)
        OBVIOUS
      <4> HIDE DEF x
      <4> QED BY <4>1, <4>2
    <3>2. CASE NoUsers
      BY <3>1, <3>2 DEF NoUsers, OneAdmin, IInv, TypeOK
    <3>3. CASE ~NoUsers
      BY <1>2, <3>1, <3>3 DEF RoleGiven, OneAdmin, IInv, TypeOK
    <3> QED BY <3>2, <3>3
  <2> QED BY <1>2, <2>1, <2>2, <2>3, <2>4, TableSteps
<1> QED
  BY <1>1, <1>2, AlwaysIInv, PTL DEF Spec

(* Racing first registrations included, a new account is an admin's doing  *)
(* or the only one of the table.                                           *)
THEOREM RegistrationClosesHolds == Spec => RegistrationCloses
<1> DEFINE Fair(i) ==
        \/ NoUsers /\ users'[i].role = "admin"
        \/ /\ users'[i].role = "user"
           /\ \E r \in Requests : request[r] # None
                /\ request[r].kind = "register" /\ request[r].admin
<1>1. ASSUME IInv, [Next]_vars, NEW i \in Ids, users[i] = None, users'[i] # None
      PROVE  Fair(i)
  <2>1. CASE users' = users
    BY <1>1, <2>1
  <2>2. ASSUME NEW j \in Ids, NEW x, users[j] # None, users' = [users EXCEPT ![j] = x]
        PROVE  FALSE
    BY <1>1, <2>2 DEF IInv, TypeOK
  <2>3. ASSUME NEW j \in Ids, users' = [users EXCEPT ![j] = None]
        PROVE  FALSE
    BY <1>1, <2>3 DEF IInv, TypeOK
  <2>4. ASSUME NEW r \in Requests, Registered(r) PROVE Fair(i)
    <3> DEFINE x == [password |-> request[r].new, ver |-> 0,
                     role |-> RoleGiven(request[r].admin)]
    <3>1. /\ users' = [users EXCEPT ![NextId] = x] /\ NextId \in Ids
          /\ request[r] # None /\ request[r].kind = "register"
          /\ NoUsers \/ request[r].admin
      BY <2>4 DEF Registered, StillOpen, CanRegister
    <3>2. x.role = IF NoUsers THEN "admin" ELSE "user"
      BY DEF RoleGiven
    <3> HIDE DEF x
    <3>3. users'[i] = x
      BY <1>1, <3>1 DEF IInv, TypeOK
    <3>4. CASE NoUsers
      BY <3>2, <3>3, <3>4
    <3>5. CASE ~NoUsers
      BY <3>1, <3>2, <3>3, <3>5
    <3> QED BY <3>4, <3>5
  <2> HIDE DEF Fair
  <2> QED BY <1>1, <2>1, <2>2, <2>3, <2>4, TableSteps
<1>2. ASSUME IInv, [Next]_vars
      PROVE  [\A i \in Ids : users[i] = None /\ users'[i] # None => Fair(i)]_vars
  BY <1>1, <1>2
<1> QED
  BY <1>2, AlwaysIInv, PTL DEF Spec, RegistrationCloses

(* The re-check of the account's streams runs after the row has changed,   *)
(* so no stream of a signed-out session outlives the step.                 *)
THEOREM ChangeCutsStreamsHolds == Spec => ChangeCutsStreams
<1>1. ASSUME NEW r \in Requests, PasswordChanged(r), NEW s \in Sockets,
             stream'[s] # None, stream'[s].id = request[r].id
      PROVE  Accepted(stream[s])'
  <2>1. stream'[s] = IF s \in Revoked(request[r].id) THEN None ELSE stream[s]
    BY <1>1 DEF PasswordChanged, Close
  <2>2. stream'[s] = stream[s] /\ s \notin Revoked(request[r].id)
    BY <1>1, <2>1
  <2>3. StillGood(users', s)
    BY <1>1, <2>2 DEF Revoked
  <2>4. AcceptedIn(users', stream'[s])
    BY <2>2, <2>3 DEF StillGood
  <2> QED BY <2>4 DEF Accepted, AcceptedIn
<1>2. ASSUME [Next]_vars
      PROVE  [\A r \in Requests : PasswordChanged(r) =>
                \A s \in Sockets :
                   stream'[s] # None /\ stream'[s].id = request[r].id
                     => Accepted(stream[s])']_vars
  BY <1>1
<1> QED
  BY <1>2, PTL DEF Spec, ChangeCutsStreams

(* Streams, sessions and registrations, as the run checks them.             *)
THEOREM SessionsFollowAccountsHolds == Spec => SessionsFollowAccounts
BY ChangeCutsStreamsHolds, RefusedForGoodHolds, RegistrationClosesHolds
   DEF SessionsFollowAccounts

-----------------------------------------------------------------------------
(* The database. What holds of the rows wherever a boot was cut off: a      *)
(* table without host_id holds cards of the hub's own machine only, which   *)
(* is why a rebuild that forgets the host loses nothing; and every row has  *)
(* its card in gpu_devices.                                                 *)
AllLocal(rows) == \A r \in rows : r.card \in LocalCards

LegalRows(m, v) ==
    /\ m \in Metrics =>
         /\ m.strict => ~m.hosted
         /\ ~m.hosted => AllLocal(m.rows)
         /\ \A r \in m.rows : v \in Devices /\ r.card \in v.rows
    /\ v \in Devices => (v.scoped \/ v.rows \subseteq LocalCards)

Legal(d) == d \in Databases /\ LegalRows(d.metrics, d.devices)

B1 == {"down", "users", "metrics"}
B2 == B1 \cup {"devices"}
B3 == B2 \cup {"hosts"}
B4 == B3 \cup {"orphans"}
B5 == B4 \cup {"relax"}
B6 == B5 \cup {"hostColumns"}
B7 == B6 \cup {"metricsHost"}
B8 == B7 \cup {"rescope"}
B9 == B8 \cup {"eventsHost"}
B10 == B9 \cup {"rulesHost"}
B11 == B10 \cup {"tokenVersion"}
B12 == B11 \cup {"alertTables"}

(* What the statements before p have done.                                  *)
Progress(p, d) ==
    /\ p \notin B1 => d.metrics \in Metrics
    /\ p \notin B2 => d.devices \in Devices
    /\ p \notin B3 => d.hosts \in 0 .. HostColumns
    /\ p \notin B4 => d.metricsNew = NoTable /\ d.devicesNew = NoTable
    /\ p \notin B5 => ~d.metrics.strict
    /\ p \notin B6 => d.hosts = HostColumns
    /\ p \notin B7 => d.metrics.hosted
    /\ p \notin B8 => d.devices.scoped
    /\ p \notin B9 => d.events # "plain"
    /\ p \notin B10 => d.rules # "plain"
    /\ p \notin B11 => d.users = "modern"
    /\ p \notin B12 => d.events = "modern" /\ d.rules = "modern"

SameBut(d, e, fs) ==
    /\ "users" \in fs \/ e.users = d.users
    /\ "hosts" \in fs \/ e.hosts = d.hosts
    /\ "metrics" \in fs \/ e.metrics = d.metrics
    /\ "metricsNew" \in fs \/ e.metricsNew = d.metricsNew
    /\ "devices" \in fs \/ e.devices = d.devices
    /\ "devicesNew" \in fs \/ e.devicesNew = d.devicesNew
    /\ "events" \in fs \/ e.events = d.events
    /\ "rules" \in fs \/ e.rules = d.rules

(* The transaction of a rebuild: nothing but its own two tables is touched, *)
(* and at each statement they are what they are.                            *)
RelaxedMetrics == [strict |-> FALSE, hosted |-> FALSE, rows |-> db.metrics.rows]
ScopedDevices == [scoped |-> TRUE, rows |-> db.devices.rows]

RelaxTx ==
    /\ db.metrics.strict
    /\ SameBut(db, tx, {"metrics", "metricsNew"})
    /\ \/ tx.metrics = db.metrics /\ tx.metricsNew = NewMetrics
       \/ tx.metrics = NoTable /\ tx.metricsNew = RelaxedMetrics
       \/ tx.metrics = RelaxedMetrics /\ tx.metricsNew = NoTable

RescopeTx ==
    /\ ~db.devices.scoped
    /\ SameBut(db, tx, {"devices", "devicesNew"})
    /\ \/ tx.devices = db.devices /\ tx.devicesNew = NewDevices
       \/ tx.devices = NoTable /\ tx.devicesNew = ScopedDevices
       \/ tx.devices = ScopedDevices /\ tx.devicesNew = NoTable

TxOK ==
    tx # NoTable =>
        /\ tx \in Databases
        /\ pc \in {"relax", "rescope"}
        /\ pc = "relax" => RelaxTx
        /\ pc = "rescope" => RescopeTx

Steps == {"users", "metrics", "devices", "hosts", "orphans", "relax", "hostColumns", "metricsHost",
          "rescope", "eventsHost", "rulesHost", "tokenVersion", "alertTables"}

SchemaInv ==
    /\ Legal(db) /\ Legal(safe) /\ Progress(pc, db) /\ TxOK
    /\ pc \in Steps \cup {"up", "stopping", "down"} /\ restarts \in 0 .. MaxRestarts

----------------------------------------------------------------------------
(* The fields of a database.                                                *)

LEMMA StepsAre == {Order[k] : k \in 1 .. Len(Order)} = Steps
<1>1. Len(Order) = 13
  BY DEF Order
<1>2. \A k \in 1 .. 13 : k = 1 \/ k = 2 \/ k = 3 \/ k = 4 \/ k = 5 \/ k = 6 \/ k = 7 \/ k = 8 \/ k = 9
                         \/ k = 10 \/ k = 11 \/ k = 12 \/ k = 13
  OBVIOUS
<1>3. /\ Order[1] = "users" /\ Order[2] = "metrics" /\ Order[3] = "devices" /\ Order[4] = "hosts"
      /\ Order[5] = "orphans" /\ Order[6] = "relax" /\ Order[7] = "hostColumns"
      /\ Order[8] = "metricsHost" /\ Order[9] = "rescope" /\ Order[10] = "eventsHost"
      /\ Order[11] = "rulesHost" /\ Order[12] = "tokenVersion" /\ Order[13] = "alertTables"
  BY DEF Order
<1>4. QED
  BY <1>1, <1>2, <1>3 DEF Steps

LEMMA AfterIs ==
    /\ Order[1] = "users"
    /\ After("users") = "metrics" /\ After("metrics") = "devices" /\ After("devices") = "hosts"
    /\ After("hosts") = "orphans" /\ After("orphans") = "relax" /\ After("relax") = "hostColumns"
    /\ After("hostColumns") = "metricsHost" /\ After("metricsHost") = "rescope"
    /\ After("rescope") = "eventsHost" /\ After("eventsHost") = "rulesHost"
    /\ After("rulesHost") = "tokenVersion" /\ After("tokenVersion") = "alertTables"
    /\ After("alertTables") = "up"
<1>1. Len(Order) = 13
  BY DEF Order
<1>2. \A k \in 1 .. 13 : k = 1 \/ k = 2 \/ k = 3 \/ k = 4 \/ k = 5 \/ k = 6 \/ k = 7 \/ k = 8 \/ k = 9
                         \/ k = 10 \/ k = 11 \/ k = 12 \/ k = 13
  OBVIOUS
<1>3. /\ Order[1] = "users" /\ Order[2] = "metrics" /\ Order[3] = "devices" /\ Order[4] = "hosts"
      /\ Order[5] = "orphans" /\ Order[6] = "relax" /\ Order[7] = "hostColumns"
      /\ Order[8] = "metricsHost" /\ Order[9] = "rescope" /\ Order[10] = "eventsHost"
      /\ Order[11] = "rulesHost" /\ Order[12] = "tokenVersion" /\ Order[13] = "alertTables"
  BY DEF Order
<1>4. \A i \in 1 .. 13 : \A k \in 1 .. 13 : Order[k] = Order[i] => k = i
  BY <1>2, <1>3
<1>5. \A i \in 1 .. 13 : (CHOOSE k \in 1 .. Len(Order) : Order[k] = Order[i]) = i
  BY <1>1, <1>4
<1>6. ASSUME NEW i \in 1 .. 13 PROVE After(Order[i]) = IF i = 13 THEN "up" ELSE Order[i + 1]
  <2> DEFINE j == CHOOSE k \in 1 .. Len(Order) : Order[k] = Order[i]
  <2>1. After(Order[i]) = IF j = Len(Order) THEN "up" ELSE Order[j + 1]
    BY DEF After
  <2>2. j = i
    BY <1>5
  <2> HIDE DEF j
  <2>3. QED
    BY <1>1, <2>1, <2>2
<1>7. /\ After(Order[1]) = Order[2] /\ After(Order[2]) = Order[3] /\ After(Order[3]) = Order[4]
      /\ After(Order[4]) = Order[5] /\ After(Order[5]) = Order[6] /\ After(Order[6]) = Order[7]
      /\ After(Order[7]) = Order[8] /\ After(Order[8]) = Order[9] /\ After(Order[9]) = Order[10]
      /\ After(Order[10]) = Order[11] /\ After(Order[11]) = Order[12] /\ After(Order[12]) = Order[13]
      /\ After(Order[13]) = "up"
  BY <1>6
<1>8. QED
  BY <1>3, <1>7

LEMMA SetUsers ==
    ASSUME NEW d \in Databases, NEW v \in {NoTable, "plain", "modern"}
    PROVE  LET e == [d EXCEPT !.users = v] IN e \in Databases /\ SameBut(d, e, {"users"}) /\ e.users = v
BY DEF Databases, SameBut

LEMMA SetHosts ==
    ASSUME NEW d \in Databases, NEW v \in {NoTable} \cup 0 .. HostColumns
    PROVE  LET e == [d EXCEPT !.hosts = v] IN e \in Databases /\ SameBut(d, e, {"hosts"}) /\ e.hosts = v
BY DEF Databases, SameBut

LEMMA SetMetrics ==
    ASSUME NEW d \in Databases, NEW v \in Metrics \cup {NoTable}
    PROVE  LET e == [d EXCEPT !.metrics = v] IN e \in Databases /\ SameBut(d, e, {"metrics"}) /\ e.metrics = v
BY DEF Databases, SameBut

LEMMA SetMetricsNew ==
    ASSUME NEW d \in Databases, NEW v \in Metrics \cup {NoTable}
    PROVE  LET e == [d EXCEPT !.metricsNew = v] IN e \in Databases /\ SameBut(d, e, {"metricsNew"}) /\ e.metricsNew = v
BY DEF Databases, SameBut

LEMMA SetDevices ==
    ASSUME NEW d \in Databases, NEW v \in Devices \cup {NoTable}
    PROVE  LET e == [d EXCEPT !.devices = v] IN e \in Databases /\ SameBut(d, e, {"devices"}) /\ e.devices = v
BY DEF Databases, SameBut

LEMMA SetDevicesNew ==
    ASSUME NEW d \in Databases, NEW v \in Devices \cup {NoTable}
    PROVE  LET e == [d EXCEPT !.devicesNew = v] IN e \in Databases /\ SameBut(d, e, {"devicesNew"}) /\ e.devicesNew = v
BY DEF Databases, SameBut

LEMMA SetEvents ==
    ASSUME NEW d \in Databases, NEW v \in {NoTable, "plain", "modern"}
    PROVE  LET e == [d EXCEPT !.events = v] IN e \in Databases /\ SameBut(d, e, {"events"}) /\ e.events = v
BY DEF Databases, SameBut

LEMMA SetRules ==
    ASSUME NEW d \in Databases, NEW v \in {NoTable, "plain", "modern"}
    PROVE  LET e == [d EXCEPT !.rules = v] IN e \in Databases /\ SameBut(d, e, {"rules"}) /\ e.rules = v
BY DEF Databases, SameBut

----------------------------------------------------------------------------
(* The boot.                                                                *)

\* A statement that touches neither the rows nor anything it should not.
KeepsRows(d) == db.metrics \in Metrics => d.metrics \in Metrics /\ d.metrics.rows = db.metrics.rows

LEMMA StatementOK ==
    ASSUME SchemaInv, NEW s \in Steps, NEW d, Commits(s, d), Legal(d), KeepsRows(d),
           Progress(s, db) => Progress(After(s), d)
    PROVE  SchemaInv' /\ KeepsRows(db')
<1>1. /\ pc = s /\ tx = NoTable /\ tx' = NoTable /\ db' = d /\ pc' = After(s) /\ UNCHANGED <<safe, restarts>>
  BY DEF Commits
<1>2. After(s) \in Steps \cup {"up"}
  BY AfterIs DEF Steps
<1>3. QED
  BY <1>1, <1>2 DEF SchemaInv, TxOK

LEMMA LegalSame ==
    ASSUME NEW d, NEW e, Legal(d), e \in Databases, e.metrics = d.metrics, e.devices = d.devices
    PROVE  Legal(e)
BY DEF Legal

LEMMA TablesStep ==
    ASSUME SchemaInv, CreateTables
    PROVE  SchemaInv' /\ KeepsRows(db')
<1>1. Legal(db) /\ db \in Databases
  BY DEF SchemaInv, Legal
<1>2. /\ db.users \in {NoTable, "plain", "modern"} /\ db.hosts \in {NoTable} \cup 0 .. HostColumns
      /\ db.metrics \in Metrics \cup {NoTable} /\ db.devices \in Devices \cup {NoTable}
  BY <1>1 DEF Databases
<1>3. CASE Commits("users", [db EXCEPT !.users = Created(db.users, "modern")])
  <2> DEFINE d == [db EXCEPT !.users = Created(db.users, "modern")]
  <2>1. Created(db.users, "modern") \in {NoTable, "plain", "modern"}
    BY <1>2 DEF Created
  <2>2. d \in Databases /\ SameBut(db, d, {"users"})
    BY <1>1, <2>1, SetUsers
  <2> HIDE DEF d
  <2>3. Legal(d) /\ KeepsRows(d)
    BY <1>1, <2>2, LegalSame DEF SameBut, KeepsRows
  <2>4. Progress("metrics", d)
    BY DEF Progress, B1, B2, B3, B4, B5, B6, B7, B8, B9, B10, B11, B12
  <2>5. QED
    BY <1>3, <2>3, <2>4, StatementOK, AfterIs DEF d, Steps
<1>4. CASE Commits("metrics", [db EXCEPT !.metrics = Created(db.metrics, [NewMetrics EXCEPT !.hosted = TRUE])])
  <2> DEFINE fresh == [NewMetrics EXCEPT !.hosted = TRUE]
             m == Created(db.metrics, fresh)
             d == [db EXCEPT !.metrics = m]
  <2>1. NewMetrics \in Metrics
    BY DEF NewMetrics, Metrics
  <2>2. fresh \in Metrics
    BY <2>1 DEF Metrics
  <2>a. ~fresh.strict
    BY DEF NewMetrics
  <2>b. fresh.hosted
    BY DEF NewMetrics
  <2>c. fresh.rows = {}
    BY DEF NewMetrics
  <2> HIDE DEF fresh
  <2>3. m \in Metrics
    BY <1>2, <2>2 DEF Created
  <2>4. m = db.metrics \/ (~m.strict /\ m.hosted /\ m.rows = {})
    <3>1. m = db.metrics \/ m = fresh
      BY DEF Created
    <3> HIDE DEF m
    <3>2. QED
      BY <3>1, <2>a, <2>b, <2>c
  <2> HIDE DEF m
  <2>5. d \in Databases /\ SameBut(db, d, {"metrics"}) /\ d.metrics = m
    BY <1>1, <2>3, SetMetrics
  <2> HIDE DEF d
  <2>d. db.metrics \in Metrics => m = db.metrics
    BY NoTableIsNone DEF m, Created
  <2>6. Legal(d) /\ KeepsRows(d)
    BY <1>1, <2>4, <2>5, <2>d DEF Legal, LegalRows, SameBut, AllLocal, KeepsRows
  <2>7. Progress("devices", d)
    BY <2>3, <2>5 DEF Progress, B1, B2, B3, B4, B5, B6, B7, B8, B9, B10, B11, B12
  <2>8. QED
    BY <1>4, <2>6, <2>7, StatementOK, AfterIs DEF d, m, fresh, Steps
<1>5. CASE Commits("devices", [db EXCEPT !.devices = Created(db.devices, NewDevices)])
  <2> DEFINE v == Created(db.devices, NewDevices)
             d == [db EXCEPT !.devices = v]
  <2>1. NewDevices \in Devices /\ NewDevices.scoped
    BY DEF NewDevices, Devices
  <2>2. v \in Devices /\ (v = db.devices \/ (db.devices = NoTable /\ v = NewDevices))
    <3>1. CASE db.devices = NoTable
      BY <2>1, <3>1 DEF Created
    <3>2. CASE db.devices # NoTable
      <4>1. v = db.devices
        BY <3>2 DEF Created
      <4> HIDE DEF v
      <4>2. QED
        BY <1>2, <3>2, <4>1
    <3>3. QED
      BY <3>1, <3>2
  <2> HIDE DEF v
  <2>3. d \in Databases /\ SameBut(db, d, {"devices"}) /\ d.devices = v
    BY <1>1, <2>2, SetDevices
  <2> HIDE DEF d
  <2>4. db.devices = NoTable => db.devices \notin Devices
    BY NoTableIsNone
  <2>5. Legal(d) /\ KeepsRows(d)
    <3>0. KeepsRows(d)
      BY <2>3 DEF SameBut, KeepsRows
    <3>1. CASE v = db.devices
      BY <1>1, <2>3, <3>0, <3>1 DEF Legal, SameBut
    <3>2. CASE db.devices = NoTable /\ v = NewDevices
      BY <1>1, <2>1, <2>3, <2>4, <3>0, <3>2 DEF Legal, LegalRows, SameBut, AllLocal
    <3>3. QED
      BY <2>2, <3>0, <3>1, <3>2
  <2>6. Progress("devices", db) => Progress("hosts", d)
    BY <2>2, <2>3 DEF SameBut, Progress, B1, B2, B3, B4, B5, B6, B7, B8, B9, B10, B11, B12
  <2>7. QED
    BY <1>5, <2>5, <2>6, StatementOK, AfterIs DEF d, v, Steps
<1>6. CASE Commits("hosts", [db EXCEPT !.hosts = Created(db.hosts, HostColumns)])
  <2> DEFINE h == Created(db.hosts, HostColumns)
             d == [db EXCEPT !.hosts = h]
  <2>1. h \in 0 .. HostColumns
    BY <1>2, StoreConstantsOK DEF Created
  <2> HIDE DEF h
  <2>2. d \in Databases /\ SameBut(db, d, {"hosts"}) /\ d.hosts = h
    BY <1>1, <2>1, SetHosts
  <2> HIDE DEF d
  <2>3. Legal(d) /\ KeepsRows(d)
    BY <1>1, <2>2, LegalSame DEF SameBut, KeepsRows
  <2>4. Progress("hosts", db) => Progress("orphans", d)
    BY <2>1, <2>2 DEF SameBut, Progress, B1, B2, B3, B4, B5, B6, B7, B8, B9, B10, B11, B12
  <2>5. QED
    BY <1>6, <2>3, <2>4, StatementOK, AfterIs DEF d, h, Steps
<1>7. QED
  BY <1>3, <1>4, <1>5, <1>6 DEF CreateTables

LEMMA OrphansStep ==
    ASSUME SchemaInv, DropOrphans
    PROVE  SchemaInv' /\ KeepsRows(db')
<1> DEFINE c == [db EXCEPT !.metricsNew = NoTable]
           d == [c EXCEPT !.devicesNew = NoTable]
<1>1. Legal(db) /\ db \in Databases
  BY DEF SchemaInv, Legal
<1>2. c \in Databases /\ SameBut(db, c, {"metricsNew"}) /\ c.metricsNew = NoTable
  BY <1>1, SetMetricsNew
<1>3. Orphans(db) = d
  BY DEF Orphans
<1> HIDE DEF c
<1>4. d \in Databases /\ SameBut(c, d, {"devicesNew"}) /\ d.devicesNew = NoTable
  BY <1>2, SetDevicesNew
<1> HIDE DEF d
<1>5. Legal(d) /\ KeepsRows(d)
  BY <1>1, <1>2, <1>4, LegalSame DEF SameBut, KeepsRows
<1>6. Progress("orphans", db) => Progress("relax", d)
  BY <1>2, <1>4 DEF SameBut, Progress, B1, B2, B3, B4, B5, B6, B7, B8, B9, B10, B11, B12
<1>7. QED
  BY <1>3, <1>5, <1>6, StatementOK, AfterIs DEF DropOrphans, Steps

LEMMA HostColumnsStep ==
    ASSUME SchemaInv, AddHostColumns
    PROVE  SchemaInv' /\ KeepsRows(db')
<1> DEFINE h == AddedColumn(db.hosts)
           d == [db EXCEPT !.hosts = h]
<1>1. Legal(db) /\ db \in Databases /\ pc = "hostColumns" /\ Progress(pc, db)
  BY DEF SchemaInv, Legal, AddHostColumns
<1>2. db.hosts \in 0 .. HostColumns
  BY <1>1 DEF Progress, B1, B2, B3
<1>3. h \in 0 .. HostColumns /\ (~(db.hosts < HostColumns) => h = HostColumns)
  BY <1>2, StoreConstantsOK DEF AddedColumn
<1>4. /\ db' = d /\ pc' = IF db.hosts < HostColumns THEN "hostColumns" ELSE "metricsHost"
      /\ UNCHANGED <<tx, safe, restarts>>
  BY <1>1, AfterIs DEF AddHostColumns
<1> HIDE DEF h
<1>5. d \in Databases /\ SameBut(db, d, {"hosts"}) /\ d.hosts = h
  BY <1>1, <1>3, SetHosts
<1> HIDE DEF d
<1>6. Legal(d) /\ KeepsRows(d)
  BY <1>1, <1>5, LegalSame DEF SameBut, KeepsRows
<1>7. Progress("hostColumns", d)
  BY <1>1, <1>3, <1>5 DEF SameBut, Progress, B1, B2, B3, B4, B5, B6, B7, B8, B9, B10, B11, B12
<1>8. ~(db.hosts < HostColumns) => Progress("metricsHost", d)
  BY <1>1, <1>3, <1>5 DEF SameBut, Progress, B1, B2, B3, B4, B5, B6, B7, B8, B9, B10, B11, B12
<1>9. tx = NoTable
  BY <1>1 DEF SchemaInv, TxOK
<1>10. QED
  BY <1>4, <1>6, <1>7, <1>8, <1>9 DEF SchemaInv, TxOK, Steps

LEMMA HostIdsStep ==
    ASSUME SchemaInv, AddHostIds
    PROVE  SchemaInv' /\ KeepsRows(db')
<1>1. Legal(db) /\ db \in Databases /\ Progress(pc, db)
  BY DEF SchemaInv, Legal
<1>2. /\ db.users \in {NoTable, "plain", "modern"} /\ db.events \in {NoTable, "plain", "modern"}
      /\ db.rules \in {NoTable, "plain", "modern"}
  BY <1>1 DEF Databases
<1>3. CASE Commits("metricsHost", [db EXCEPT !.metrics.hosted = TRUE])
  <2> DEFINE m == [db.metrics EXCEPT !.hosted = TRUE]
             d == [db EXCEPT !.metrics = m]
  <2>1. db.metrics \in Metrics /\ ~db.metrics.strict
    BY <1>1, <1>3 DEF Commits, Progress, B1, B2, B3, B4, B5
  <2>2. m \in Metrics
    BY <2>1 DEF Metrics
  <2>3. m.rows = db.metrics.rows
    BY <2>1 DEF Metrics
  <2>4. m.hosted
    BY <2>1 DEF Metrics
  <2>5. ~m.strict
    BY <2>1 DEF Metrics
  <2>6. Commits("metricsHost", d)
    BY <1>3
  <2> HIDE DEF m
  <2>7. d \in Databases /\ SameBut(db, d, {"metrics"}) /\ d.metrics = m
    BY <1>1, <2>2, SetMetrics
  <2> HIDE DEF d
  <2>8. Legal(d) /\ KeepsRows(d)
    BY <1>1, <2>1, <2>2, <2>3, <2>4, <2>5, <2>7 DEF Legal, LegalRows, SameBut, KeepsRows
  <2>9. Progress("metricsHost", db) => Progress("rescope", d)
    BY <2>2, <2>4, <2>5, <2>7 DEF SameBut, Progress, B1, B2, B3, B4, B5, B6, B7, B8, B9, B10, B11, B12
  <2>10. QED
    BY <2>6, <2>8, <2>9, StatementOK, AfterIs DEF Steps
<1>4. CASE Commits("eventsHost", [db EXCEPT !.events = IF db.events = "plain" THEN "modern" ELSE db.events])
  <2> DEFINE v == IF db.events = "plain" THEN "modern" ELSE db.events
             d == [db EXCEPT !.events = v]
  <2>1. v \in {NoTable, "plain", "modern"} /\ v # "plain"
    BY <1>2
  <2> HIDE DEF v
  <2>2. d \in Databases /\ SameBut(db, d, {"events"}) /\ d.events = v
    BY <1>1, <2>1, SetEvents
  <2> HIDE DEF d
  <2>3. Legal(d) /\ KeepsRows(d)
    BY <1>1, <2>2, LegalSame DEF SameBut, KeepsRows
  <2>4. Progress("eventsHost", db) => Progress("rulesHost", d)
    BY <2>1, <2>2 DEF SameBut, Progress, B1, B2, B3, B4, B5, B6, B7, B8, B9, B10, B11, B12
  <2>5. QED
    BY <1>4, <2>3, <2>4, StatementOK, AfterIs DEF d, v, Steps
<1>5. CASE Commits("rulesHost", [db EXCEPT !.rules = IF db.rules = "plain" THEN "modern" ELSE db.rules])
  <2> DEFINE v == IF db.rules = "plain" THEN "modern" ELSE db.rules
             d == [db EXCEPT !.rules = v]
  <2>1. v \in {NoTable, "plain", "modern"} /\ v # "plain"
    BY <1>2
  <2> HIDE DEF v
  <2>2. d \in Databases /\ SameBut(db, d, {"rules"}) /\ d.rules = v
    BY <1>1, <2>1, SetRules
  <2> HIDE DEF d
  <2>3. Legal(d) /\ KeepsRows(d)
    BY <1>1, <2>2, LegalSame DEF SameBut, KeepsRows
  <2>4. Progress("rulesHost", db) => Progress("tokenVersion", d)
    BY <2>1, <2>2 DEF SameBut, Progress, B1, B2, B3, B4, B5, B6, B7, B8, B9, B10, B11, B12
  <2>5. QED
    BY <1>5, <2>3, <2>4, StatementOK, AfterIs DEF d, v, Steps
<1>6. CASE Commits("tokenVersion", [db EXCEPT !.users = "modern"])
  <2> DEFINE d == [db EXCEPT !.users = "modern"]
  <2>1. d \in Databases /\ SameBut(db, d, {"users"}) /\ d.users = "modern"
    BY <1>1, SetUsers
  <2> HIDE DEF d
  <2>2. Legal(d) /\ KeepsRows(d)
    BY <1>1, <2>1, LegalSame DEF SameBut, KeepsRows
  <2>3. Progress("tokenVersion", db) => Progress("alertTables", d)
    BY <2>1 DEF SameBut, Progress, B1, B2, B3, B4, B5, B6, B7, B8, B9, B10, B11, B12
  <2>4. QED
    BY <1>6, <2>2, <2>3, StatementOK, AfterIs DEF d, Steps
<1>7. CASE Commits("alertTables", [db EXCEPT !.events = Created(db.events, "modern"),
                                             !.rules = Created(db.rules, "modern")])
  <2> DEFINE v == Created(db.events, "modern")
             w == Created(db.rules, "modern")
             c == [db EXCEPT !.events = v]
             d == [c EXCEPT !.rules = w]
  <2>1. db.events # "plain" /\ db.rules # "plain"
    BY <1>1, <1>7 DEF Commits, Progress, B1, B2, B3, B4, B5, B6, B7, B8, B9, B10
  <2>2. v = "modern" /\ w = "modern"
    BY <1>2, <2>1 DEF Created
  <2>3. Commits("alertTables", d)
    BY <1>7
  <2> HIDE DEF v, w
  <2>4. c \in Databases /\ SameBut(db, c, {"events"}) /\ c.events = v
    BY <1>1, <2>2, SetEvents
  <2> HIDE DEF c
  <2>5. d \in Databases /\ SameBut(c, d, {"rules"}) /\ d.rules = w
    BY <2>2, <2>4, SetRules
  <2> HIDE DEF d
  <2>6. Legal(d) /\ KeepsRows(d)
    BY <1>1, <2>4, <2>5, LegalSame DEF SameBut, KeepsRows
  <2>7. Progress("alertTables", db) => Progress("up", d)
    BY <2>2, <2>4, <2>5 DEF SameBut, Progress, B1, B2, B3, B4, B5, B6, B7, B8, B9, B10, B11, B12
  <2>8. QED
    BY <2>3, <2>6, <2>7, StatementOK, AfterIs DEF Steps
<1>8. QED
  BY <1>3, <1>4, <1>5, <1>6, <1>7 DEF AddHostIds

----------------------------------------------------------------------------
(* The rebuilds, which keep every row.                                      *)

\* A row of the hub's own machine is copied as it is.
LEMMA RelaxedIsSame ==
    ASSUME NEW rows, rows \subseteq MetricRows, AllLocal(rows)
    PROVE  Relaxed(rows) = rows
<1>1. \A r \in rows : [n |-> r.n, card |-> AtLocal(r.card)] = r
  <2> SUFFICES ASSUME NEW r \in rows PROVE [n |-> r.n, card |-> AtLocal(r.card)] = r
    OBVIOUS
  <2>1. r \in MetricRows /\ r.card \in LocalCards
    BY DEF AllLocal
  <2>2. AtLocal(r.card) = r.card
    BY <2>1 DEF AtLocal, LocalCards
  <2>3. r = [n |-> r.n, card |-> r.card]
    BY <2>1 DEF MetricRows
  <2>4. QED
    BY <2>2, <2>3
<1>2. QED
  BY <1>1 DEF Relaxed

LEMMA ScopedIsSame ==
    ASSUME NEW cards, cards \subseteq LocalCards
    PROVE  {AtLocal(c) : c \in cards} = cards
<1>1. \A c \in cards : AtLocal(c) = c
  BY DEF AtLocal, LocalCards
<1>2. QED
  BY <1>1

LEMMA RelaxedInMetrics ==
    ASSUME db.metrics \in Metrics
    PROVE  /\ RelaxedMetrics \in Metrics /\ RelaxedMetrics.rows = db.metrics.rows
           /\ ~RelaxedMetrics.strict /\ ~RelaxedMetrics.hosted
<1>1. db.metrics.rows \in SUBSET MetricRows
  BY DEF Metrics
<1>2. RelaxedMetrics \in Metrics
  BY <1>1 DEF RelaxedMetrics, Metrics
<1>3. RelaxedMetrics.rows = db.metrics.rows
  BY DEF RelaxedMetrics
<1>4. ~RelaxedMetrics.strict
  BY DEF RelaxedMetrics
<1>5. ~RelaxedMetrics.hosted
  BY DEF RelaxedMetrics
<1>6. QED
  BY <1>2, <1>3, <1>4, <1>5

LEMMA ScopedInDevices ==
    ASSUME db.devices \in Devices
    PROVE  ScopedDevices \in Devices /\ ScopedDevices.rows = db.devices.rows /\ ScopedDevices.scoped
<1>1. db.devices.rows \in SUBSET Cards
  BY DEF Devices
<1>2. ScopedDevices \in Devices
  BY <1>1 DEF ScopedDevices, Devices
<1>3. ScopedDevices.rows = db.devices.rows
  BY DEF ScopedDevices
<1>4. ScopedDevices.scoped
  BY DEF ScopedDevices
<1>5. QED
  BY <1>2, <1>3, <1>4

LEMMA NewInMetrics == NewMetrics \in Metrics
BY DEF NewMetrics, Metrics

LEMMA NewInDevices == NewDevices \in Devices
BY DEF NewDevices, Devices

LEMMA FilledMetrics ==
    ASSUME NEW rows
    PROVE  [NewMetrics EXCEPT !.rows = rows] = [strict |-> FALSE, hosted |-> FALSE, rows |-> rows]
<1>1. \A strict, hosted, none :
        [[strict |-> strict, hosted |-> hosted, rows |-> none] EXCEPT !.rows = rows]
          = [strict |-> strict, hosted |-> hosted, rows |-> rows]
  OBVIOUS
<1>2. QED
  BY <1>1 DEF NewMetrics

LEMMA FilledDevices ==
    ASSUME NEW rows
    PROVE  [NewDevices EXCEPT !.rows = rows] = [scoped |-> TRUE, rows |-> rows]
<1>1. \A scoped, none :
        [[scoped |-> scoped, rows |-> none] EXCEPT !.rows = rows] = [scoped |-> scoped, rows |-> rows]
  OBVIOUS
<1>2. QED
  BY <1>1 DEF NewDevices

LEMMA CreateNewStep ==
    ASSUME SchemaInv, CreateNew
    PROVE  SchemaInv'
<1>1. /\ tx = NoTable /\ UNCHANGED <<db, pc, safe, restarts>> /\ db \in Databases /\ Progress(pc, db)
  BY DEF CreateNew, Writes, SchemaInv, Legal
<1>2. CASE Rebuilding("relax") /\ Writes([db EXCEPT !.metricsNew = NewMetrics])
  <2> DEFINE d == [db EXCEPT !.metricsNew = NewMetrics]
  <2>1. d \in Databases /\ SameBut(db, d, {"metricsNew"}) /\ d.metricsNew = NewMetrics
    BY <1>1, NewInMetrics, SetMetricsNew
  <2>2. tx' = d /\ pc = "relax" /\ db.metrics.strict
    BY <1>1, <1>2 DEF Writes, Rebuilding, RebuildDue, NeedsRelaxing
  <2> HIDE DEF d
  <2>3. RelaxTx'
    BY <1>1, <2>1, <2>2 DEF RelaxTx, SameBut
  <2>4. QED
    BY <1>1, <2>1, <2>2, <2>3 DEF SchemaInv, TxOK
<1>3. CASE Rebuilding("rescope") /\ Writes([db EXCEPT !.devicesNew = NewDevices])
  <2> DEFINE d == [db EXCEPT !.devicesNew = NewDevices]
  <2>1. d \in Databases /\ SameBut(db, d, {"devicesNew"}) /\ d.devicesNew = NewDevices
    BY <1>1, NewInDevices, SetDevicesNew
  <2>2. tx' = d /\ pc = "rescope" /\ ~db.devices.scoped
    BY <1>1, <1>3 DEF Writes, Rebuilding, RebuildDue
  <2> HIDE DEF d
  <2>3. RescopeTx'
    BY <1>1, <2>1, <2>2 DEF RescopeTx, SameBut
  <2>4. QED
    BY <1>1, <2>1, <2>2, <2>3 DEF SchemaInv, TxOK
<1>4. QED
  BY <1>2, <1>3 DEF CreateNew

\* What the transaction has of the two tables, by what it has done.
LEMMA RelaxTables ==
    ASSUME SchemaInv, tx # NoTable, pc = "relax"
    PROVE  /\ RelaxTx /\ tx \in Databases /\ db.metrics \in Metrics
           /\ db.metrics.rows \subseteq MetricRows /\ AllLocal(db.metrics.rows)
           /\ db.metrics # NoTable /\ NewMetrics # NoTable /\ RelaxedMetrics # NoTable
<1>1. RelaxTx /\ tx \in Databases
  BY DEF SchemaInv, TxOK
<1>2. db.metrics \in Metrics
  BY DEF SchemaInv, Progress, B1
<1>3. db.metrics.rows \subseteq MetricRows
  BY <1>2 DEF Metrics
<1>4. AllLocal(db.metrics.rows)
  BY <1>1, <1>2 DEF SchemaInv, Legal, LegalRows, RelaxTx
<1>5. QED
  BY <1>1, <1>2, <1>3, <1>4, RelaxedInMetrics, NewInMetrics, NoTableIsNone

LEMMA RescopeTables ==
    ASSUME SchemaInv, tx # NoTable, pc = "rescope"
    PROVE  /\ RescopeTx /\ tx \in Databases /\ db.devices \in Devices
           /\ db.devices.rows \subseteq LocalCards
           /\ db.devices # NoTable /\ NewDevices # NoTable /\ ScopedDevices # NoTable
<1>1. RescopeTx /\ tx \in Databases
  BY DEF SchemaInv, TxOK
<1>2. db.devices \in Devices
  BY DEF SchemaInv, Progress, B1, B2
<1>3. db.devices.rows \subseteq LocalCards
  BY <1>1, <1>2 DEF SchemaInv, Legal, LegalRows, RescopeTx
<1>4. QED
  BY <1>1, <1>2, <1>3, ScopedInDevices, NewInDevices, NoTableIsNone

LEMMA CopyStep ==
    ASSUME SchemaInv, CopyAndDrop
    PROVE  SchemaInv'
<1>1. tx # NoTable /\ UNCHANGED <<db, pc, safe, restarts>> /\ pc \in {"relax", "rescope"}
  BY DEF CopyAndDrop, Writes
<1>2. CASE pc = "relax"
  <2> DEFINE m == [tx.metricsNew EXCEPT !.rows = Relaxed(tx.metrics.rows)]
             c == [tx EXCEPT !.metricsNew = m]
             d == [c EXCEPT !.metrics = NoTable]
  <2>1. tx' = d /\ tx.metrics # NoTable /\ tx.metricsNew # NoTable
    BY <1>2 DEF CopyAndDrop, Writes
  <2>2. /\ RelaxTx /\ tx \in Databases /\ db.metrics \in Metrics
        /\ db.metrics.rows \subseteq MetricRows /\ AllLocal(db.metrics.rows)
    BY <1>1, <1>2, RelaxTables
  <2>3. tx.metrics = db.metrics /\ tx.metricsNew = NewMetrics
    BY <2>1, <2>2 DEF RelaxTx
  <2>4. Relaxed(tx.metrics.rows) = db.metrics.rows
    BY <2>2, <2>3, RelaxedIsSame
  <2>5. m = [NewMetrics EXCEPT !.rows = db.metrics.rows]
    BY <2>3, <2>4
  <2>6. m = RelaxedMetrics
    BY <2>5, FilledMetrics DEF RelaxedMetrics
  <2> HIDE DEF m
  <2>7. c \in Databases /\ SameBut(tx, c, {"metricsNew"}) /\ c.metricsNew = m
    BY <2>2, <2>6, RelaxedInMetrics, SetMetricsNew
  <2> HIDE DEF c
  <2>8. d \in Databases /\ SameBut(c, d, {"metrics"}) /\ d.metrics = NoTable
    BY <2>7, SetMetrics
  <2> HIDE DEF d
  <2>9. RelaxTx'
    <3>1. RelaxedMetrics' = RelaxedMetrics
      BY <1>1 DEF RelaxedMetrics
    <3>2. SameBut(db, d, {"metrics", "metricsNew"})
      BY <2>2, <2>7, <2>8 DEF RelaxTx, SameBut
    <3>3. QED
      BY <1>1, <2>1, <2>2, <2>6, <2>7, <2>8, <3>1, <3>2 DEF RelaxTx, SameBut
  <2>10. QED
    BY <1>1, <1>2, <2>1, <2>8, <2>9 DEF SchemaInv, TxOK
<1>3. CASE pc = "rescope"
  <2> DEFINE m == [tx.devicesNew EXCEPT !.rows = {AtLocal(k) : k \in tx.devices.rows}]
             c == [tx EXCEPT !.devicesNew = m]
             d == [c EXCEPT !.devices = NoTable]
  <2>1. tx' = d /\ tx.devices # NoTable /\ tx.devicesNew # NoTable
    BY <1>3 DEF CopyAndDrop, Writes
  <2>2. /\ RescopeTx /\ tx \in Databases /\ db.devices \in Devices /\ db.devices.rows \subseteq LocalCards
    BY <1>1, <1>3, RescopeTables
  <2>3. tx.devices = db.devices /\ tx.devicesNew = NewDevices
    BY <2>1, <2>2 DEF RescopeTx
  <2>4. {AtLocal(k) : k \in tx.devices.rows} = db.devices.rows
    BY <2>2, <2>3, ScopedIsSame
  <2>5. m = [NewDevices EXCEPT !.rows = db.devices.rows]
    BY <2>3, <2>4
  <2>6. m = ScopedDevices
    BY <2>5, FilledDevices DEF ScopedDevices
  <2> HIDE DEF m
  <2>7. c \in Databases /\ SameBut(tx, c, {"devicesNew"}) /\ c.devicesNew = m
    BY <2>2, <2>6, ScopedInDevices, SetDevicesNew
  <2> HIDE DEF c
  <2>8. d \in Databases /\ SameBut(c, d, {"devices"}) /\ d.devices = NoTable
    BY <2>7, SetDevices
  <2> HIDE DEF d
  <2>9. RescopeTx'
    <3>1. ScopedDevices' = ScopedDevices
      BY <1>1 DEF ScopedDevices
    <3>2. SameBut(db, d, {"devices", "devicesNew"})
      BY <2>2, <2>7, <2>8 DEF RescopeTx, SameBut
    <3>3. QED
      BY <1>1, <2>1, <2>2, <2>6, <2>7, <2>8, <3>1, <3>2 DEF RescopeTx, SameBut
  <2>10. QED
    BY <1>1, <1>3, <2>1, <2>8, <2>9 DEF SchemaInv, TxOK
<1>4. QED
  BY <1>1, <1>2, <1>3

LEMMA RenameStep ==
    ASSUME SchemaInv, RenameNew
    PROVE  SchemaInv'
<1>1. tx # NoTable /\ UNCHANGED <<db, pc, safe, restarts>> /\ pc \in {"relax", "rescope"}
  BY DEF RenameNew, Writes
<1>2. CASE pc = "relax"
  <2> DEFINE m == tx.metricsNew
             c == [tx EXCEPT !.metrics = m]
             d == [c EXCEPT !.metricsNew = NoTable]
  <2>1. tx' = d /\ tx.metrics = NoTable
    BY <1>2 DEF RenameNew, Writes
  <2>2. /\ RelaxTx /\ tx \in Databases /\ db.metrics \in Metrics /\ db.metrics # NoTable
        /\ RelaxedMetrics # NoTable
    BY <1>1, <1>2, RelaxTables
  <2>3. m = RelaxedMetrics
    BY <2>1, <2>2 DEF RelaxTx
  <2> HIDE DEF m
  <2>4. c \in Databases /\ SameBut(tx, c, {"metrics"}) /\ c.metrics = m
    BY <2>2, <2>3, RelaxedInMetrics, SetMetrics
  <2> HIDE DEF c
  <2>5. d \in Databases /\ SameBut(c, d, {"metricsNew"}) /\ d.metricsNew = NoTable
    BY <2>4, SetMetricsNew
  <2> HIDE DEF d
  <2>6. RelaxTx'
    <3>1. RelaxedMetrics' = RelaxedMetrics
      BY <1>1 DEF RelaxedMetrics
    <3>2. SameBut(db, d, {"metrics", "metricsNew"})
      BY <2>2, <2>4, <2>5 DEF RelaxTx, SameBut
    <3>3. QED
      BY <1>1, <2>1, <2>2, <2>3, <2>4, <2>5, <3>1, <3>2 DEF RelaxTx, SameBut
  <2>7. QED
    BY <1>1, <1>2, <2>1, <2>5, <2>6 DEF SchemaInv, TxOK
<1>3. CASE pc = "rescope"
  <2> DEFINE m == tx.devicesNew
             c == [tx EXCEPT !.devices = m]
             d == [c EXCEPT !.devicesNew = NoTable]
  <2>1. tx' = d /\ tx.devices = NoTable
    BY <1>3 DEF RenameNew, Writes
  <2>2. /\ RescopeTx /\ tx \in Databases /\ db.devices \in Devices /\ db.devices # NoTable
        /\ ScopedDevices # NoTable
    BY <1>1, <1>3, RescopeTables
  <2>3. m = ScopedDevices
    BY <2>1, <2>2 DEF RescopeTx
  <2> HIDE DEF m
  <2>4. c \in Databases /\ SameBut(tx, c, {"devices"}) /\ c.devices = m
    BY <2>2, <2>3, ScopedInDevices, SetDevices
  <2> HIDE DEF c
  <2>5. d \in Databases /\ SameBut(c, d, {"devicesNew"}) /\ d.devicesNew = NoTable
    BY <2>4, SetDevicesNew
  <2> HIDE DEF d
  <2>6. RescopeTx'
    <3>1. ScopedDevices' = ScopedDevices
      BY <1>1 DEF ScopedDevices
    <3>2. SameBut(db, d, {"devices", "devicesNew"})
      BY <2>2, <2>4, <2>5 DEF RescopeTx, SameBut
    <3>3. QED
      BY <1>1, <2>1, <2>2, <2>3, <2>4, <2>5, <3>1, <3>2 DEF RescopeTx, SameBut
  <2>7. QED
    BY <1>1, <1>3, <2>1, <2>5, <2>6 DEF SchemaInv, TxOK
<1>4. QED
  BY <1>1, <1>2, <1>3

\* The commit of a rebuild: the rows are those there were.
LEMMA CommitIs ==
    ASSUME SchemaInv, Commit
    PROVE  /\ SchemaInv'
           /\ KeepsRows(db')
<1>1. tx # NoTable /\ db' = tx /\ tx' = NoTable /\ pc' = After(pc) /\ UNCHANGED <<safe, restarts>>
  BY DEF Commit
<1>2. pc \in {"relax", "rescope"} /\ Legal(db) /\ Progress(pc, db)
  BY <1>1 DEF SchemaInv, TxOK
<1>3. CASE pc = "relax"
  <2>1. /\ RelaxTx /\ tx \in Databases /\ db.metrics \in Metrics /\ AllLocal(db.metrics.rows)
        /\ NewMetrics # NoTable /\ RelaxedMetrics # NoTable
    BY <1>1, <1>3, RelaxTables
  <2>2. tx.metrics = RelaxedMetrics /\ SameBut(db, tx, {"metrics", "metricsNew"}) /\ tx.metricsNew = NoTable
    BY <1>3, <2>1 DEF Commit, RelaxTx
  <2>3. /\ tx.metrics \in Metrics /\ tx.metrics.rows = db.metrics.rows
        /\ ~tx.metrics.strict /\ ~tx.metrics.hosted
    BY <2>1, <2>2, RelaxedInMetrics
  <2>4. Legal(tx)
    BY <1>2, <2>1, <2>2, <2>3 DEF Legal, LegalRows, SameBut
  <2>5. pc' = "hostColumns" /\ Progress("hostColumns", tx)
    BY <1>1, <1>2, <1>3, <2>2, <2>3, AfterIs DEF SameBut, Progress, B1, B2, B3, B4, B5, B6, B7, B8, B9,
       B10, B11, B12
  <2>6. QED
    BY <1>1, <2>1, <2>2, <2>3, <2>4, <2>5 DEF SchemaInv, TxOK, SameBut, Steps, KeepsRows
<1>4. CASE pc = "rescope"
  <2>1. /\ RescopeTx /\ tx \in Databases /\ db.devices \in Devices
        /\ NewDevices # NoTable /\ ScopedDevices # NoTable
    BY <1>1, <1>4, RescopeTables
  <2>2. tx.devices = ScopedDevices /\ SameBut(db, tx, {"devices", "devicesNew"}) /\ tx.devicesNew = NoTable
    BY <1>4, <2>1 DEF Commit, RescopeTx
  <2>3. tx.devices \in Devices /\ tx.devices.rows = db.devices.rows /\ tx.devices.scoped
    BY <2>1, <2>2, ScopedInDevices
  <2>4. Legal(tx)
    BY <1>2, <2>1, <2>2, <2>3 DEF Legal, LegalRows, SameBut
  <2>5. pc' = "eventsHost" /\ Progress("eventsHost", tx)
    BY <1>1, <1>2, <1>4, <2>2, <2>3, AfterIs DEF SameBut, Progress, B1, B2, B3, B4, B5, B6, B7, B8, B9,
       B10, B11, B12
  <2>6. QED
    BY <1>1, <2>1, <2>2, <2>3, <2>4, <2>5 DEF SchemaInv, TxOK, SameBut, Steps, KeepsRows
<1>5. QED
  BY <1>2, <1>3, <1>4

LEMMA SkipStep ==
    ASSUME SchemaInv, Skip("relax") \/ Skip("rescope")
    PROVE  SchemaInv'
<1>1. tx = NoTable /\ UNCHANGED <<db, tx, safe, restarts>> /\ Progress(pc, db)
  BY DEF Skip, SchemaInv
<1>2. CASE Skip("relax")
  <2>1. pc = "relax" /\ pc' = "hostColumns" /\ ~db.metrics.strict
    BY <1>2, AfterIs DEF Skip, RebuildDue, NeedsRelaxing
  <2>2. Progress("hostColumns", db)
    BY <1>1, <2>1 DEF Progress, B1, B2, B3, B4, B5, B6, B7, B8, B9, B10, B11, B12
  <2>3. QED
    BY <1>1, <2>1, <2>2 DEF SchemaInv, TxOK, Steps
<1>3. CASE Skip("rescope")
  <2>1. pc = "rescope" /\ pc' = "eventsHost" /\ db.devices.scoped
    BY <1>3, AfterIs DEF Skip, RebuildDue
  <2>2. Progress("eventsHost", db)
    BY <1>1, <2>1 DEF Progress, B1, B2, B3, B4, B5, B6, B7, B8, B9, B10, B11, B12
  <2>3. QED
    BY <1>1, <2>1, <2>2 DEF SchemaInv, TxOK, Steps
<1>4. QED
  BY <1>2, <1>3

LEMMA BootStepOK ==
    ASSUME SchemaInv, Boot \/ BootStep \/ BootFails \/ Checkpoint
    PROVE  SchemaInv' /\ KeepsRows(db')
<1>1. CASE Boot
  <2>1. pc' = "users" /\ UNCHANGED <<db, tx, safe, restarts>> /\ pc = "down"
    BY <1>1, AfterIs DEF Boot
  <2>2. Progress("users", db)
    BY DEF Progress, B1, B2, B3, B4, B5, B6, B7, B8, B9, B10, B11, B12
  <2>3. QED
    BY <2>1, <2>2 DEF SchemaInv, TxOK, Steps, KeepsRows
<1>2. CASE BootFails
  <2>1. pc' = "down" /\ tx = NoTable /\ UNCHANGED <<db, tx, safe, restarts>>
    BY <1>2 DEF BootFails, BootThrows
  <2>2. Progress("down", db)
    BY DEF Progress, B1, B2, B3, B4, B5, B6, B7, B8, B9, B10, B11, B12
  <2>3. QED
    BY <2>1, <2>2 DEF SchemaInv, TxOK, KeepsRows
<1>3. CASE Checkpoint
  BY <1>3 DEF Checkpoint, SchemaInv, TxOK, RelaxTx, RescopeTx, RelaxedMetrics, ScopedDevices, SameBut, KeepsRows
<1>4. CASE BootStep
  <2>1. CASE CreateNew \/ CopyAndDrop \/ RenameNew \/ Skip("relax") \/ Skip("rescope")
    BY <2>1, CreateNewStep, CopyStep, RenameStep, SkipStep
       DEF CreateNew, CopyAndDrop, RenameNew, Skip, Writes, KeepsRows
  <2>2. CASE CreateTables \/ DropOrphans \/ AddHostColumns \/ AddHostIds \/ Commit
    BY <2>2, TablesStep, OrphansStep, HostColumnsStep, HostIdsStep, CommitIs
  <2>3. QED
    BY <1>4, <2>1, <2>2 DEF BootStep, Rebuild
<1>5. QED
  BY <1>1, <1>2, <1>3, <1>4

LEMMA DiesStep ==
    ASSUME SchemaInv, NEW d, Legal(d), Dies(d), UNCHANGED safe
    PROVE  SchemaInv'
<1>1. /\ restarts' = restarts + 1 /\ restarts < MaxRestarts /\ pc' = "down" /\ tx' = NoTable /\ db' = d
  BY DEF Dies
<1>2. Progress("down", d)
  BY DEF Progress, B1, B2, B3, B4, B5, B6, B7, B8, B9, B10, B11, B12
<1>3. restarts' \in 0 .. MaxRestarts
  BY <1>1, StoreConstantsOK DEF SchemaInv
<1>4. QED
  BY <1>1, <1>2, <1>3 DEF SchemaInv, TxOK

----------------------------------------------------------------------------
(* The databases that are found.                                            *)

LEMMA FilledRows ==
    ASSUME NEW cards, cards \subseteq Cards, NEW R \in Filled(cards)
    PROVE  R \subseteq MetricRows /\ \A r \in R : r.card \in cards
<1>1. PICK f \in [1 .. LegacyRows -> cards] : R = {[n |-> k, card |-> f[k]] : k \in 1 .. LegacyRows}
  BY DEF Filled
<1>2. \A k \in 1 .. LegacyRows : k \in 1 .. MaxRow /\ f[k] \in cards
  BY StoreConstantsOK
<1>3. \A k \in 1 .. LegacyRows :
        [n |-> k, card |-> f[k]] \in MetricRows /\ [n |-> k, card |-> f[k]].card \in cards
  BY <1>2 DEF MetricRows
<1>4. QED
  BY <1>1, <1>3

LEMMA LocalInCards == LocalCards \subseteq Cards
BY StoreConstantsOK DEF LocalCards, Cards

\* A database whose rows have their devices.
LEMMA FoundIs ==
    ASSUME NEW d, NEW m \in Metrics, NEW v \in Devices, NEW hosts \in {NoTable} \cup 0 .. HostColumns,
           NEW w \in {"plain", "modern"},
           d = [users |-> "plain", hosts |-> hosts, metrics |-> m, metricsNew |-> NoTable,
                devices |-> v, devicesNew |-> NoTable, events |-> w, rules |-> w],
           LegalRows(m, v)
    PROVE  Legal(d)
<1>1. d \in Databases
  BY DEF Databases
<1>2. d.metrics = m /\ d.devices = v
  OBVIOUS
<1>3. QED
  BY <1>1, <1>2 DEF Legal

LEMMA OneHostLegal ==
    ASSUME NEW strict \in BOOLEAN, NEW R \in Filled(LocalCards)
    PROVE  Legal(OneHost(strict, R))
<1> DEFINE m == [strict |-> strict, hosted |-> FALSE, rows |-> R]
           v == [scoped |-> FALSE, rows |-> {r.card : r \in R}]
<1>1. R \subseteq MetricRows /\ \A r \in R : r.card \in LocalCards
  BY LocalInCards, FilledRows
<1>2. m \in Metrics /\ m.rows = R
  BY <1>1 DEF Metrics
<1>3. ~m.hosted
  OBVIOUS
<1>4. v \in Devices /\ v.rows = {r.card : r \in R}
  BY <1>1, LocalInCards DEF Devices
<1>5. OneHost(strict, R) =
        [users |-> "plain", hosts |-> NoTable, metrics |-> m, metricsNew |-> NoTable,
         devices |-> v, devicesNew |-> NoTable, events |-> "plain", rules |-> "plain"]
  BY DEF OneHost
<1> HIDE DEF m, v
<1>6. LegalRows(m, v)
  BY <1>1, <1>2, <1>3, <1>4 DEF LegalRows, AllLocal
<1>7. QED
  BY <1>2, <1>4, <1>5, <1>6, FoundIs

LEMMA MultiHostLegal ==
    ASSUME NEW c \in 0 .. HostColumns, NEW R \in Filled(Cards)
    PROVE  Legal(MultiHost(c, R))
<1> DEFINE m == [strict |-> FALSE, hosted |-> TRUE, rows |-> R]
           v == [scoped |-> TRUE, rows |-> {r.card : r \in R}]
<1>1. R \subseteq MetricRows /\ \A r \in R : r.card \in Cards
  BY FilledRows
<1>2. m \in Metrics /\ m.rows = R
  BY <1>1 DEF Metrics
<1>3. m.hosted
  OBVIOUS
<1>a. ~m.strict
  OBVIOUS
<1>4. v \in Devices /\ v.rows = {r.card : r \in R}
  BY <1>1 DEF Devices
<1>b. v.scoped
  OBVIOUS
<1>5. MultiHost(c, R) =
        [users |-> "plain", hosts |-> c, metrics |-> m, metricsNew |-> NoTable,
         devices |-> v, devicesNew |-> NoTable, events |-> "modern", rules |-> "modern"]
  BY DEF MultiHost
<1> HIDE DEF m, v
<1>6. LegalRows(m, v)
  BY <1>1, <1>2, <1>3, <1>a, <1>b, <1>4 DEF LegalRows
<1>7. QED
  BY <1>2, <1>4, <1>5, <1>6, FoundIs

LEMMA OrphansLegal ==
    ASSUME NEW d, Legal(d), NEW e \in WithOrphans(d)
    PROVE  Legal(e)
<1> DEFINE m == [strict |-> FALSE, hosted |-> FALSE, rows |-> {}]
           v == [scoped |-> TRUE, rows |-> {}]
           c == [d EXCEPT !.metricsNew = m]
           f == [c EXCEPT !.devicesNew = v]
<1>1. e = d \/ e = f
  BY DEF WithOrphans
<1>2. m \in Metrics
  BY DEF Metrics
<1>3. v \in Devices
  BY DEF Devices
<1> HIDE DEF m, v
<1>4. c \in Databases /\ SameBut(d, c, {"metricsNew"}) /\ c.metricsNew = m
  BY <1>2, SetMetricsNew DEF Legal
<1> HIDE DEF c
<1>5. f \in Databases /\ SameBut(c, f, {"devicesNew"}) /\ f.devicesNew = v
  BY <1>3, <1>4, SetDevicesNew
<1> HIDE DEF f
<1>6. Legal(f)
  BY <1>4, <1>5, LegalSame DEF SameBut
<1>7. QED
  BY <1>1, <1>6

LEMMA EmptyLegal == Legal(Empty)
<1>1. Empty \in Databases
  BY DEF Empty, Databases
<1>2. Empty.metrics = NoTable /\ Empty.devices = NoTable
  BY DEF Empty
<1>3. QED
  BY <1>1, <1>2, NoTableIsNone DEF Legal, LegalRows

LEMMA FoundLegal == \A d \in Found : Legal(d)
<1> SUFFICES ASSUME NEW d \in Found PROVE Legal(d)
  OBVIOUS
<1>1. CASE d = Empty
  BY <1>1, EmptyLegal
<1>2. CASE d \in UNION {WithOrphans(OneHost(strict, R)) : strict \in BOOLEAN, R \in Filled(LocalCards)}
  <2>1. PICK strict \in BOOLEAN, R \in Filled(LocalCards) : d \in WithOrphans(OneHost(strict, R))
    BY <1>2
  <2>2. QED
    BY <2>1, OneHostLegal, OrphansLegal
<1>3. CASE d \in {MultiHost(c, R) : c \in 0 .. HostColumns, R \in Filled(Cards)}
  BY <1>3, MultiHostLegal
<1>4. QED
  BY <1>1, <1>2, <1>3 DEF Found

----------------------------------------------------------------------------
(* The store.                                                               *)
StoreInv ==
    /\ SchemaInv
    /\ pending # {} => pc = "up"
    /\ upserted # {} => pc \in {"up", "stopping"}
    /\ \A r \in pending : r \in MetricRows /\ r.card \in db.devices.rows
    /\ upserted \subseteq db.devices.rows
    /\ nextRow \in 1 .. MaxRow + 1
    /\ \A r \in owed : db.metrics \in Metrics /\ r \in db.metrics.rows

LEMMA StoreInitOK == StoreInit => StoreInv
<1> SUFFICES ASSUME StoreInit PROVE StoreInv
  OBVIOUS
<1>1. Legal(db) /\ safe = db /\ tx = NoTable /\ pc = "down" /\ restarts = 0
  BY FoundLegal DEF StoreInit, SchemaInit
<1>2. Progress("down", db)
  BY DEF Progress, B1, B2, B3, B4, B5, B6, B7, B8, B9, B10, B11, B12
<1>3. SchemaInv
  BY <1>1, <1>2, StoreConstantsOK DEF SchemaInv, TxOK
<1>4. nextRow \in 1 .. MaxRow + 1
  BY StoreConstantsOK DEF StoreInit
<1>5. \A r \in owed : db.metrics \in Metrics /\ r \in db.metrics.rows
  BY <1>1 DEF StoreInit, Legal, Databases
<1>6. QED
  BY <1>3, <1>4, <1>5 DEF StoreInv, StoreInit

\* An event of the running hub that gives the tables rows m and v.
LEMMA RowsStep ==
    ASSUME SchemaInv, pc \in {"up", "stopping"}, NEW m \in Metrics, NEW v \in Devices, NEW d \in Databases,
           d.metrics = m, d.devices = v, SameBut(db, d, {"metrics", "devices"}),
           m.strict = db.metrics.strict, m.hosted = db.metrics.hosted, v.scoped = db.devices.scoped,
           \A r \in m.rows : r.card \in v.rows,
           db' = d, pc' \in {"up", "stopping"}, UNCHANGED <<tx, safe>>, restarts' \in 0 .. MaxRestarts
    PROVE  SchemaInv'
<1>1. Progress(pc, db) /\ Legal(db) /\ tx = NoTable
  BY DEF SchemaInv, TxOK
<1>2. db.metrics.hosted /\ db.devices.scoped /\ ~db.metrics.strict
  BY <1>1 DEF Progress, B1, B2, B3, B4, B5, B6, B7, B8
<1>3. Legal(d)
  BY <1>2 DEF Legal, LegalRows
<1>4. Progress(pc', d)
  BY <1>1, <1>2 DEF SameBut, Progress, B1, B2, B3, B4, B5, B6, B7, B8, B9, B10, B11, B12
<1>5. QED
  BY <1>1, <1>3, <1>4 DEF SchemaInv, TxOK

LEMMA Running ==
    ASSUME SchemaInv, pc \in {"up", "stopping"}
    PROVE  /\ db \in Databases /\ db.metrics \in Metrics /\ db.devices \in Devices /\ tx = NoTable
           /\ \A r \in db.metrics.rows : r.card \in db.devices.rows
<1>1. Progress(pc, db) /\ Legal(db) /\ tx = NoTable
  BY DEF SchemaInv, TxOK
<1>2. db.metrics \in Metrics /\ db.devices \in Devices
  BY <1>1 DEF Progress, B1, B2
<1>3. QED
  BY <1>1, <1>2 DEF Legal, LegalRows

LEMMA SampleStep ==
    ASSUME StoreInv, NEW card \in Cards, Sample(card)
    PROVE  StoreInv'
<1> DEFINE v == [db.devices EXCEPT !.rows = DevicesAfter(card)]
           d == [db EXCEPT !.devices = v]
           row == [n |-> nextRow, card |-> card]
<1>1. /\ SchemaInv /\ pc = "up" /\ nextRow <= MaxRow /\ nextRow \in 1 .. MaxRow + 1
      /\ upserted' = upserted \cup {card} /\ pending' = pending \cup {row} /\ nextRow' = nextRow + 1
      /\ UNCHANGED <<tx, safe, pc, restarts, owed>>
  BY DEF Sample, StoreInv, DeviceKey
<1>2. db' = d
  BY DEF Sample
<1>3. /\ db \in Databases /\ db.metrics \in Metrics /\ db.devices \in Devices
      /\ \A r \in db.metrics.rows : r.card \in db.devices.rows
  BY <1>1, Running
<1>4. DevicesAfter(card) \subseteq Cards /\ db.devices.rows \subseteq DevicesAfter(card)
      /\ card \in DevicesAfter(card)
  BY <1>3 DEF DevicesAfter, StoreInv, Devices
<1>5. v \in Devices /\ v.rows = DevicesAfter(card) /\ v.scoped = db.devices.scoped
  BY <1>3, <1>4 DEF Devices
<1> HIDE DEF v
<1>6. d \in Databases /\ SameBut(db, d, {"devices"}) /\ d.devices = v
  BY <1>3, <1>5, SetDevices
<1>7. row \in MetricRows /\ row.card = card
  BY <1>1, StoreConstantsOK DEF MetricRows
<1> HIDE DEF d, row
<1>8. SchemaInv'
  <2>1. d.metrics = db.metrics /\ SameBut(db, d, {"metrics", "devices"})
    BY <1>6 DEF SameBut
  <2>2. \A r \in db.metrics.rows : r.card \in v.rows
    BY <1>3, <1>4, <1>5
  <2>3. restarts \in 0 .. MaxRestarts
    BY <1>1 DEF SchemaInv
  <2>4. QED
    BY <1>1, <1>2, <1>3, <1>5, <1>6, <2>1, <2>2, <2>3, RowsStep
<1>9. db'.metrics = db.metrics /\ db'.devices.rows = DevicesAfter(card)
  BY <1>2, <1>5, <1>6 DEF SameBut
<1>10. nextRow' \in 1 .. MaxRow + 1
  BY <1>1, StoreConstantsOK
<1>11. QED
  BY <1>1, <1>4, <1>7, <1>8, <1>9, <1>10 DEF StoreInv

LEMMA FlushStep ==
    ASSUME StoreInv, Flush \/ HubStops
    PROVE  StoreInv'
<1> DEFINE m == [db.metrics EXCEPT !.rows = db.metrics.rows \cup pending]
           d == [db EXCEPT !.metrics = m]
<1>1. /\ SchemaInv /\ pc = "up" /\ pending' = {} /\ pc' \in {"up", "stopping"}
      /\ restarts' \in 0 .. MaxRestarts
      /\ UNCHANGED <<tx, safe, upserted, nextRow>> /\ (Flushed \/ Lost)
  <2>1. restarts \in 0 .. MaxRestarts
    BY DEF StoreInv, SchemaInv
  <2>2. QED
    BY <2>1, StoreConstantsOK DEF Flush, HubStops, StoreInv
<1>2. /\ db \in Databases /\ db.metrics \in Metrics /\ db.devices \in Devices
      /\ \A r \in db.metrics.rows : r.card \in db.devices.rows
  BY <1>1, Running
<1>3. CASE Flushed
  <2>1. db' = d /\ owed' = owed \cup pending
    BY <1>3 DEF Flushed
  <2>2. m \in Metrics /\ m.rows = db.metrics.rows \cup pending
    BY <1>2 DEF Metrics, StoreInv
  <2>3. m.strict = db.metrics.strict
    BY <1>2 DEF Metrics
  <2>4. m.hosted = db.metrics.hosted
    BY <1>2 DEF Metrics
  <2> HIDE DEF m
  <2>5. d \in Databases /\ SameBut(db, d, {"metrics"}) /\ d.metrics = m
    BY <1>2, <2>2, SetMetrics
  <2> HIDE DEF d
  <2>6. d.devices = db.devices /\ SameBut(db, d, {"metrics", "devices"})
    BY <2>5 DEF SameBut
  <2>7. \A r \in m.rows : r.card \in db.devices.rows
    BY <1>2, <2>2 DEF StoreInv
  <2>8. SchemaInv'
    BY <1>1, <1>2, <2>1, <2>2, <2>3, <2>4, <2>5, <2>6, <2>7, RowsStep
  <2>9. \A r \in owed' : db'.metrics \in Metrics /\ r \in db'.metrics.rows
    BY <2>1, <2>2, <2>5 DEF StoreInv
  <2>10. QED
    BY <1>1, <2>1, <2>6, <2>8, <2>9 DEF StoreInv
<1>4. CASE Lost
  <2>1. UNCHANGED <<db, owed>>
    BY <1>4 DEF Lost
  <2>2. SameBut(db, db, {"metrics", "devices"})
    BY DEF SameBut
  <2>3. SchemaInv'
    BY <1>1, <1>2, <2>1, <2>2, RowsStep
  <2>4. QED
    BY <1>1, <2>1, <2>3 DEF StoreInv
<1>5. QED
  BY <1>1, <1>3, <1>4

LEMMA ExitStep ==
    ASSUME StoreInv, Exit
    PROVE  StoreInv'
<1>1. pc = "stopping" /\ pc' = "down" /\ pending' = {} /\ upserted' = {}
      /\ UNCHANGED <<db, tx, safe, restarts, nextRow, owed>>
  BY DEF Exit
<1>2. Progress("down", db)
  BY DEF Progress, B1, B2, B3, B4, B5, B6, B7, B8, B9, B10, B11, B12
<1>3. SchemaInv'
  BY <1>1, <1>2 DEF StoreInv, SchemaInv, TxOK
<1>4. QED
  BY <1>1, <1>3 DEF StoreInv

LEMMA PruneStep ==
    ASSUME StoreInv, NEW old, Prune(old)
    PROVE  StoreInv'
<1> DEFINE m == [db.metrics EXCEPT !.rows = db.metrics.rows \ old]
           d == [db EXCEPT !.metrics = m]
<1>1. /\ SchemaInv /\ pc \in {"up", "stopping"} /\ owed' = owed \ old
      /\ UNCHANGED <<tx, safe, pc, restarts, pending, upserted, nextRow>>
  BY DEF Prune, StoreInv, memory
<1>2. /\ db \in Databases /\ db.metrics \in Metrics /\ db.devices \in Devices
      /\ \A r \in db.metrics.rows : r.card \in db.devices.rows
  BY <1>1, Running
<1>3. db' = d
  BY DEF Prune
<1>4. m \in Metrics /\ m.rows = db.metrics.rows \ old
  BY <1>2 DEF Metrics
<1>5. m.strict = db.metrics.strict
  BY <1>2 DEF Metrics
<1>6. m.hosted = db.metrics.hosted
  BY <1>2 DEF Metrics
<1> HIDE DEF m
<1>7. d \in Databases /\ SameBut(db, d, {"metrics"}) /\ d.metrics = m
  BY <1>2, <1>4, SetMetrics
<1> HIDE DEF d
<1>8. d.devices = db.devices /\ SameBut(db, d, {"metrics", "devices"})
  BY <1>7 DEF SameBut
<1>9. \A r \in m.rows : r.card \in db.devices.rows
  BY <1>2, <1>4
<1>10. restarts \in 0 .. MaxRestarts
  BY <1>1 DEF SchemaInv
<1>11. SchemaInv'
  BY <1>1, <1>2, <1>3, <1>4, <1>5, <1>6, <1>7, <1>8, <1>9, <1>10, RowsStep
<1>12. \A r \in owed' : db'.metrics \in Metrics /\ r \in db'.metrics.rows
  BY <1>1, <1>3, <1>4, <1>7 DEF StoreInv
<1>13. QED
  BY <1>1, <1>3, <1>8, <1>11, <1>12 DEF StoreInv

LEMMA FallStep ==
    ASSUME StoreInv, StoreCrash \/ StorePowerCut
    PROVE  StoreInv'
<1>1. pending' = {} /\ upserted' = {} /\ UNCHANGED <<nextRow, safe>> /\ SchemaInv
  BY DEF StoreCrash, StorePowerCut, Forgets, Crash, PowerCut, StoreInv
<1>2. CASE StoreCrash
  <2>1. Dies(db) /\ Legal(db) /\ db' = db /\ UNCHANGED owed
    BY <1>1, <1>2 DEF StoreCrash, Crash, Dies, SchemaInv
  <2>2. SchemaInv'
    BY <1>1, <2>1, DiesStep
  <2>3. QED
    BY <1>1, <2>1, <2>2 DEF StoreInv
<1>3. CASE StorePowerCut
  <2>1. Dies(safe) /\ Legal(safe) /\ db' = safe /\ owed' = {row \in owed : OnDisk(row)}
    BY <1>1, <1>3 DEF StorePowerCut, PowerCut, Dies, SchemaInv
  <2>2. SchemaInv'
    BY <1>1, <2>1, DiesStep
  <2>3. safe.metrics \in Metrics \cup {NoTable}
    BY <2>1 DEF Legal, Databases
  <2>4. \A r \in owed' : db'.metrics \in Metrics /\ r \in db'.metrics.rows
    BY <2>1, <2>3 DEF OnDisk
  <2>5. QED
    BY <1>1, <2>2, <2>4 DEF StoreInv
<1>4. QED
  BY <1>2, <1>3

LEMMA StoreStep == StoreInv /\ [StoreNext]_storeVars => StoreInv'
<1> SUFFICES ASSUME StoreInv, [StoreNext]_storeVars PROVE StoreInv'
  OBVIOUS
<1>1. CASE UNCHANGED storeVars
  <2>1. UNCHANGED <<db, tx, safe, pc, restarts, pending, upserted, nextRow, owed>>
    BY <1>1 DEF storeVars, schemaVars, memory
  <2>2. SchemaInv'
    BY <2>1 DEF StoreInv, SchemaInv, TxOK, RelaxTx, RescopeTx, RelaxedMetrics, ScopedDevices, SameBut
  <2>3. QED
    BY <2>1, <2>2 DEF StoreInv
<1>2. CASE (Boot \/ BootStep \/ BootFails \/ Checkpoint) /\ UNCHANGED <<memory, nextRow, owed>>
  <2>1. SchemaInv /\ SchemaInv' /\ KeepsRows(db') /\ UNCHANGED <<pending, upserted, nextRow, owed>>
    BY <1>2, BootStepOK DEF StoreInv, memory
  <2>2. CASE pc \in {"up", "stopping"}
    <3>1. UNCHANGED <<db, pc>>
      BY <1>2, <2>2 DEF Checkpoint, Boot, BootFails, BootThrows, BootStep, CreateTables, DropOrphans,
         AddHostColumns, AddHostIds, Commits, Rebuild, CreateNew, CopyAndDrop, RenameNew, Commit, Skip,
         Rebuilding, StoreInv, SchemaInv, TxOK
    <3>2. QED
      BY <2>1, <3>1 DEF StoreInv
  <2>3. CASE pc \notin {"up", "stopping"}
    <3>1. pending = {} /\ upserted = {}
      BY <2>3 DEF StoreInv
    <3>2. QED
      BY <2>1, <3>1 DEF StoreInv, KeepsRows
  <2>4. QED
    BY <2>2, <2>3
<1>3. CASE \E old \in SUBSET (IF pc \in {"up", "stopping"} THEN db.metrics.rows ELSE {}) : Prune(old)
  BY <1>3, PruneStep
<1>4. QED
  BY <1>1, <1>2, <1>3, SampleStep, FlushStep, ExitStep, FallStep DEF StoreNext

LEMMA StoreInvariant == StoreSpec => []StoreInv
BY StoreInitOK, StoreStep, PTL DEF StoreSpec

LEMMA StoreInvKeeps == StoreInv => HistoryKept
<1> SUFFICES ASSUME StoreInv PROVE HistoryKept
  OBVIOUS
<1>1. SchemaInv /\ Legal(db) /\ Legal(safe)
  BY DEF StoreInv, SchemaInv
<1>2. SchemaTypeOK
  <2>1. tx \in Databases \cup {NoTable}
    BY <1>1 DEF SchemaInv, TxOK
  <2>2. QED
    BY <1>1, <2>1, StepsAre DEF SchemaInv, SchemaTypeOK, Legal
<1>3. RowsSurvive
  BY NoTableIsNone DEF StoreInv, RowsSurvive, Stored
<1>4. RowsHaveDevices
  <2> SUFFICES ASSUME NEW row \in Stored \cup pending PROVE row.card \in Listed
    BY DEF RowsHaveDevices
  <2>1. CASE row \in pending
    <3>1. pc = "up" /\ row.card \in db.devices.rows
      BY <2>1 DEF StoreInv
    <3>2. db.devices \in Devices
      BY <1>1, <3>1, Running
    <3>3. QED
      BY <3>1, <3>2, NoTableIsNone DEF Listed
  <2>2. CASE row \in Stored
    <3>1. db.metrics \in Metrics \cup {NoTable}
      BY <1>1 DEF Legal, Databases
    <3>2. db.metrics \in Metrics /\ row \in db.metrics.rows
      BY <2>2, <3>1 DEF Stored
    <3>3. db.devices \in Devices /\ row.card \in db.devices.rows
      BY <1>1, <3>2 DEF Legal, LegalRows
    <3>4. QED
      BY <3>3, NoTableIsNone DEF Listed
  <2>3. QED
    BY <2>1, <2>2
<1>5. QED
  BY <1>2, <1>3, <1>4 DEF HistoryKept

LEMMA StoreInvBoots == StoreInv => BootsModern
<1> SUFFICES ASSUME StoreInv PROVE BootsModern
  OBVIOUS
<1>1. SchemaInv /\ Progress(pc, db)
  BY DEF StoreInv, SchemaInv
<1>2. ~BootThrows
  BY <1>1 DEF BootThrows, Progress, B1, B2, B3, B4
<1>3. ASSUME pc = "up" PROVE Modern
  <2>1. db.metrics \in Metrics /\ db.devices \in Devices
    BY <1>1, <1>3, Running
  <2>2. QED
    BY <1>1, <1>3, <2>1, NoTableIsNone DEF Modern, Progress, B1, B2, B3, B4, B5, B6, B7, B8, B9, B10, B11, B12
<1>4. QED
  BY <1>2, <1>3 DEF BootsModern

\* No row is lost to an upgrade of the hub or to a boot that was cut off, and none
\* is without its device, for any number of rows, hosts, cards, crashes and power
\* cuts: runMigrations rebuilds a table in one transaction, and the rebuild that
\* forgets host_id runs only while there is no other host.
THEOREM HistoryKeptHolds == StoreSpec => []HistoryKept
BY StoreInvariant, StoreInvKeeps, PTL

\* Whatever database it finds, and wherever earlier boots were cut off, no boot
\* throws and a hub that is up has every column its queries name, for any number of
\* columns to add to the hosts table.
THEOREM BootsModernHolds == StoreSpec => []BootsModern
BY StoreInvariant, StoreInvBoots, PTL
=============================================================================
