------------------------------ MODULE MCDatabase ------------------------------
(***************************************************************************)
(* One at a time of what the hub's database answers for: the accounts and  *)
(* their sessions (Accounts), and the history of the cards (MetricsStore). *)
(*                                                                         *)
(* Neither a password nor a slot for a request in flight is named in the   *)
(* model, so that states differing only by a permutation of them are one.  *)
(* No liveness is checked under this symmetry.                             *)
(***************************************************************************)
EXTENDS Accounts, MetricsStore, TLC

VARIABLE part

parts == <<vars, storeVars, part>>

Interchangeable == Permutations(Passwords) \cup Permutations(Requests)

StoreIdle ==
    /\ db = Empty /\ safe = Empty /\ tx = NoTable /\ pc = "down" /\ restarts = 0
    /\ pending = {} /\ upserted = {} /\ nextRow = LegacyRows + 1 /\ owed = {}

MCInit ==
    /\ Init
    /\ \/ part = "accounts" /\ StoreIdle
       \/ part = "history" /\ StoreInit

MCNext ==
    /\ part' = part
    /\ \/ part = "accounts" /\ Next /\ UNCHANGED storeVars
       \/ part = "history" /\ StoreNext /\ UNCHANGED vars

MCSpec == MCInit /\ [][MCNext]_parts
=============================================================================
