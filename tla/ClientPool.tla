----------------------------- MODULE ClientPool -----------------------------
(* The gateway's pool of upstream HTTP transports, one per provider        *)
(* generation, and the leases that requests hold on them.  The operators   *)
(* are what the methods of ClientPool do under its mutex.                  *)
EXTENDS Naturals

CONSTANTS
    Key,        \* provider id and generation
    Entry,      \* pooledClient objects
    NoEntry

ASSUME EntryAssumption == NoEntry \notin Entry

Pool ==
    [clients: [Key -> Entry \cup {NoEntry}], active: SUBSET Key,
     reconciled: BOOLEAN, closed: BOOLEAN,
     refs: [Entry -> Nat], retired: [Entry -> BOOLEAN], idleClosed: [Entry -> BOOLEAN]]

(* An entry that does not exist is like one that was retired and closed.   *)
NewClientPool ==
    [clients |-> [k \in Key |-> NoEntry], active |-> {}, reconciled |-> FALSE,
     closed |-> FALSE, refs |-> [e \in Entry |-> 0],
     retired |-> [e \in Entry |-> TRUE], idleClosed |-> [e \in Entry |-> TRUE]]

Pooled(p) == {p.clients[k] : k \in Key} \ {NoEntry}

(* Entries nothing refers to; their identity may be given to a new one.    *)
FreeEntries(p) == {e \in Entry : p.refs[e] = 0 /\ e \notin Pooled(p)}

Stale(p, k) == p.reconciled /\ k \notin p.active

(* The entry AcquireTarget leases for a key.                               *)
LeasedEntry(p, k) ==
    IF p.clients[k] # NoEntry THEN p.clients[k] ELSE CHOOSE e \in FreeEntries(p) : TRUE

(* A key the last reconciliation did not name gets an entry of its own     *)
(* that never enters the pool.                                             *)
AcquireTarget(p, k) ==
    LET e == LeasedEntry(p, k)
    IN  IF p.clients[k] # NoEntry THEN [p EXCEPT !.refs[e] = @ + 1]
        ELSE [p EXCEPT !.refs[e] = 1, !.retired[e] = Stale(p, k), !.idleClosed[e] = FALSE,
                       !.clients[k] = IF Stale(p, k) THEN @ ELSE e]

WrongCloseUnused(p) == [p EXCEPT !.idleClosed = [e \in Entry |-> @[e] \/ p.retired[e]]]

(* Closes the idle connections of retired entries that nobody leases.      *)
CloseUnused(p) ==
    [p EXCEPT !.idleClosed = [e \in Entry |-> @[e] \/ (p.retired[e] /\ p.refs[e] = 0)]]

RetireKeys(p, keys) ==
    CloseUnused(
        [p EXCEPT !.clients = [k \in Key |-> IF k \in keys THEN NoEntry ELSE @[k]],
                  !.retired = [e \in Entry |-> @[e] \/ \E k \in keys : p.clients[k] = e]])

ReconcileTargets(p, active) ==
    IF p.closed THEN p
    ELSE RetireKeys([p EXCEPT !.active = active, !.reconciled = TRUE], Key \ active)

Release(p, e) == CloseUnused([p EXCEPT !.refs[e] = IF @ > 0 THEN @ - 1 ELSE 0])

ClosePool(p) ==
    IF p.closed THEN p ELSE RetireKeys([p EXCEPT !.closed = TRUE, !.active = {}], Key)
=============================================================================
