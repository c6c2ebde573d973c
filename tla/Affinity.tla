------------------------------ MODULE Affinity ------------------------------
(***************************************************************************)
(* The session affinity of internal/scheduler/selector.go: which provider  *)
(* a session is bound to for a model and request type, kept in a map, an   *)
(* LRU list and an index by provider, and the pending migrations that      *)
(* remember a binding a cooldown has removed.                              *)
(*                                                                         *)
(* Abstractions.  idle stands for now - LastUsedAt and stops at StickyTTL; *)
(* CreatedAt only orders the listing of Assignments and is left out.       *)
(***************************************************************************)
EXTENDS HealthScopes

CONSTANTS
    Session,            \* session ids
    StickyCapacity,     \* policy.StickyCapacity
    StickyTTL,          \* policy.StickyTTL
    Version             \* assignment versions; 0 is the code's zero value

ASSUME AffinityAssumption ==
    /\ StickyCapacity \in Nat \ {0}
    /\ StickyTTL \in Nat \ {0}
    /\ Version \subseteq Nat \ {0}

NoProvider == ""

StickyKey == Session \X Model \X RequestType

Binding ==
    [provider: Provider, generation: Generation, version: Version, idle: 0..StickyTTL]

Unbound == [provider |-> NoProvider, generation |-> NoGeneration, version |-> 0, idle |-> 0]

IsBound(b) == b.provider # NoProvider

(* The part of an Affinity value that Scheduler.New creates.               *)
NoAffinity ==
    [assigned   |-> [k \in StickyKey |-> Unbound],
     lru        |-> <<>>,
     byProvider |-> [p \in Provider |-> {}],
     pending    |-> [k \in StickyKey |-> Unbound]]

AffinityType ==
    [assigned: [StickyKey -> Binding \cup {Unbound}], lru: Seq(StickyKey),
     byProvider: [Provider -> SUBSET StickyKey], pending: [StickyKey -> Binding \cup {Unbound}]]

AssignedKeys(a) == {k \in StickyKey : IsBound(a.assigned[k])}

(* The elements of seq that are in S, in their order.                      *)
Only(seq, S) ==
    LET kept[i \in 0..Len(seq)] ==
            IF i = 0 THEN <<>>
            ELSE IF seq[i] \in S THEN Append(kept[i - 1], seq[i]) ELSE kept[i - 1]
    IN  kept[Len(seq)]

Without(seq, K) == Only(seq, StickyKey \ K)

(* removeAssignmentLocked, for a set of keys.                              *)
RemoveAssignments(a, K) ==
    [a EXCEPT
        !.assigned   = [k \in StickyKey |-> IF k \in K THEN Unbound ELSE a.assigned[k]],
        !.lru        = Without(@, K),
        !.byProvider = [p \in Provider |->
                            a.byProvider[p] \ {k \in K : a.assigned[k].provider = p}]]

(* A pending migration outlives the time its binding would have had.       *)
WrongExpire(a) ==
    LET expired == {a.lru[i] : i \in {i \in DOMAIN a.lru : \A j \in 1..i :
                                        a.assigned[a.lru[j]].idle >= StickyTTL}}
    IN  RemoveAssignments(a, expired)

(* expireLocked: assignments from the front of the list up to the first    *)
(* one that is still fresh, and every pending migration that is too old.   *)
Expire(a) ==
    LET expired == {a.lru[i] : i \in {i \in DOMAIN a.lru : \A j \in 1..i :
                                        a.assigned[a.lru[j]].idle >= StickyTTL}}
    IN  [RemoveAssignments(a, expired) EXCEPT
            !.pending = [k \in StickyKey |->
                IF a.pending[k].idle >= StickyTTL THEN Unbound ELSE a.pending[k]]]

(* touchAssignmentLocked                                                   *)
TouchAssignment(a, k) ==
    [a EXCEPT !.assigned[k].idle = 0, !.lru = Append(Without(@, {k}), k)]

(* The eviction loop of putAssignmentLocked and migrateAssignmentLocked.   *)
Evict(a) ==
    RemoveAssignments(a, {a.lru[i] : i \in 1..(Len(a.lru) - StickyCapacity + 1)})

(* putAssignmentLocked; also the end of migrateAssignmentLocked when the   *)
(* source assignment is gone.                                              *)
PutAssignment(a, k, p, generation, version) ==
    LET room == Evict(RemoveAssignments(a, {k}))
    IN  [room EXCEPT
            !.assigned[k]   = [provider |-> p, generation |-> generation,
                               version |-> version, idle |-> 0],
            !.lru           = Append(@, k),
            !.byProvider[p] = @ \cup {k},
            !.pending[k]    = Unbound]

(* The index still lists the key under the provider it left.               *)
WrongMoveAssignment(a, k, p, generation, version) ==
    [TouchAssignment(a, k) EXCEPT
        !.assigned[k]   = [provider |-> p, generation |-> generation,
                           version |-> version, idle |-> 0],
        !.byProvider[p] = @ \cup {k},
        !.pending[k]    = Unbound]

(* The end of migrateAssignmentLocked when the source assignment is there. *)
MoveAssignment(a, k, p, generation, version) ==
    [TouchAssignment(a, k) EXCEPT
        !.assigned[k]   = [provider |-> p, generation |-> generation,
                           version |-> version, idle |-> 0],
        !.byProvider    = [q \in Provider |->
                              IF q = p THEN a.byProvider[q] \cup {k} ELSE a.byProvider[q] \ {k}],
        !.pending[k]    = Unbound]

SameSource(b, source) ==
    /\ b.provider = source.provider
    /\ b.generation = source.generation
    /\ b.version = source.version

(* The migration only looks at whether the session is bound at all.        *)
WrongMigrateAssignment(a, k, source, p, generation, version) ==
    IF IsBound(a.assigned[k]) THEN MoveAssignment(a, k, p, generation, version)
    ELSE IF IsBound(a.pending[k]) THEN PutAssignment(a, k, p, generation, version)
    ELSE a

(* migrateAssignmentLocked: the binding moves to the provider that served  *)
(* the request, if it still is the one the request saw.                    *)
MigrateAssignment(a, k, source, p, generation, version) ==
    IF \/ IsBound(a.pending[k]) /\ ~SameSource(a.pending[k], source)
       \/ IsBound(a.assigned[k]) /\ ~SameSource(a.assigned[k], source)
       \/ ~IsBound(a.assigned[k]) /\ ~IsBound(a.pending[k])
    THEN a
    ELSE IF IsBound(a.assigned[k])
    THEN MoveAssignment(a, k, p, generation, version)
    ELSE PutAssignment(a, k, p, generation, version)

(* removeProviderAssignmentsLocked and removeChannelAssignmentsLocked      *)
(* leave a pending migration for each binding they remove; K is every key  *)
(* or the keys of one channel.                                             *)
SuspendAssignments(a, p, generation, K) ==
    LET gone == {k \in a.byProvider[p] \cap K : a.assigned[k].generation = generation}
    IN  [RemoveAssignments(a, gone) EXCEPT
            !.pending = [k \in StickyKey |-> IF k \in gone THEN a.assigned[k] ELSE a.pending[k]]]

(* The affinity part of Reconcile: the bindings of assigned and of pending *)
(* that the new snapshot no longer offers go away.                         *)
ReconcileAffinity(a, assigned, pending) ==
    [RemoveAssignments(a, assigned) EXCEPT
        !.pending = [k \in StickyKey |-> IF k \in pending THEN Unbound ELSE a.pending[k]]]

(* One unit of time passes.                                                *)
AgeAffinity(a) ==
    LET Older(b) == IF IsBound(b) /\ b.idle < StickyTTL THEN [b EXCEPT !.idle = @ + 1] ELSE b
    IN  [a EXCEPT !.assigned = [k \in StickyKey |-> Older(a.assigned[k])],
                  !.pending  = [k \in StickyKey |-> Older(a.pending[k])]]
=============================================================================
