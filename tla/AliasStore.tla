----------------------------- MODULE AliasStore -----------------------------
(* internal/patch/alias_store.go: the bounded map from a classifier session  *)
(* (target, generation and original session) to the alias sent upstream.     *)
(* Every operation holds the store's lock, so each is one step.  The front   *)
(* of lru is the most recently used entry; an entry's age is the time since  *)
(* its last use, counted no further than the time to live.                   *)
EXTENDS Integers, Sequences, SequencesExt

CONSTANTS
    AliasKeys,       \* AliasKey values with a session
    AliasCapacity,   \* capacity
    AliasTTL         \* ttl, in ticks

ASSUME AliasAssumption == AliasCapacity \in Nat \ {0} /\ AliasTTL \in Nat \ {0}

VARIABLES
    lru,             \* entries and lru: <<[key, alias, age]>>
    issued           \* aliases drawn so far; an alias is its number

aliasVars == <<lru, issued>>

AliasInit == lru = <<>> /\ issued = 0

Aged(entries) ==
    [i \in DOMAIN entries |-> [entries[i] EXCEPT !.age = IF @ < AliasTTL THEN @ + 1 ELSE @]]
AliasTick == lru' = Aged(lru) /\ UNCHANGED issued

PurgeExpired(entries) == SelectSeq(entries, LAMBDA e : e.age < AliasTTL)

\* A hit that leaves the entry where it is in the list.
WrongMoveToFront(entries, entry) ==
    IF entry \in Range(entries)
    THEN [i \in DOMAIN entries |-> IF entries[i] = entry THEN [entry EXCEPT !.age = 0] ELSE entries[i]]
    ELSE <<entry>> \o entries

MoveToFront(entries, entry) ==
    <<[entry EXCEPT !.age = 0]>> \o SelectSeq(entries, LAMBDA e : e.key # entry.key)

\* newUUID: a number never drawn before.
FreshAlias == issued + 1

\* Resolve(key): a hit refreshes the entry, a miss draws an alias and evicts
\* from the back.  alias is what it returns.
ResolveHit(key, alias) ==
    \E e \in Range(PurgeExpired(lru)) :
        /\ e.key = key /\ alias = e.alias
        /\ lru' = MoveToFront(PurgeExpired(lru), e)
        /\ UNCHANGED issued
ResolveMiss(key, alias) ==
    LET live == PurgeExpired(lru)
        grown == MoveToFront(live, [key |-> key, alias |-> FreshAlias, age |-> 0])
    IN  /\ \A e \in Range(live) : e.key # key
        /\ alias = FreshAlias /\ issued' = FreshAlias
        /\ lru' = SubSeq(grown, 1, IF Len(grown) > AliasCapacity THEN AliasCapacity ELSE Len(grown))
Resolve(key, alias) == ResolveHit(key, alias) \/ ResolveMiss(key, alias)

\* The random source fails on a miss: only the purge is done.
ResolveFails(key) ==
    /\ \A e \in Range(PurgeExpired(lru)) : e.key # key
    /\ lru' = PurgeExpired(lru) /\ UNCHANGED issued

\* ResolveRequestScoped: an alias that never enters the store.
ResolveRequestScoped(alias) ==
    alias = FreshAlias /\ issued' = FreshAlias /\ UNCHANGED lru
=============================================================================
