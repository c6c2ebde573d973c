--------------------------- MODULE SchedulerProofs ---------------------------
(***************************************************************************)
(* Proofs about Scheduler, for every set of providers, configurations,     *)
(* sessions, requests, outcomes and tokens and every valid policy.         *)
(***************************************************************************)
EXTENDS Scheduler, ScopeProofs

-----------------------------------------------------------------------------
(* Sequences: what Only keeps.                                             *)

(* A non-empty set of naturals has a least element: induction, for the     *)
(* formulas below.                                                         *)
LEMMA LeastNatural ==
    ASSUME NEW S \in SUBSET Nat, S # {}
    PROVE  \E n \in S : \A m \in S : n <= m
<1> DEFINE R == OpToRel(<, Nat)
<1>1. IsWellFoundedOn(R, Nat)
  BY NatLessThanWellFounded, Zenon
<1>2. \A a, b \in Nat : a < b => <<a, b>> \in R
  BY DEF OpToRel
<1> HIDE DEF R
<1>3. PICK m \in S : \A y \in S : ~(<<y, m>> \in R)
  BY <1>1, WFMin
<1>4. ASSUME NEW k \in S PROVE m <= k
  <2>1. ~(<<k, m>> \in R) /\ k \in Nat /\ m \in Nat
    BY <1>3
  <2>2. ~(k < m)
    BY <2>1, <1>2
  <2>3. QED
    BY <2>1, <2>2
<1>5. QED
  BY <1>4

(* f does what the recursion of Only does, for the first n elements.       *)
Selecting(f, seq, S, n) ==
    f = [i \in 0..n |-> IF i = 0 THEN <<>>
                        ELSE IF seq[i] \in S THEN Append(f[i - 1], seq[i]) ELSE f[i - 1]]

LEMMA SelectingExists ==
    ASSUME NEW seq, NEW S, NEW n \in Nat
    PROVE  \E f : Selecting(f, seq, S, n)
<1> DEFINE Step(f, i) == IF i = 0 THEN <<>>
                         ELSE IF seq[i] \in S THEN Append(f[i - 1], seq[i]) ELSE f[i - 1]
           Bad == {m \in Nat : ~\E f : f = [i \in 0..m |-> Step(f, i)]}
<1>1. SUFFICES ASSUME n \in Bad PROVE FALSE
  BY DEF Selecting
<1>2. PICK m \in Bad : \A k \in Bad : m <= k
  <2>1. Bad \in SUBSET Nat /\ Bad # {}
    BY <1>1
  <2> HIDE DEF Bad
  <2>2. QED
    BY <2>1, LeastNatural
<1>3. CASE m = 0
  <2> DEFINE f == [i \in 0..0 |-> <<>>]
  <2>1. f = [i \in 0..0 |-> Step(f, i)]
    OBVIOUS
  <2>2. QED
    BY <2>1, <1>3
<1>4. CASE m # 0
  <2>1. m \in Nat /\ m - 1 \in Nat /\ m - 1 \notin Bad
    <3>1. m \in Nat
      OBVIOUS
    <3> HIDE DEF Bad
    <3>2. QED
      BY <3>1, <1>2, <1>4
  <2>2. PICK f : f = [i \in 0..(m - 1) |-> Step(f, i)]
    BY <2>1
  <2> DEFINE g == [i \in 0..m |-> IF i = m THEN Step(f, m) ELSE f[i]]
  <2>3. ASSUME NEW i \in 0..m PROVE g[i] = Step(g, i)
    <3>1. CASE i = 0
      BY <3>1, <2>1, <2>2, <1>4
    <3>2. CASE i # 0
      <4>1. i - 1 \in 0..(m - 1) /\ i - 1 \in 0..m /\ i - 1 # m
        BY <3>2, <2>1
      <4>2. g[i - 1] = f[i - 1]
        BY <4>1
      <4>3. Step(g, i) = Step(f, i)
        BY <4>2, <3>2
      <4>4. g[i] = Step(f, i)
        <5>1. CASE i = m
          BY <5>1
        <5>2. CASE i # m
          <6>1. i \in 0..(m - 1)
            BY <5>2, <2>1
          <6>2. f[i] = Step(f, i)
            BY <6>1, <2>2
          <6>3. QED
            BY <6>2, <5>2
        <5>3. QED
          BY <5>1, <5>2
      <4>5. QED
        BY <4>3, <4>4
    <3>3. QED
      BY <3>1, <3>2
  <2>4. g = [i \in 0..m |-> g[i]]
    OBVIOUS
  <2> HIDE DEF g
  <2>5. g = [i \in 0..m |-> Step(g, i)]
    BY <2>3, <2>4
  <2>6. QED
    BY <2>5, <1>2
<1>5. QED
  BY <1>3, <1>4

(* What Only returns, without the recursion: g gives the places in seq of  *)
(* the elements that are kept.                                             *)
Places(seq, S, n, r, g) ==
    /\ g \in [1..Len(r) -> 1..n]
    /\ \A i, j \in 1..Len(r) : i < j => g[i] < g[j]
    /\ \A i \in 1..Len(r) : r[i] = seq[g[i]] /\ r[i] \in S
    /\ \A j \in 1..n : seq[j] \in S => \E i \in 1..Len(r) : g[i] = j

LEMMA PlacesAppend ==
    ASSUME NEW T, NEW seq \in Seq(T), NEW S, NEW n \in Nat, n + 1 <= Len(seq), NEW r \in Seq(T), NEW g,
           Places(seq, S, n, r, g)
    PROVE  /\ seq[n + 1] \notin S => Places(seq, S, n + 1, r, g)
           /\ seq[n + 1] \in S =>
                LET nr == Append(r, seq[n + 1])
                IN nr \in Seq(T) /\ \E ng : Places(seq, S, n + 1, nr, ng)
<1> DEFINE L == Len(r)
<1>0. L \in Nat /\ seq[n + 1] \in T
  OBVIOUS
<1>1. ASSUME seq[n + 1] \notin S PROVE Places(seq, S, n + 1, r, g)
  <2>1. \A j \in 1..(n + 1) : j \in 1..n \/ j = n + 1
    OBVIOUS
  <2>2. g \in [1..Len(r) -> 1..(n + 1)]
    BY DEF Places
  <2>3. QED
    BY <1>1, <2>1, <2>2 DEF Places
<1>2. ASSUME seq[n + 1] \in S
      PROVE LET nr == Append(r, seq[n + 1])
            IN nr \in Seq(T) /\ \E ng : Places(seq, S, n + 1, nr, ng)
  <2> DEFINE nr == Append(r, seq[n + 1])
             ng == [i \in 1..(L + 1) |-> IF i = L + 1 THEN n + 1 ELSE g[i]]
  <2>1. /\ nr \in Seq(T) /\ Len(nr) = L + 1 /\ nr[L + 1] = seq[n + 1]
        /\ \A i \in 1..L : nr[i] = r[i]
    BY <1>0
  <2>2. \A i \in 1..(L + 1) : i \in 1..L \/ i = L + 1
    BY <1>0
  <2>2a. \A i \in 1..L : g[i] \in 1..n
    BY DEF Places
  <2> HIDE DEF L
  <2>3. \A i \in 1..L : i \in 1..(L + 1) /\ i # L + 1 /\ ng[i] = g[i] /\ g[i] \in 1..n
    BY <1>0, <2>2a
  <2>4. ng[L + 1] = n + 1 /\ L + 1 \in 1..(L + 1)
    BY <1>0
  <2>4a. ng \in [1..(L + 1) -> 1..(n + 1)]
    <3>1. ASSUME NEW i \in 1..(L + 1) PROVE (IF i = L + 1 THEN n + 1 ELSE g[i]) \in 1..(n + 1)
      <4>1. CASE i = L + 1
        BY <4>1
      <4>2. CASE i \in 1..L
        <5>1. i # L + 1 /\ g[i] \in 1..n
          BY <4>2, <2>3
        <5>2. QED
          BY <5>1
      <4>3. QED
        BY <4>1, <4>2, <2>2
    <3>2. QED
      BY <3>1
  <2> HIDE DEF nr, ng
  <2>5. \A i, j \in 1..(L + 1) : i < j => ng[i] < ng[j]
    <3>1. SUFFICES ASSUME NEW i \in 1..(L + 1), NEW j \in 1..(L + 1), i < j PROVE ng[i] < ng[j]
      OBVIOUS
    <3>2. i \in 1..L
      BY <1>0, <3>1
    <3>3. CASE j = L + 1
      <4>1. ng[i] \in 1..n /\ ng[j] = n + 1
        BY <2>3, <2>4, <3>2, <3>3
      <4>2. QED
        BY <4>1
    <3>4. CASE j \in 1..L
      BY <3>1, <3>2, <3>4, <2>3 DEF Places, L
    <3>5. QED
      BY <2>2, <3>3, <3>4
  <2>6. \A i \in 1..(L + 1) : nr[i] = seq[ng[i]] /\ nr[i] \in S
    <3>1. SUFFICES ASSUME NEW i \in 1..(L + 1) PROVE nr[i] = seq[ng[i]] /\ nr[i] \in S
      OBVIOUS
    <3>2. CASE i = L + 1
      BY <3>2, <1>2, <2>1, <2>4
    <3>3. CASE i \in 1..L
      <4>1. r[i] = seq[g[i]] /\ r[i] \in S
        BY <3>3 DEF Places, L
      <4>2. QED
        BY <4>1, <3>3, <2>1, <2>3
    <3>4. QED
      BY <2>2, <3>2, <3>3
  <2>7. \A j \in 1..(n + 1) : seq[j] \in S => \E i \in 1..(L + 1) : ng[i] = j
    <3>1. SUFFICES ASSUME NEW j \in 1..(n + 1), seq[j] \in S PROVE \E i \in 1..(L + 1) : ng[i] = j
      OBVIOUS
    <3>2. CASE j = n + 1
      BY <3>2, <2>4
    <3>3. CASE j # n + 1
      <4>1. j \in 1..n
        BY <3>3
      <4>2. PICK i \in 1..L : g[i] = j
        BY <4>1, <3>1 DEF Places, L
      <4>3. QED
        BY <4>2, <2>3
    <3>4. QED
      BY <3>2, <3>3
  <2>8. Places(seq, S, n + 1, nr, ng)
    BY <2>1, <2>4a, <2>5, <2>6, <2>7 DEF Places
  <2>9. QED
    BY <2>1, <2>8 DEF nr
<1>3. QED
  BY <1>1, <1>2

LEMMA OnlyPlaces ==
    ASSUME NEW T, NEW seq \in Seq(T), NEW S
    PROVE  Only(seq, S) \in Seq(T) /\ \E g : Places(seq, S, Len(seq), Only(seq, S), g)
<1> DEFINE N == Len(seq)
           Step(f, i) == IF i = 0 THEN <<>>
                         ELSE IF seq[i] \in S THEN Append(f[i - 1], seq[i]) ELSE f[i - 1]
           kept == CHOOSE f : Selecting(f, seq, S, N)
           Fine(n) == kept[n] \in Seq(T) /\ \E g : Places(seq, S, n, kept[n], g)
           Bad == {n \in Nat : n <= N /\ ~Fine(n)}
<1>1. N \in Nat
  OBVIOUS
<1>2. kept = [i \in 0..N |-> Step(kept, i)]
  <2>1. \E f : Selecting(f, seq, S, N)
    BY <1>1, SelectingExists
  <2> HIDE DEF N
  <2>2. Selecting(kept, seq, S, N)
    BY <2>1
  <2> HIDE DEF kept
  <2>3. QED
    BY <2>2 DEF Selecting
<1>3. Only(seq, S) = kept[N]
  BY DEF Only, Selecting
<1> HIDE DEF kept
<1>4. \A i \in 0..N : kept[i] = Step(kept, i)
  BY <1>2
<1>5. SUFFICES Fine(N)
  BY <1>3
<1>6. SUFFICES ASSUME N \in Bad PROVE FALSE
  BY <1>1
<1>7. PICK m \in Bad : \A k \in Bad : m <= k
  <2>1. Bad \in SUBSET Nat /\ Bad # {}
    BY <1>6
  <2> HIDE DEF Bad
  <2>2. QED
    BY <2>1, LeastNatural
<1>8. m \in Nat /\ m <= N /\ ~Fine(m)
  BY <1>7
<1>9. m # 0
  <2>1. kept[0] = <<>>
    BY <1>1, <1>4
  <2>2. <<>> \in Seq(T) /\ Len(<<>>) = 0
    OBVIOUS
  <2> DEFINE g0 == [i \in 1..0 |-> 0]
  <2>3. Places(seq, S, 0, <<>>, g0)
    <3>1. 1..0 = {}
      OBVIOUS
    <3>2. g0 \in [1..Len(<<>>) -> 1..0]
      BY <3>1, <2>2
    <3> HIDE DEF g0
    <3>3. QED
      BY <3>1, <3>2, <2>2 DEF Places
  <2>4. Fine(0)
    BY <2>1, <2>2, <2>3
  <2>5. QED
    BY <2>4, <1>8
<1> DEFINE n == m - 1
<1>10. n \in Nat /\ n + 1 = m /\ n + 1 <= N /\ n \notin Bad
  <2>1. m \in Nat /\ m > 0
    BY <1>8, <1>9
  <2>2. n \in Nat /\ n + 1 = m /\ ~(m <= n)
    BY <2>1
  <2> HIDE DEF Bad
  <2>3. QED
    BY <2>2, <1>7, <1>8
<1> HIDE DEF n
<1>11. Fine(n)
  BY <1>10
<1>12. kept[m] = IF seq[n + 1] \in S THEN Append(kept[n], seq[n + 1]) ELSE kept[n]
  <2>1. m \in 0..N /\ m - 1 = n
    BY <1>8, <1>10
  <2>2. kept[m] = Step(kept, m)
    BY <2>1, <1>4
  <2>3. QED
    BY <2>2, <2>1, <1>9, <1>10
<1>13. PICK g : Places(seq, S, n, kept[n], g)
  BY <1>11
<1>14. CASE seq[n + 1] \in S
  <2>1. LET nr == Append(kept[n], seq[n + 1])
        IN nr \in Seq(T) /\ \E ng : Places(seq, S, n + 1, nr, ng)
    BY <1>10, <1>11, <1>13, <1>14, PlacesAppend
  <2>2. QED
    BY <2>1, <1>8, <1>10, <1>12, <1>14
<1>15. CASE seq[n + 1] \notin S
  <2>1. Places(seq, S, n + 1, kept[n], g)
    BY <1>10, <1>11, <1>13, <1>15, PlacesAppend
  <2>2. QED
    BY <2>1, <1>8, <1>10, <1>11, <1>12, <1>15
<1>16. QED
  BY <1>14, <1>15

(* The elements of Only are those of seq in S.                             *)
LEMMA OnlyElements ==
    ASSUME NEW T, NEW seq \in Seq(T), NEW S
    PROVE  Only(seq, S) \in Seq(T) /\ Elements(Only(seq, S)) = Elements(seq) \cap S
<1>1. PICK g : Places(seq, S, Len(seq), Only(seq, S), g)
  BY OnlyPlaces
<1>2. Only(seq, S) \in Seq(T)
  BY OnlyPlaces
<1> DEFINE r == Only(seq, S)
<1> HIDE DEF r
<1>3. DOMAIN seq = 1..Len(seq) /\ DOMAIN r = 1..Len(r)
  BY <1>2 DEF r
<1>4. Elements(r) \subseteq Elements(seq) \cap S
  BY <1>1, <1>3 DEF Places, Elements, r
<1>5. Elements(seq) \cap S \subseteq Elements(r)
  <2>1. SUFFICES ASSUME NEW j \in DOMAIN seq, seq[j] \in S PROVE \E i \in DOMAIN r : r[i] = seq[j]
    BY DEF Elements
  <2>2. PICK i \in 1..Len(r) : g[i] = j
    BY <1>1, <1>3, <2>1 DEF Places, r
  <2>3. QED
    BY <2>2, <1>1, <1>3 DEF Places, r
<1>6. QED
  BY <1>2, <1>4, <1>5 DEF r

(* It keeps a sequence free of repetitions.                                *)
LEMMA OnlyInjective ==
    ASSUME NEW T, NEW seq \in Seq(T), NEW S,
           \A i, j \in DOMAIN seq : seq[i] = seq[j] => i = j
    PROVE  LET r == Only(seq, S)
           IN  \A i, j \in DOMAIN r : r[i] = r[j] => i = j
<1> DEFINE r == Only(seq, S)
<1>1. PICK g : Places(seq, S, Len(seq), r, g)
  BY OnlyPlaces
<1>2. r \in Seq(T)
  BY OnlyPlaces
<1> HIDE DEF r
<1>3. DOMAIN seq = 1..Len(seq) /\ DOMAIN r = 1..Len(r) /\ Len(r) \in Nat /\ Len(seq) \in Nat
  BY <1>2
<1>4. ASSUME NEW i \in DOMAIN r, NEW j \in DOMAIN r, r[i] = r[j] PROVE i = j
  <2>1. g[i] \in 1..Len(seq) /\ g[j] \in 1..Len(seq) /\ seq[g[i]] = seq[g[j]]
    BY <1>1, <1>3, <1>4 DEF Places
  <2>2. g[i] = g[j]
    BY <2>1, <1>3
  <2>3. ~(i < j) /\ ~(j < i)
    BY <2>1, <2>2, <1>1, <1>3 DEF Places
  <2>4. QED
    BY <2>3, <1>3
<1>5. QED
  BY <1>4 DEF r

(* It keeps the order of the elements.                                     *)
LEMMA OnlyOrdered ==
    ASSUME NEW T, NEW seq \in Seq(T), NEW S, NEW r, r = Only(seq, S)
    PROVE  \A i, j \in DOMAIN r :
                i <= j => \E a, b \in DOMAIN seq : a <= b /\ r[i] = seq[a] /\ r[j] = seq[b]
<1>0. SUFFICES ASSUME NEW i \in DOMAIN r, NEW j \in DOMAIN r, i <= j
               PROVE  \E a, b \in DOMAIN seq : a <= b /\ r[i] = seq[a] /\ r[j] = seq[b]
  OBVIOUS
<1>1. PICK g : Places(seq, S, Len(seq), r, g)
  BY OnlyPlaces
<1>2. r \in Seq(T)
  BY OnlyPlaces
<1>3. i \in DOMAIN r /\ j \in DOMAIN r
  OBVIOUS
<1>4. DOMAIN seq = 1..Len(seq) /\ DOMAIN r = 1..Len(r) /\ Len(r) \in Nat /\ Len(seq) \in Nat
  BY <1>2
<1>5. g[i] \in 1..Len(seq) /\ g[j] \in 1..Len(seq) /\ r[i] = seq[g[i]] /\ r[j] = seq[g[j]]
  BY <1>1, <1>3, <1>4 DEF Places
<1>6. g[i] <= g[j]
  <2>1. CASE i = j
    BY <2>1, <1>5
  <2>2. CASE i # j
    <3>1. i < j
      BY <1>0, <2>2, <1>3, <1>4
    <3>2. g[i] < g[j]
      BY <3>1, <1>1, <1>3, <1>4 DEF Places
    <3>3. QED
      BY <3>2, <1>5
  <2>3. QED
    BY <2>1, <2>2
<1>7. QED
  BY <1>4, <1>5, <1>6

(* A sequence without repetitions is as long as it has elements.           *)
LEMMA LenIsCardinality ==
    ASSUME NEW T, NEW seq \in Seq(T), \A i, j \in DOMAIN seq : seq[i] = seq[j] => i = j
    PROVE  IsFiniteSet(Elements(seq)) /\ Cardinality(Elements(seq)) = Len(seq)
<1> DEFINE N == Len(seq)
           E == Elements(seq)
<1>1. N \in Nat /\ DOMAIN seq = 1..N
  OBVIOUS
<1>2. IsFiniteSet(1..N) /\ Cardinality(1..N) = N
  BY <1>1, FS_Interval
<1>3. seq \in [1..N -> E]
  BY <1>1 DEF Elements
<1>4. seq \in Surjection(1..N, E)
  BY <1>1, <1>3 DEF Surjection, Elements
<1>5. seq \in Injection(1..N, E)
  BY <1>1, <1>3 DEF Injection, IsInjective
<1>6. QED
  BY <1>2, <1>4, <1>5, FS_Surjection

(* Taking the first n elements out of such a sequence.                     *)
LEMMA PrefixRemoved ==
    ASSUME NEW T, NEW seq \in Seq(T), NEW n \in Nat, n <= Len(seq),
           NEW r \in Seq(T), \A i, j \in DOMAIN r : r[i] = r[j] => i = j,
           Elements(r) \subseteq Elements(seq) \ {seq[i] : i \in 1..n}
    PROVE  Len(r) <= Len(seq) - n
<1> DEFINE N == Len(seq)
           Rest == {seq[i] : i \in (n + 1)..N}
           f == [i \in (n + 1)..N |-> seq[i]]
<1>1. N \in Nat /\ DOMAIN seq = 1..N
  OBVIOUS
<1>2. IsFiniteSet((n + 1)..N) /\ Cardinality((n + 1)..N) = N - n
  <2> DEFINE a == n + 1
  <2>0. n <= N
    OBVIOUS
  <2> HIDE DEF N
  <2>1. a \in Int /\ N \in Int /\ (IF a > N THEN 0 ELSE N - a + 1) = N - n
    BY <1>1, <2>0
  <2> HIDE DEF a
  <2>2. IsFiniteSet(a..N) /\ Cardinality(a..N) = IF a > N THEN 0 ELSE N - a + 1
    BY <2>1, FS_Interval
  <2>3. QED
    BY <2>1, <2>2 DEF a
<1>3. f \in Surjection((n + 1)..N, Rest)
  BY DEF Surjection
<1>4. IsFiniteSet(Rest) /\ Cardinality(Rest) <= N - n
  <2> HIDE DEF f, Rest
  <2>1. QED
    BY <1>2, <1>3, FS_Surjection
<1>5. Elements(r) \subseteq Rest
  <2>1. SUFFICES ASSUME NEW i \in DOMAIN seq, seq[i] \notin {seq[j] : j \in 1..n} PROVE seq[i] \in Rest
    BY ZenonT(40) DEF Elements
  <2>2. i \notin 1..n
    BY <2>1
  <2>3. i \in (n + 1)..N
    BY <2>2, <1>1
  <2>4. QED
    BY <2>3
<1>6. IsFiniteSet(Elements(r)) /\ Cardinality(Elements(r)) = Len(r)
  BY LenIsCardinality
<1>7. Cardinality(Elements(r)) <= Cardinality(Rest)
  <2> HIDE DEF Rest
  <2>1. QED
    BY <1>4, <1>5, FS_Subset
<1>8. Cardinality(Rest) \in Nat /\ Len(r) \in Nat
  BY <1>4, FS_CardinalityType
<1> HIDE DEF Rest
<1>9. QED
  BY <1>1, <1>4, <1>6, <1>7, <1>8

-----------------------------------------------------------------------------
(* The inductive invariant, part by part, as operators of the state.       *)

Snapshot == UNION {[D -> SchedulerProvider] : D \in SUBSET Provider}

(* A health epoch stands for one uninterrupted period in which a provider  *)
(* is on, or off: no two snapshots share it across a change.               *)
EpochsOrdered(snaps) ==
    /\ \A i \in DOMAIN snaps : \A p \in DOMAIN snaps[i] : snaps[i][p].epoch <= i
    /\ \A i, j \in DOMAIN snaps : \A p \in DOMAIN snaps[i] \cap DOMAIN snaps[j] :
        i <= j /\ snaps[i][p].epoch = snaps[j][p].epoch =>
            \A m \in i..j : /\ p \in DOMAIN snaps[m]
                            /\ snaps[m][p].enabled = snaps[i][p].enabled

(* The active scopes are those of the snapshot last reconciled.            *)
ActiveCurrent(st, snaps, rev) ==
    \A p \in Provider :
        /\ st[p].active # NoSlot => rev > 0 /\ p \in DOMAIN snaps[rev]
        /\ rev > 0 /\ p \in DOMAIN snaps[rev] => ActiveMatches(st[p], snaps[rev][p])

Untouched(ps) ==
    \A x \in EntryId : ps.scope[ps.active].entry[x].consecutiveFailures = 0

(* Nothing was reported against a provider that is switched off.           *)
OffUntouched(st, snaps, rev) ==
    \A p \in Provider :
        (st[p].active # NoSlot /\ ~snaps[rev][p].enabled) => Untouched(st[p])

(* Breakers, filing and lease counts of the health store.                  *)
ScopesSound(st, ls) ==
    \A p \in Provider : SoundScopes(st[p]) /\ Filed(st[p]) /\ Accounted(st[p], ls, p)

(* The providers a snapshot offers for a model in tier n.                  *)
Offered(snapshot, model, n) ==
    {p \in Provider : Supports(snapshot, p, model) /\ snapshot[p].priority = n}

(* A request in flight knows a snapshot and a key; its candidates are the  *)
(* providers its snapshot offers; a source comes from a session.           *)
RequestKnown(q, snaps, rev) ==
    /\ q.key \in Traffic /\ q.revision \in 1..rev
    /\ IF q.initialized
       THEN \A n \in Priority : Elements(q.ordered[n]) = Offered(snaps[q.revision], q.key[2], n)
       ELSE /\ q.status = "selecting" /\ q.source = NoSource
            /\ q.stickyPhase = "pending" /\ q.stickyAttemptsUsed = 0
    /\ q.source # NoSource => q.key \in StickyKey

(* The request's budgets.                                                  *)
WithinBudget(q) ==
    /\ q.status \in {"selecting", "leased"} => q.attemptsUsed < AttemptLimit(q)
    /\ q.status = "sent" => q.attemptsUsed <= AttemptLimit(q)
    /\ q.stickyPhase = "active" => q.stickyAttemptsUsed < StickyLimit(q)

(* An attempt in flight has a lease of its provider, in a scope of the     *)
(* request's own generation, epoch and health mode: the active one when    *)
(* its snapshot is the current one.                                        *)
LeaseKnown(q, snaps, rev, st, ls) ==
    /\ q.initialized
    /\ q.token \in Token /\ ls[q.token] \in Lease
    /\ Supports(snaps[q.revision], q.provider, q.key[2])
    /\ ls[q.token].provider = q.provider
    /\ ls[q.token].channel = <<q.key[2], q.key[3]>>
    /\ Matches(st[q.provider].scope[ls[q.token].slot], snaps[q.revision][q.provider])
    /\ q.revision = rev => ls[q.token].slot = st[q.provider].active
    /\ q.migration => q.source # NoSource

RequestsKnown(rq, snaps, rev, st, ls) ==
    \A r \in Request :
        /\ rq[r].status # "idle" => RequestKnown(rq[r], snaps, rev) /\ WithinBudget(rq[r])
        /\ Holding(rq[r]) => LeaseKnown(rq[r], snaps, rev, st, ls)

(* Tokens and attempts in flight belong together, one to one.              *)
TokensHeld(rq, ls) ==
    /\ \A t \in Token : ls[t] # NoLease => \E r \in Request : Holding(rq[r]) /\ rq[r].token = t
    /\ \A r1, r2 \in Request :
        Holding(rq[r1]) /\ Holding(rq[r2]) /\ rq[r1].token = rq[r2].token => r1 = r2

(* The parts of AffinityIndexed, with its list free of repetitions.        *)
Indexed(a) ==
    /\ \A p \in Provider : a.byProvider[p] = {k \in StickyKey : a.assigned[k].provider = p}
    /\ Elements(a.lru) = AssignedKeys(a)
    /\ \A i, j \in DOMAIN a.lru : a.lru[i] = a.lru[j] => i = j
    /\ Len(a.lru) <= StickyCapacity
    /\ \A i, j \in DOMAIN a.lru :
            i <= j => a.assigned[a.lru[i]].idle >= a.assigned[a.lru[j]].idle
    /\ \A k \in StickyKey : ~(IsBound(a.assigned[k]) /\ IsBound(a.pending[k]))

(* What is remembered is known to the current snapshot.                    *)
BindingCurrent(k, b, snaps, rev) ==
    IsBound(b) =>
        /\ rev > 0
        /\ Supports(snaps[rev], b.provider, k[2])
        /\ snaps[rev][b.provider].generation = b.generation

CursorCurrent(ck, c, snaps, rev) ==
    c.provider # NoProvider =>
        /\ rev > 0
        /\ Supports(snaps[rev], c.provider, ck[1])
        /\ snaps[rev][c.provider].priority = ck[3]

Remembered(a, snaps, rev) ==
    \A k \in StickyKey : /\ BindingCurrent(k, a.assigned[k], snaps, rev)
                         /\ BindingCurrent(k, a.pending[k], snaps, rev)

CursorsCurrent(cs, snaps, rev) == \A ck \in CursorKey : CursorCurrent(ck, cs[ck], snaps, rev)

(* The breakers of key k are closed in the active scope of ps.             *)
Open(ps, k) == \A x \in {Global, <<k[2], k[3]>>} : ps.scope[ps.active].entry[x].state # "cooldown"

BindingsOpen(a, st) ==
    \A k \in StickyKey : IsBound(a.assigned[k]) => Open(st[a.assigned[k].provider], k)

UpdatesTyped(us) == \A u \in us : u.provider \in Provider

StoreInv ==
    /\ store \in [Provider -> ProviderScopes] /\ leases \in [Token -> Lease \cup {NoLease}]
    /\ ScopesSound(store, leases)
    /\ ActiveCurrent(store, snapshots, revision) /\ OffUntouched(store, snapshots, revision)

SnapshotInv ==
    /\ snapshots \in Seq(Snapshot) /\ Len(snapshots) <= MaxRevision
    /\ revision \in 0..Len(snapshots)
    /\ EpochsOrdered(snapshots)

RequestInv ==
    /\ requests \in [Request -> RequestRecord]
    /\ RequestsKnown(requests, snapshots, revision, store, leases)
    /\ TokensHeld(requests, leases)

MemoryInv ==
    /\ affinity \in AffinityType /\ Indexed(affinity)
    /\ Remembered(affinity, snapshots, revision) /\ BindingsOpen(affinity, store)

CursorInv ==
    /\ cursors \in [CursorKey -> [provider: Provider \cup {NoProvider}, version: CursorVersion]]
    /\ CursorsCurrent(cursors, snapshots, revision)

(* The inductive invariant.                                                *)
Inv == StoreInv /\ SnapshotInv /\ RequestInv /\ MemoryInv /\ CursorInv /\ UpdatesTyped(updates)

-----------------------------------------------------------------------------
(* Affinity, operator by operator.                                         *)

LEMMA AffinityFields ==
    ASSUME NEW a \in AffinityType
    PROVE  /\ a.assigned \in [StickyKey -> Binding \cup {Unbound}]
           /\ a.lru \in Seq(StickyKey)
           /\ a.byProvider \in [Provider -> SUBSET StickyKey]
           /\ a.pending \in [StickyKey -> Binding \cup {Unbound}]
BY DEF AffinityType

(* A record with fields of the right kinds is an affinity value.           *)
LEMMA AffinityOf ==
    ASSUME NEW f \in [StickyKey -> Binding \cup {Unbound}], NEW l \in Seq(StickyKey),
           NEW b \in [Provider -> SUBSET StickyKey], NEW w \in [StickyKey -> Binding \cup {Unbound}]
    PROVE  [assigned |-> f, lru |-> l, byProvider |-> b, pending |-> w] \in AffinityType
BY DEF AffinityType

LEMMA BoundFacts ==
    /\ ~IsBound(Unbound) /\ Unbound.provider = NoProvider /\ Unbound.idle = 0
    /\ NoProvider \notin Provider
    /\ \A b \in Binding : /\ IsBound(b) /\ b.provider \in Provider /\ b.generation \in Generation
                          /\ b.version \in Version /\ b.idle \in 0..StickyTTL
BY ConstantsAssumption, Zenon DEF IsBound, Unbound, NoProvider, Binding

(* removeAssignmentLocked keeps map, list and index in step.               *)
LEMMA RemoveShape ==
    ASSUME NEW a \in AffinityType, NEW K
    PROVE  LET n == RemoveAssignments(a, K)
           IN  /\ n \in AffinityType /\ n.pending = a.pending
               /\ \A k \in StickyKey : n.assigned[k] = IF k \in K THEN Unbound ELSE a.assigned[k]
               /\ n.lru = Without(a.lru, K)
               /\ \A p \in Provider :
                    n.byProvider[p] = a.byProvider[p] \ {k \in K : a.assigned[k].provider = p}
<1> DEFINE f == [k \in StickyKey |-> IF k \in K THEN Unbound ELSE a.assigned[k]]
           l == Without(a.lru, K)
           b == [p \in Provider |-> a.byProvider[p] \ {k \in K : a.assigned[k].provider = p}]
           n == [assigned |-> f, lru |-> l, byProvider |-> b, pending |-> a.pending]
<1>1. /\ a.assigned \in [StickyKey -> Binding \cup {Unbound}] /\ a.lru \in Seq(StickyKey)
      /\ a.byProvider \in [Provider -> SUBSET StickyKey]
      /\ a.pending \in [StickyKey -> Binding \cup {Unbound}]
  BY AffinityFields
<1>2. f \in [StickyKey -> Binding \cup {Unbound}]
  BY <1>1
<1>3. l \in Seq(StickyKey)
  BY <1>1, OnlyElements DEF Without
<1>4. b \in [Provider -> SUBSET StickyKey]
  BY <1>1
<1>4a. RemoveAssignments(a, K) = [a EXCEPT !.assigned = f, !.lru = l, !.byProvider = b]
  BY DEF RemoveAssignments
<1> HIDE DEF f, l, b
<1>5. RemoveAssignments(a, K) = n
  BY <1>4a DEF AffinityType
<1>6. n \in AffinityType
  BY <1>1, <1>2, <1>3, <1>4, AffinityOf
<1>7. n.assigned = f /\ n.lru = l /\ n.byProvider = b /\ n.pending = a.pending
  OBVIOUS
<1> HIDE DEF n
<1>8. QED
  BY <1>5, <1>6, <1>7 DEF f, l, b

LEMMA WithoutElements ==
    ASSUME NEW l \in Seq(StickyKey), NEW K
    PROVE  Without(l, K) \in Seq(StickyKey) /\ Elements(Without(l, K)) = Elements(l) \ K
<1>1. Elements(l) \subseteq StickyKey
  BY DEF Elements
<1>2. QED
  BY <1>1, OnlyElements DEF Without

(* The list of an affinity value that stays consistent when keys go.       *)
LEMMA RemoveIndexed ==
    ASSUME NEW a \in AffinityType, NEW K, Indexed(a)
    PROVE  LET n == RemoveAssignments(a, K)
           IN  /\ Indexed(n) /\ Elements(n.lru) = Elements(a.lru) \ K
               /\ Len(n.lru) <= Len(a.lru)
<1> DEFINE n == RemoveAssignments(a, K)
<1>1. /\ n \in AffinityType /\ n.pending = a.pending
      /\ \A k \in StickyKey : n.assigned[k] = IF k \in K THEN Unbound ELSE a.assigned[k]
      /\ n.lru = Without(a.lru, K)
      /\ \A p \in Provider :
            n.byProvider[p] = a.byProvider[p] \ {k \in K : a.assigned[k].provider = p}
  BY RemoveShape
<1> HIDE DEF n
<1>2. a.lru \in Seq(StickyKey) /\ n.lru \in Seq(StickyKey)
  BY <1>1, AffinityFields
<1>3. Elements(n.lru) = Elements(a.lru) \ K
  BY <1>1, <1>2, WithoutElements
<1>4. \A i, j \in DOMAIN n.lru : n.lru[i] = n.lru[j] => i = j
  BY <1>1, <1>2, OnlyInjective DEF Without, Indexed
<1>5. Len(n.lru) <= Len(a.lru)
  <2>1. Elements(n.lru) \subseteq Elements(a.lru) \ {a.lru[i] : i \in 1..0}
    <3>1. 1..0 = {}
      OBVIOUS
    <3>2. QED
      BY <3>1, <1>3
  <2>2. Len(a.lru) \in Nat /\ 0 <= Len(a.lru) /\ Len(n.lru) \in Nat
    BY <1>2
  <2>3. Len(n.lru) <= Len(a.lru) - 0
    BY <2>1, <2>2, <1>2, <1>4, PrefixRemoved
  <2>4. QED
    BY <2>2, <2>3
<1>6. Elements(n.lru) = AssignedKeys(n)
  <2>1. Elements(a.lru) = AssignedKeys(a)
    BY DEF Indexed
  <2>2. QED
    BY <1>1, <1>3, <2>1, BoundFacts DEF AssignedKeys
<1>7. \A p \in Provider : n.byProvider[p] = {k \in StickyKey : n.assigned[k].provider = p}
  <2>1. SUFFICES ASSUME NEW p \in Provider
                 PROVE  n.byProvider[p] = {k \in StickyKey : n.assigned[k].provider = p}
    OBVIOUS
  <2>2. a.byProvider[p] = {k \in StickyKey : a.assigned[k].provider = p}
    BY DEF Indexed
  <2>3. p # NoProvider
    BY BoundFacts
  <2>4. QED
    BY <1>1, <2>2, <2>3, BoundFacts
<1>7a. \A i, j \in DOMAIN n.lru :
        i <= j => \E c, d \in DOMAIN a.lru : c <= d /\ n.lru[i] = a.lru[c] /\ n.lru[j] = a.lru[d]
  <2> DEFINE l == a.lru
             r == n.lru
  <2>1. r = Only(l, StickyKey \ K)
    BY <1>1 DEF Without
  <2>2. l \in Seq(StickyKey)
    BY <1>2
  <2> HIDE DEF l, r
  <2>3. \A i, j \in DOMAIN r :
            i <= j => \E c, d \in DOMAIN l : c <= d /\ r[i] = l[c] /\ r[j] = l[d]
    BY <2>1, <2>2, OnlyOrdered
  <2>4. QED
    BY <2>3 DEF l, r
<1>8. \A i, j \in DOMAIN n.lru : i <= j => n.assigned[n.lru[i]].idle >= n.assigned[n.lru[j]].idle
  <2>1. SUFFICES ASSUME NEW i \in DOMAIN n.lru, NEW j \in DOMAIN n.lru, i <= j
                 PROVE  n.assigned[n.lru[i]].idle >= n.assigned[n.lru[j]].idle
    OBVIOUS
  <2>2. PICK c, d \in DOMAIN a.lru : c <= d /\ n.lru[i] = a.lru[c] /\ n.lru[j] = a.lru[d]
    BY <2>1, <1>7a
  <2>3. a.assigned[a.lru[c]].idle >= a.assigned[a.lru[d]].idle
    BY <2>2 DEF Indexed
  <2>4. n.lru[i] \in Elements(n.lru) /\ n.lru[j] \in Elements(n.lru)
    BY DEF Elements
  <2>5. n.lru[i] \in StickyKey \ K /\ n.lru[j] \in StickyKey \ K
    BY <1>2, <1>3, <2>4
  <2>6. n.assigned[n.lru[i]] = a.assigned[n.lru[i]] /\ n.assigned[n.lru[j]] = a.assigned[n.lru[j]]
    BY <1>1, <2>5
  <2>7. QED
    BY <2>2, <2>3, <2>6
<1>9. \A k \in StickyKey : ~(IsBound(n.assigned[k]) /\ IsBound(n.pending[k]))
  BY <1>1, BoundFacts DEF Indexed
<1>10. Len(n.lru) <= StickyCapacity
  <2>1. Len(a.lru) <= StickyCapacity
    BY DEF Indexed
  <2>2. Len(a.lru) \in Nat /\ Len(n.lru) \in Nat /\ StickyCapacity \in Nat
    BY <1>2, AffinityAssumption
  <2>3. QED
    BY <2>1, <2>2, <1>5
<1>11. Indexed(n)
  BY <1>4, <1>6, <1>7, <1>8, <1>9, <1>10 DEF Indexed
<1>12. QED
  BY <1>3, <1>5, <1>11 DEF n

(* A change of the pending migrations alone.                               *)
LEMMA PendingShape ==
    ASSUME NEW a \in AffinityType, NEW w \in [StickyKey -> Binding \cup {Unbound}]
    PROVE  LET n == [a EXCEPT !.pending = w]
           IN  /\ n \in AffinityType /\ n.pending = w
               /\ n.assigned = a.assigned /\ n.lru = a.lru /\ n.byProvider = a.byProvider
               /\ (/\ Indexed(a)
                   /\ \A k \in StickyKey : IsBound(w[k]) => ~IsBound(a.assigned[k])) => Indexed(n)
<1> DEFINE n == [a EXCEPT !.pending = w]
<1>1. n \in AffinityType
  BY DEF AffinityType
<1>2. n.pending = w /\ n.assigned = a.assigned /\ n.lru = a.lru /\ n.byProvider = a.byProvider
  BY DEF AffinityType
<1> HIDE DEF n
<1>3. ASSUME Indexed(a), \A k \in StickyKey : IsBound(w[k]) => ~IsBound(a.assigned[k])
      PROVE  Indexed(n)
  <2>1. AssignedKeys(n) = AssignedKeys(a)
    BY <1>2 DEF AssignedKeys
  <2>2. QED
    BY <1>2, <1>3, <2>1 DEF Indexed
<1>4. QED
  BY <1>1, <1>2, <1>3 DEF n

(* A binding that is missing, or the one that was there.                   *)
From(b, c) == b = Unbound \/ SameSource(b, c)

LEMMA FromFacts ==
    /\ \A b : From(b, b) /\ From(Unbound, b)
    /\ \A b, c, d : From(b, c) /\ From(c, d) => From(b, d) \/ ~IsBound(b)
    /\ \A b, c : From(b, c) /\ IsBound(b) =>
            IsBound(c) /\ b.provider = c.provider /\ b.generation = c.generation
BY DEF From, SameSource, IsBound, Unbound

LEMMA UnboundUnique ==
    ASSUME NEW b \in Binding \cup {Unbound}, ~IsBound(b)
    PROVE  b = Unbound
BY BoundFacts

(* expireLocked                                                            *)
Expired(a) == {a.lru[i] : i \in {i \in DOMAIN a.lru : \A j \in 1..i :
                                        a.assigned[a.lru[j]].idle >= StickyTTL}}

LEMMA ExpireShape ==
    ASSUME NEW a \in AffinityType
    PROVE  LET n == Expire(a)
           IN  /\ n \in AffinityType
               /\ \A k \in StickyKey :
                    /\ n.assigned[k] = IF k \in Expired(a) THEN Unbound ELSE a.assigned[k]
                    /\ n.pending[k] = IF a.pending[k].idle >= StickyTTL THEN Unbound ELSE a.pending[k]
               /\ Indexed(a) => Indexed(n)
<1> DEFINE m == RemoveAssignments(a, Expired(a))
           w == [k \in StickyKey |-> IF a.pending[k].idle >= StickyTTL THEN Unbound ELSE a.pending[k]]
           n == [m EXCEPT !.pending = w]
<1>1. Expire(a) = n
  BY DEF Expire, Expired
<1>2. /\ m \in AffinityType
      /\ \A k \in StickyKey : m.assigned[k] = IF k \in Expired(a) THEN Unbound ELSE a.assigned[k]
  BY RemoveShape
<1>3. Indexed(a) => Indexed(m)
  BY RemoveIndexed
<1>4. w \in [StickyKey -> Binding \cup {Unbound}]
  BY AffinityFields
<1>5. \A k \in StickyKey : w[k] = IF a.pending[k].idle >= StickyTTL THEN Unbound ELSE a.pending[k]
  OBVIOUS
<1> HIDE DEF m, w
<1>6. /\ n \in AffinityType /\ n.pending = w /\ n.assigned = m.assigned
      /\ (/\ Indexed(m)
          /\ \A k \in StickyKey : IsBound(w[k]) => ~IsBound(m.assigned[k])) => Indexed(n)
  BY <1>2, <1>4, PendingShape
<1> HIDE DEF n
<1>7. ASSUME Indexed(a), NEW k \in StickyKey, IsBound(w[k])
      PROVE  ~IsBound(m.assigned[k])
  <2>1. IsBound(a.pending[k])
    BY <1>5, <1>7, BoundFacts
  <2>2. ~IsBound(a.assigned[k])
    BY <2>1, <1>7 DEF Indexed
  <2>3. QED
    BY <2>2, <1>2, BoundFacts
<1>8. QED
  BY <1>1, <1>2, <1>3, <1>5, <1>6, <1>7

(* The list is in the order of use, so what expireLocked leaves is fresh.  *)
LEMMA ExpireFresh ==
    ASSUME NEW a \in AffinityType, Indexed(a), NEW k \in StickyKey, IsBound(Expire(a).assigned[k])
    PROVE  a.assigned[k].idle < StickyTTL
<1>1. k \notin Expired(a) /\ IsBound(a.assigned[k])
  BY ExpireShape, BoundFacts
<1>2. k \in Elements(a.lru)
  BY <1>1 DEF Indexed, AssignedKeys
<1>3. PICK i \in DOMAIN a.lru : a.lru[i] = k
  BY <1>2 DEF Elements
<1>4. PICK j \in 1..i : ~(a.assigned[a.lru[j]].idle >= StickyTTL)
  BY <1>1, <1>3 DEF Expired
<1>5. a.lru \in Seq(StickyKey) /\ DOMAIN a.lru = 1..Len(a.lru) /\ Len(a.lru) \in Nat
  BY AffinityFields
<1>6. i \in Nat /\ j \in DOMAIN a.lru /\ j <= i
  BY <1>5
<1>7. a.assigned[a.lru[j]].idle >= a.assigned[a.lru[i]].idle
  BY <1>6 DEF Indexed
<1>8. \A b \in Binding \cup {Unbound} : b.idle \in Nat
  BY BoundFacts, AffinityAssumption
<1>9. a.lru[j] \in StickyKey
  BY <1>5, <1>6
<1>10. a.assigned[a.lru[j]].idle \in Nat /\ a.assigned[k].idle \in Nat
  BY <1>8, <1>9, AffinityFields
<1>11. StickyTTL \in Nat
  BY AffinityAssumption
<1>12. QED
  BY <1>3, <1>4, <1>7, <1>10, <1>11

(* Room is made for one more key.                                          *)
LEMMA RemoveOneShorter ==
    ASSUME NEW a \in AffinityType, Indexed(a), NEW k \in StickyKey
    PROVE  LET n == RemoveAssignments(a, {k})
           IN  /\ n \in AffinityType /\ Indexed(n) /\ ~IsBound(n.assigned[k])
               /\ IsBound(a.assigned[k]) => Len(n.lru) < StickyCapacity
<1> DEFINE n == RemoveAssignments(a, {k})
<1>1. n \in AffinityType /\ n.assigned[k] = Unbound
  BY RemoveShape
<1>2. Indexed(n) /\ Elements(n.lru) = Elements(a.lru) \ {k}
  BY RemoveIndexed
<1> HIDE DEF n
<1>3. ASSUME IsBound(a.assigned[k]) PROVE Len(n.lru) < StickyCapacity
  <2>1. k \in Elements(a.lru)
    BY <1>3 DEF Indexed, AssignedKeys
  <2>2. a.lru \in Seq(StickyKey) /\ n.lru \in Seq(StickyKey)
    BY <1>1, AffinityFields
  <2>3. IsFiniteSet(Elements(a.lru)) /\ Cardinality(Elements(a.lru)) = Len(a.lru)
    BY <2>2, LenIsCardinality DEF Indexed
  <2>4. IsFiniteSet(Elements(n.lru)) /\ Cardinality(Elements(n.lru)) = Len(n.lru)
    BY <1>2, <2>2, LenIsCardinality DEF Indexed
  <2>5. Cardinality(Elements(a.lru) \ {k}) = Cardinality(Elements(a.lru)) - 1
    BY <2>1, <2>3, FS_RemoveElement
  <2>6. Len(a.lru) \in Nat /\ Len(n.lru) \in Nat /\ StickyCapacity \in Nat
    BY <2>2, AffinityAssumption
  <2>7. Len(a.lru) <= StickyCapacity
    BY DEF Indexed
  <2>8. QED
    BY <1>2, <2>3, <2>4, <2>5, <2>6, <2>7
<1>4. QED
  BY <1>1, <1>2, <1>3, BoundFacts DEF n

LEMMA EvictRoom ==
    ASSUME NEW a \in AffinityType, Indexed(a)
    PROVE  LET n == Evict(a)
           IN  /\ n \in AffinityType /\ Indexed(n) /\ n.pending = a.pending
               /\ Len(n.lru) < StickyCapacity
               /\ \A k \in StickyKey : n.assigned[k] \in {a.assigned[k], Unbound}
<1> DEFINE d == Len(a.lru) - StickyCapacity + 1
           K == {a.lru[i] : i \in 1..d}
           n == RemoveAssignments(a, K)
<1>1. Evict(a) = n
  BY DEF Evict
<1>2. /\ n \in AffinityType /\ n.pending = a.pending
      /\ \A k \in StickyKey : n.assigned[k] \in {a.assigned[k], Unbound}
  BY RemoveShape
<1>3. Indexed(n) /\ Elements(n.lru) = Elements(a.lru) \ K /\ Len(n.lru) <= Len(a.lru)
  BY RemoveIndexed
<1> HIDE DEF n
<1>4. a.lru \in Seq(StickyKey) /\ n.lru \in Seq(StickyKey)
  BY <1>2, AffinityFields
<1>5. Len(a.lru) \in Nat /\ Len(n.lru) \in Nat /\ StickyCapacity \in Nat \ {0}
  BY <1>4, AffinityAssumption
<1>6. Len(a.lru) <= StickyCapacity
  BY DEF Indexed
<1>7. CASE Len(a.lru) < StickyCapacity
  BY <1>1, <1>2, <1>3, <1>5, <1>7
<1>8. CASE Len(a.lru) = StickyCapacity
  <2>1. d \in Nat /\ d <= Len(a.lru) /\ d = 1
    BY <1>5, <1>8
  <2>2. Elements(n.lru) \subseteq Elements(a.lru) \ {a.lru[i] : i \in 1..d}
    BY <1>3
  <2>3. \A i, j \in DOMAIN n.lru : n.lru[i] = n.lru[j] => i = j
    BY <1>3 DEF Indexed
  <2> HIDE DEF d
  <2>4. Len(n.lru) <= Len(a.lru) - d
    BY <2>1, <2>2, <2>3, <1>4, PrefixRemoved
  <2>5. Len(n.lru) < StickyCapacity
    BY <2>1, <2>4, <1>5, <1>8
  <2>6. QED
    BY <1>1, <1>2, <1>3, <2>5
<1>9. QED
  BY <1>5, <1>6, <1>7, <1>8

(* Binding b is added for key k, as the one used last.                     *)
Rebound(a, k, b) ==
    [assigned   |-> [a.assigned EXCEPT ![k] = b],
     lru        |-> Append(a.lru, k),
     byProvider |-> [a.byProvider EXCEPT ![b.provider] = @ \cup {k}],
     pending    |-> [a.pending EXCEPT ![k] = Unbound]]

LEMMA ReboundShape ==
    ASSUME NEW a \in AffinityType, NEW k \in StickyKey, NEW b \in Binding
    PROVE  LET n == Rebound(a, k, b)
           IN  /\ n \in AffinityType
               /\ n.assigned[k] = b /\ n.pending[k] = Unbound
               /\ \A j \in StickyKey \ {k} :
                    n.assigned[j] = a.assigned[j] /\ n.pending[j] = a.pending[j]
               /\ n.lru = Append(a.lru, k)
               /\ n.byProvider[b.provider] = a.byProvider[b.provider] \cup {k}
               /\ \A p \in Provider \ {b.provider} : n.byProvider[p] = a.byProvider[p]
<1> DEFINE f == [a.assigned EXCEPT ![k] = b]
           l == Append(a.lru, k)
           c == [a.byProvider EXCEPT ![b.provider] = @ \cup {k}]
           w == [a.pending EXCEPT ![k] = Unbound]
           n == [assigned |-> f, lru |-> l, byProvider |-> c, pending |-> w]
<1>1. /\ a.assigned \in [StickyKey -> Binding \cup {Unbound}] /\ a.lru \in Seq(StickyKey)
      /\ a.byProvider \in [Provider -> SUBSET StickyKey]
      /\ a.pending \in [StickyKey -> Binding \cup {Unbound}]
  BY AffinityFields
<1>2. f \in [StickyKey -> Binding \cup {Unbound}] /\ w \in [StickyKey -> Binding \cup {Unbound}]
  BY <1>1
<1>3. l \in Seq(StickyKey)
  BY <1>1
<1>4. c \in [Provider -> SUBSET StickyKey]
  <2>1. b.provider \in Provider
    BY BoundFacts
  <2>2. QED
    BY <1>1, <2>1
<1>5. /\ f[k] = b /\ w[k] = Unbound
      /\ \A j \in StickyKey \ {k} : f[j] = a.assigned[j] /\ w[j] = a.pending[j]
  BY <1>1
<1>6. /\ c[b.provider] = a.byProvider[b.provider] \cup {k}
      /\ \A p \in Provider \ {b.provider} : c[p] = a.byProvider[p]
  BY <1>1, BoundFacts
<1>7. Rebound(a, k, b) = n
  BY DEF Rebound
<1> HIDE DEF f, l, c, w
<1>8. n \in AffinityType
  BY <1>2, <1>3, <1>4, AffinityOf
<1>9. n.assigned = f /\ n.lru = l /\ n.byProvider = c /\ n.pending = w
  OBVIOUS
<1> HIDE DEF n
<1>10. QED
  BY <1>5, <1>6, <1>7, <1>8, <1>9 DEF l

LEMMA ReboundIndexed ==
    ASSUME NEW a \in AffinityType, Indexed(a), NEW k \in StickyKey, ~IsBound(a.assigned[k]),
           Len(a.lru) < StickyCapacity, NEW b \in Binding, b.idle = 0
    PROVE  Indexed(Rebound(a, k, b))
<1> DEFINE n == Rebound(a, k, b)
<1>1. /\ n \in AffinityType
      /\ n.assigned[k] = b /\ n.pending[k] = Unbound
      /\ \A j \in StickyKey \ {k} : n.assigned[j] = a.assigned[j] /\ n.pending[j] = a.pending[j]
      /\ n.lru = Append(a.lru, k)
      /\ n.byProvider[b.provider] = a.byProvider[b.provider] \cup {k}
      /\ \A p \in Provider \ {b.provider} : n.byProvider[p] = a.byProvider[p]
  BY ReboundShape
<1> HIDE DEF n
<1> DEFINE L == Len(a.lru)
<1>2. a.lru \in Seq(StickyKey) /\ L \in Nat /\ DOMAIN a.lru = 1..L
  BY AffinityFields
<1>3. /\ n.lru \in Seq(StickyKey) /\ Len(n.lru) = L + 1 /\ DOMAIN n.lru = 1..(L + 1)
      /\ n.lru[L + 1] = k /\ \A i \in 1..L : n.lru[i] = a.lru[i]
  BY <1>1, <1>2
<1>4. \A i \in 1..(L + 1) : i \in 1..L \/ i = L + 1
  BY <1>2
<1>4a. \A i \in 1..L : i \in 1..(L + 1)
  BY <1>2
<1>4b. L + 1 \in 1..(L + 1)
  BY <1>2
<1>5. a.assigned[k] = Unbound /\ a.assigned \in [StickyKey -> Binding \cup {Unbound}]
  BY AffinityFields, UnboundUnique
<1>6. Elements(a.lru) = AssignedKeys(a) /\ k \notin Elements(a.lru)
  BY DEF Indexed, AssignedKeys
<1>7. \A i \in 1..L : a.lru[i] \in Elements(a.lru) /\ a.lru[i] # k /\ a.lru[i] \in StickyKey
  BY <1>2, <1>6 DEF Elements
<1>8. Elements(n.lru) = AssignedKeys(n)
  <2>1. Elements(n.lru) = Elements(a.lru) \cup {k}
    BY <1>2, <1>3, <1>4, <1>4a, <1>4b DEF Elements
  <2>2. AssignedKeys(n) = AssignedKeys(a) \cup {k}
    BY <1>1, BoundFacts DEF AssignedKeys
  <2>3. QED
    BY <1>6, <2>1, <2>2
<1>9. \A p \in Provider : n.byProvider[p] = {j \in StickyKey : n.assigned[j].provider = p}
  <2>1. SUFFICES ASSUME NEW p \in Provider
                 PROVE  n.byProvider[p] = {j \in StickyKey : n.assigned[j].provider = p}
    OBVIOUS
  <2>2. a.byProvider[p] = {j \in StickyKey : a.assigned[j].provider = p}
    BY DEF Indexed
  <2>3. k \notin a.byProvider[p]
    BY <2>2, <1>5, BoundFacts
  <2>4. CASE p = b.provider
    BY <1>1, <2>2, <2>3, <2>4
  <2>5. CASE p # b.provider
    BY <1>1, <2>2, <2>3, <2>5
  <2>6. QED
    BY <2>4, <2>5
<1> HIDE DEF L
<1>10. \A i, j \in DOMAIN n.lru : n.lru[i] = n.lru[j] => i = j
  <2>1. SUFFICES ASSUME NEW i \in 1..(L + 1), NEW j \in 1..(L + 1), n.lru[i] = n.lru[j] PROVE i = j
    BY <1>3
  <2>2. CASE i \in 1..L /\ j \in 1..L
    <3>1. a.lru[i] = a.lru[j] /\ i \in DOMAIN a.lru /\ j \in DOMAIN a.lru
      BY <2>1, <2>2, <1>2, <1>3
    <3>2. QED
      BY <3>1 DEF Indexed
  <2>3. CASE i = L + 1 \/ j = L + 1
    BY <2>1, <2>3, <1>3, <1>4, <1>7
  <2>4. QED
    BY <2>2, <2>3, <1>4
<1>11. \A i, j \in DOMAIN n.lru : i <= j => n.assigned[n.lru[i]].idle >= n.assigned[n.lru[j]].idle
  <2>1. SUFFICES ASSUME NEW i \in 1..(L + 1), NEW j \in 1..(L + 1), i <= j
                 PROVE  n.assigned[n.lru[i]].idle >= n.assigned[n.lru[j]].idle
    BY <1>3
  <2>2. CASE j = L + 1
    <3>1. n.assigned[n.lru[j]].idle = 0
      BY <2>2, <1>1, <1>3
    <3>2. n.lru[i] \in StickyKey
      BY <1>3
    <3>3. n.assigned[n.lru[i]] \in Binding \cup {Unbound}
      BY <3>2, <1>1, AffinityFields
    <3>4. n.assigned[n.lru[i]].idle \in Nat
      BY <3>3, BoundFacts, AffinityAssumption
    <3>5. QED
      BY <3>1, <3>4
  <2>3. CASE j \in 1..L
    <3>1. i \in 1..L
      BY <2>1, <2>3, <1>2
    <3>2. n.lru[i] = a.lru[i] /\ n.lru[j] = a.lru[j] /\ i \in DOMAIN a.lru /\ j \in DOMAIN a.lru
      BY <3>1, <2>3, <1>2, <1>3
    <3>3. n.assigned[n.lru[i]] = a.assigned[a.lru[i]] /\ n.assigned[n.lru[j]] = a.assigned[a.lru[j]]
      BY <3>1, <3>2, <2>3, <1>1, <1>7
    <3>4. a.assigned[a.lru[i]].idle >= a.assigned[a.lru[j]].idle
      BY <3>2, <2>1 DEF Indexed
    <3>5. QED
      BY <3>3, <3>4
  <2>4. QED
    BY <2>2, <2>3, <1>4
<1>12. Len(n.lru) <= StickyCapacity
  BY <1>2, <1>3, AffinityAssumption DEF L
<1>13. \A j \in StickyKey : ~(IsBound(n.assigned[j]) /\ IsBound(n.pending[j]))
  BY <1>1, BoundFacts DEF Indexed
<1>14. QED
  BY <1>8, <1>9, <1>10, <1>11, <1>12, <1>13 DEF Indexed, n

(* n has only bindings and migrations of a.                                *)
Keeps(n, a) ==
    /\ n \in AffinityType /\ Indexed(n)
    /\ \A j \in StickyKey : From(n.assigned[j], a.assigned[j]) /\ From(n.pending[j], a.pending[j])

(* n has those, and one for k.                                             *)
Binds(n, a, k, p, generation) ==
    /\ n \in AffinityType /\ Indexed(n)
    /\ n.assigned[k].provider = p /\ n.assigned[k].generation = generation
    /\ n.pending[k] = Unbound
    /\ \A j \in StickyKey \ {k} :
            From(n.assigned[j], a.assigned[j]) /\ From(n.pending[j], a.pending[j])

NewBinding(p, generation, version) ==
    [provider |-> p, generation |-> generation, version |-> version, idle |-> 0]

LEMMA NewBindingType ==
    ASSUME NEW p \in Provider, NEW generation \in Generation, NEW version \in Version
    PROVE  LET b == NewBinding(p, generation, version)
           IN  /\ b \in Binding /\ b.idle = 0
               /\ b.provider = p /\ b.generation = generation /\ b.version = version
BY AffinityAssumption DEF NewBinding, Binding

LEMMA ExpireKeeps ==
    ASSUME NEW a \in AffinityType, Indexed(a)
    PROVE  Keeps(Expire(a), a)
BY ExpireShape, FromFacts DEF Keeps

LEMMA ReboundBinds ==
    ASSUME NEW a \in AffinityType, NEW m \in AffinityType, Indexed(m), NEW k \in StickyKey,
           ~IsBound(m.assigned[k]), Len(m.lru) < StickyCapacity,
           m.pending = a.pending, \A j \in StickyKey : m.assigned[j] \in {a.assigned[j], Unbound},
           NEW b \in Binding, b.idle = 0
    PROVE  Binds(Rebound(m, k, b), a, k, b.provider, b.generation)
<1> DEFINE n == Rebound(m, k, b)
<1>1. Indexed(n)
  BY ReboundIndexed
<1>2. /\ n \in AffinityType /\ n.assigned[k] = b /\ n.pending[k] = Unbound
      /\ \A j \in StickyKey \ {k} : n.assigned[j] = m.assigned[j] /\ n.pending[j] = m.pending[j]
  BY ReboundShape
<1> HIDE DEF n
<1>3. QED
  BY <1>1, <1>2, FromFacts DEF Binds, n

(* putAssignmentLocked                                                     *)
LEMMA PutBinds ==
    ASSUME NEW a \in AffinityType, Indexed(a), NEW k \in StickyKey,
           NEW p \in Provider, NEW generation \in Generation, NEW version \in Version
    PROVE  Binds(PutAssignment(a, k, p, generation, version), a, k, p, generation)
<1> DEFINE m == RemoveAssignments(a, {k})
           e == Evict(m)
           b == NewBinding(p, generation, version)
<1>1. m \in AffinityType /\ Indexed(m) /\ ~IsBound(m.assigned[k])
  BY RemoveOneShorter
<1>1a. m.pending = a.pending /\ \A j \in StickyKey : m.assigned[j] \in {a.assigned[j], Unbound}
  BY RemoveShape
<1> HIDE DEF m
<1>2. /\ e \in AffinityType /\ Indexed(e) /\ e.pending = m.pending /\ Len(e.lru) < StickyCapacity
      /\ \A j \in StickyKey : e.assigned[j] \in {m.assigned[j], Unbound}
  BY <1>1, EvictRoom
<1>2b. PutAssignment(a, k, p, generation, version)
        = [e EXCEPT !.assigned[k] = b, !.lru = Append(@, k), !.byProvider[p] = @ \cup {k},
                    !.pending[k] = Unbound]
  BY DEF PutAssignment, NewBinding, m
<1> HIDE DEF e
<1>3. b \in Binding /\ b.idle = 0 /\ b.provider = p /\ b.generation = generation
  BY NewBindingType
<1> HIDE DEF b
<1>4. PutAssignment(a, k, p, generation, version) = Rebound(e, k, b)
  BY <1>2, <1>2b, <1>3 DEF Rebound, AffinityType
<1>5. ~IsBound(e.assigned[k]) /\ e.pending = a.pending
      /\ \A j \in StickyKey : e.assigned[j] \in {a.assigned[j], Unbound}
  BY <1>1, <1>1a, <1>2, BoundFacts
<1>6. Binds(Rebound(e, k, b), a, k, b.provider, b.generation)
  BY <1>2, <1>3, <1>5, ReboundBinds
<1>7. QED
  BY <1>3, <1>4, <1>6

(* touchAssignmentLocked                                                   *)
LEMMA TouchKeeps ==
    ASSUME NEW a \in AffinityType, Indexed(a), NEW k \in StickyKey, IsBound(a.assigned[k])
    PROVE  Keeps(TouchAssignment(a, k), a)
<1> DEFINE m == RemoveAssignments(a, {k})
           b == [a.assigned[k] EXCEPT !.idle = 0]
           n == TouchAssignment(a, k)
<1>1. m \in AffinityType /\ Indexed(m) /\ ~IsBound(m.assigned[k]) /\ Len(m.lru) < StickyCapacity
  BY RemoveOneShorter
<1>2. /\ m.pending = a.pending /\ m.lru = Without(a.lru, {k})
      /\ \A j \in StickyKey : m.assigned[j] = IF j \in {k} THEN Unbound ELSE a.assigned[j]
      /\ \A p \in Provider :
            m.byProvider[p] = a.byProvider[p] \ {j \in {k} : a.assigned[j].provider = p}
  BY RemoveShape
<1> HIDE DEF m
<1>3. a.assigned[k] \in Binding /\ a.pending[k] = Unbound
  <2>1. a.assigned[k] \in Binding \cup {Unbound} /\ a.pending[k] \in Binding \cup {Unbound}
    BY AffinityFields
  <2>2. QED
    BY <2>1, UnboundUnique, BoundFacts DEF Indexed
<1>4. /\ b \in Binding /\ b.idle = 0 /\ b.provider = a.assigned[k].provider
      /\ b.generation = a.assigned[k].generation /\ b.version = a.assigned[k].version
      /\ b.provider \in Provider
  BY <1>3, AffinityAssumption DEF Binding
<1>5. n = [a EXCEPT !.assigned = [a.assigned EXCEPT ![k] = b], !.lru = Append(Without(a.lru, {k}), k)]
  BY DEF TouchAssignment, AffinityType
<1> HIDE DEF b
<1>6. [a.assigned EXCEPT ![k] = b] = [m.assigned EXCEPT ![k] = b]
  <2>1. a.assigned \in [StickyKey -> Binding \cup {Unbound}]
        /\ m.assigned \in [StickyKey -> Binding \cup {Unbound}]
    BY <1>1, AffinityFields
  <2>2. QED
    BY <2>1, <1>2
<1>7. a.byProvider = [m.byProvider EXCEPT ![b.provider] = @ \cup {k}]
  <2>1. a.byProvider \in [Provider -> SUBSET StickyKey] /\ m.byProvider \in [Provider -> SUBSET StickyKey]
    BY <1>1, AffinityFields
  <2>2. k \in a.byProvider[b.provider]
    BY <1>4 DEF Indexed
  <2>3. ASSUME NEW p \in Provider
        PROVE  a.byProvider[p] = [m.byProvider EXCEPT ![b.provider] = @ \cup {k}][p]
    <3>1. m.byProvider[p] = a.byProvider[p] \ {j \in {k} : a.assigned[j].provider = p}
      BY <1>2
    <3>2. CASE p = b.provider
      <4>1. a.byProvider[p] = m.byProvider[p] \cup {k}
        BY <2>2, <3>1, <3>2
      <4>2. QED
        BY <4>1, <2>1, <3>2
    <3>3. CASE p # b.provider
      <4>1. a.byProvider[p] = m.byProvider[p]
        BY <1>4, <3>1, <3>3
      <4>2. QED
        BY <4>1, <2>1, <3>3
    <3>4. QED
      BY <3>2, <3>3
  <2>4. QED
    BY <2>1, <2>3
<1>8. a.pending = [m.pending EXCEPT ![k] = Unbound]
  <2>1. a.pending \in [StickyKey -> Binding \cup {Unbound}]
    BY AffinityFields
  <2>2. QED
    BY <2>1, <1>2, <1>3
<1>9. n = [assigned |-> [a.assigned EXCEPT ![k] = b], lru |-> Append(Without(a.lru, {k}), k),
           byProvider |-> a.byProvider, pending |-> a.pending]
  BY <1>5 DEF AffinityType
<1> HIDE DEF n
<1>10. n = Rebound(m, k, b)
  BY <1>2, <1>6, <1>7, <1>8, <1>9 DEF Rebound
<1>11. /\ n \in AffinityType /\ n.assigned[k] = b /\ n.pending[k] = Unbound
       /\ \A j \in StickyKey \ {k} : n.assigned[j] = m.assigned[j] /\ n.pending[j] = m.pending[j]
  BY <1>1, <1>4, <1>10, ReboundShape
<1>12. Indexed(n)
  BY <1>1, <1>4, <1>10, ReboundIndexed
<1>13. From(b, a.assigned[k])
  BY <1>4 DEF From, SameSource
<1>14. QED
  BY <1>2, <1>11, <1>12, <1>13, FromFacts DEF Keeps, n

(* The end of migrateAssignmentLocked with its source in place.            *)
LEMMA MoveBinds ==
    ASSUME NEW a \in AffinityType, Indexed(a), NEW k \in StickyKey, IsBound(a.assigned[k]),
           NEW p \in Provider, NEW generation \in Generation, NEW version \in Version
    PROVE  Binds(MoveAssignment(a, k, p, generation, version), a, k, p, generation)
<1> DEFINE m == RemoveAssignments(a, {k})
           b == NewBinding(p, generation, version)
           c == [q \in Provider |->
                    IF q = p THEN a.byProvider[q] \cup {k} ELSE a.byProvider[q] \ {k}]
           n == MoveAssignment(a, k, p, generation, version)
           t == TouchAssignment(a, k)
           f == [a.assigned EXCEPT ![k] = [a.assigned[k] EXCEPT !.idle = 0]]
<1>1. m \in AffinityType /\ Indexed(m) /\ ~IsBound(m.assigned[k]) /\ Len(m.lru) < StickyCapacity
  BY RemoveOneShorter
<1>2. /\ m.pending = a.pending /\ m.lru = Without(a.lru, {k})
      /\ \A j \in StickyKey : m.assigned[j] = IF j \in {k} THEN Unbound ELSE a.assigned[j]
      /\ \A q \in Provider :
            m.byProvider[q] = a.byProvider[q] \ {j \in {k} : a.assigned[j].provider = q}
  BY RemoveShape
<1> HIDE DEF m
<1>3. b \in Binding /\ b.idle = 0 /\ b.provider = p /\ b.generation = generation
  BY NewBindingType
<1>4. n = [t EXCEPT !.assigned[k] = b, !.byProvider = c, !.pending[k] = Unbound]
  BY DEF MoveAssignment, NewBinding
<1> HIDE DEF b, n
<1>5. t = [a EXCEPT !.assigned = f, !.lru = Append(Without(a.lru, {k}), k)]
  BY DEF TouchAssignment, AffinityType
<1> HIDE DEF f, t
<1>5a. t = [assigned |-> f, lru |-> Append(Without(a.lru, {k}), k),
            byProvider |-> a.byProvider, pending |-> a.pending]
  BY <1>5 DEF AffinityType
<1>6. \A q \in Provider : c[q] = [m.byProvider EXCEPT ![p] = @ \cup {k}][q]
  <2>1. SUFFICES ASSUME NEW q \in Provider
                 PROVE  c[q] = [m.byProvider EXCEPT ![p] = @ \cup {k}][q]
    OBVIOUS
  <2>2. m.byProvider \in [Provider -> SUBSET StickyKey]
    BY <1>1, AffinityFields
  <2>3. m.byProvider[q] = a.byProvider[q] \ {j \in {k} : a.assigned[j].provider = q}
    BY <1>2
  <2>4. a.byProvider[q] = {j \in StickyKey : a.assigned[j].provider = q}
    BY DEF Indexed
  <2>5. CASE q = p
    <3>1. c[q] = a.byProvider[q] \cup {k}
      BY <2>5
    <3> HIDE DEF c
    <3>2. m.byProvider[q] \cup {k} = a.byProvider[q] \cup {k}
      BY <2>3
    <3>3. QED
      BY <2>2, <2>5, <3>1, <3>2
  <2>6. CASE q # p
    <3>1. c[q] = a.byProvider[q] \ {k}
      BY <2>6
    <3> HIDE DEF c
    <3>2. m.byProvider[q] = a.byProvider[q] \ {k}
      BY <2>3, <2>4
    <3>3. QED
      BY <2>2, <2>6, <3>1, <3>2
  <2>7. QED
    BY <2>5, <2>6
<1>7. c = [m.byProvider EXCEPT ![p] = @ \cup {k}]
  <2>1. m.byProvider \in [Provider -> SUBSET StickyKey] /\ c = [q \in Provider |-> c[q]]
    BY <1>1, AffinityFields
  <2> HIDE DEF c
  <2>2. QED
    BY <2>1, <1>6
<1> HIDE DEF c
<1>8. [f EXCEPT ![k] = b] = [m.assigned EXCEPT ![k] = b]
  <2>1. a.assigned \in [StickyKey -> Binding \cup {Unbound}]
        /\ m.assigned \in [StickyKey -> Binding \cup {Unbound}]
    BY <1>1, AffinityFields
  <2>2. QED
    BY <2>1, <1>2 DEF f
<1>9. n = Rebound(m, k, b)
  BY <1>2, <1>3, <1>4, <1>5a, <1>7, <1>8 DEF Rebound
<1>10. \A j \in StickyKey : m.assigned[j] \in {a.assigned[j], Unbound}
  BY <1>2
<1>11. Binds(Rebound(m, k, b), a, k, b.provider, b.generation)
  BY <1>1, <1>2, <1>3, <1>10, ReboundBinds
<1>12. QED
  BY <1>3, <1>9, <1>11 DEF n

(* migrateAssignmentLocked: it binds only what still stands for its source. *)
LEMMA MigrateShape ==
    ASSUME NEW a \in AffinityType, Indexed(a), NEW k \in StickyKey, NEW source,
           NEW p \in Provider, NEW generation \in Generation, NEW version \in Version
    PROVE  LET n == MigrateAssignment(a, k, source, p, generation, version)
           IN  \/ n = a
               \/ /\ Binds(n, a, k, p, generation)
                  /\ \/ IsBound(a.assigned[k]) /\ SameSource(a.assigned[k], source)
                     \/ IsBound(a.pending[k]) /\ SameSource(a.pending[k], source)
<1>1. Binds(PutAssignment(a, k, p, generation, version), a, k, p, generation)
  BY PutBinds
<1>2. IsBound(a.assigned[k]) =>
        Binds(MoveAssignment(a, k, p, generation, version), a, k, p, generation)
  BY MoveBinds
<1>3. QED
  BY <1>1, <1>2 DEF MigrateAssignment

(* The removal for a cooldown: the bindings of one provider become pending *)
(* migrations.                                                             *)
LEMMA SuspendShape ==
    ASSUME NEW a \in AffinityType, Indexed(a), NEW p \in Provider, NEW generation, NEW K
    PROVE  LET n == SuspendAssignments(a, p, generation, K)
               Gone(k) == k \in K /\ a.assigned[k].provider = p
                            /\ a.assigned[k].generation = generation
           IN  /\ n \in AffinityType /\ Indexed(n)
               /\ \A k \in StickyKey : n.assigned[k] = IF Gone(k) THEN Unbound ELSE a.assigned[k]
               /\ \A k \in StickyKey : n.pending[k] = IF Gone(k) THEN a.assigned[k] ELSE a.pending[k]
<1> DEFINE gone == {k \in a.byProvider[p] \cap K : a.assigned[k].generation = generation}
           Gone(k) == k \in K /\ a.assigned[k].provider = p
                            /\ a.assigned[k].generation = generation
           m == RemoveAssignments(a, gone)
           w == [k \in StickyKey |-> IF k \in gone THEN a.assigned[k] ELSE a.pending[k]]
           n == [m EXCEPT !.pending = w]
<1>1. \A k \in StickyKey : k \in gone <=> Gone(k)
  <2>1. a.byProvider[p] = {k \in StickyKey : a.assigned[k].provider = p}
    BY DEF Indexed
  <2>2. QED
    BY <2>1
<1>2. SuspendAssignments(a, p, generation, K) = n
  BY DEF SuspendAssignments
<1>3. w \in [StickyKey -> Binding \cup {Unbound}]
  BY AffinityFields
<1>4. \A k \in StickyKey : w[k] = IF k \in gone THEN a.assigned[k] ELSE a.pending[k]
  OBVIOUS
<1> HIDE DEF gone, w
<1>5. /\ m \in AffinityType
      /\ \A k \in StickyKey : m.assigned[k] = IF k \in gone THEN Unbound ELSE a.assigned[k]
  BY RemoveShape
<1>6. Indexed(m)
  BY RemoveIndexed
<1> HIDE DEF m
<1>7. /\ n \in AffinityType /\ n.pending = w /\ n.assigned = m.assigned
      /\ (/\ Indexed(m)
          /\ \A k \in StickyKey : IsBound(w[k]) => ~IsBound(m.assigned[k])) => Indexed(n)
  BY <1>3, <1>5, PendingShape
<1> HIDE DEF n
<1>8. \A k \in StickyKey : IsBound(w[k]) => ~IsBound(m.assigned[k])
  BY <1>4, <1>5, BoundFacts DEF Indexed
<1>9. QED
  BY <1>1, <1>2, <1>4, <1>5, <1>6, <1>7, <1>8

LEMMA ReconcileAffinityShape ==
    ASSUME NEW a \in AffinityType, Indexed(a), NEW K, NEW M
    PROVE  LET n == ReconcileAffinity(a, K, M)
           IN  /\ Keeps(n, a)
               /\ \A k \in StickyKey : n.assigned[k] = IF k \in K THEN Unbound ELSE a.assigned[k]
               /\ \A k \in StickyKey : n.pending[k] = IF k \in M THEN Unbound ELSE a.pending[k]
<1> DEFINE m == RemoveAssignments(a, K)
           w == [k \in StickyKey |-> IF k \in M THEN Unbound ELSE a.pending[k]]
           n == [m EXCEPT !.pending = w]
<1>1. ReconcileAffinity(a, K, M) = n
  BY DEF ReconcileAffinity
<1>2. w \in [StickyKey -> Binding \cup {Unbound}]
  BY AffinityFields
<1>3. \A k \in StickyKey : w[k] = IF k \in M THEN Unbound ELSE a.pending[k]
  OBVIOUS
<1> HIDE DEF w
<1>4. /\ m \in AffinityType
      /\ \A k \in StickyKey : m.assigned[k] = IF k \in K THEN Unbound ELSE a.assigned[k]
  BY RemoveShape
<1>5. Indexed(m)
  BY RemoveIndexed
<1> HIDE DEF m
<1>6. /\ n \in AffinityType /\ n.pending = w /\ n.assigned = m.assigned
      /\ (/\ Indexed(m)
          /\ \A k \in StickyKey : IsBound(w[k]) => ~IsBound(m.assigned[k])) => Indexed(n)
  BY <1>2, <1>4, PendingShape
<1> HIDE DEF n
<1>7. \A k \in StickyKey : IsBound(w[k]) => ~IsBound(m.assigned[k])
  BY <1>3, <1>4, BoundFacts DEF Indexed
<1>8. \A k \in StickyKey : n.assigned[k] = IF k \in K THEN Unbound ELSE a.assigned[k]
  BY <1>4, <1>6
<1>9. \A k \in StickyKey : n.pending[k] = IF k \in M THEN Unbound ELSE a.pending[k]
  BY <1>3, <1>6
<1>10. Keeps(n, a)
  BY <1>5, <1>6, <1>7, <1>8, <1>9, FromFacts DEF Keeps
<1>11. QED
  BY <1>1, <1>8, <1>9, <1>10

(* The first Acquire of a request.                                         *)
LEMMA InitializeAffinityKeeps ==
    ASSUME NEW q, NEW a \in AffinityType, Indexed(a), HasSession(q) => q.key \in StickyKey
    PROVE  Keeps(InitializeAffinity(q, a), a)
<1>1. CASE ~IsCurrent(q) \/ ~HasSession(q)
  <2>1. InitializeAffinity(q, a) = a
    BY <1>1 DEF InitializeAffinity
  <2>2. QED
    BY <2>1, FromFacts DEF Keeps
<1>2. CASE IsCurrent(q) /\ HasSession(q)
  <2> DEFINE m == IF IsBound(a.assigned[q.key]) /\ ~StillCandidate(q, a.assigned[q.key])
                  THEN RemoveAssignments(a, {q.key}) ELSE a
             w == [m.pending EXCEPT ![q.key] = Unbound]
             n == [m EXCEPT !.pending = w]
  <2>0. q.key \in StickyKey
    BY <1>2
  <2>1. m \in AffinityType /\ Indexed(m) /\ m.pending = a.pending
    BY RemoveShape, RemoveIndexed
  <2>2. \A j \in StickyKey : m.assigned[j] \in {a.assigned[j], Unbound}
    BY RemoveShape
  <2>3. InitializeAffinity(q, a) = [m EXCEPT !.pending[q.key] = Unbound]
    BY <1>2 DEF InitializeAffinity
  <2> HIDE DEF m
  <2>4. InitializeAffinity(q, a) = n
    BY <2>1, <2>3 DEF AffinityType
  <2>5. w \in [StickyKey -> Binding \cup {Unbound}]
        /\ \A j \in StickyKey : w[j] = IF j = q.key THEN Unbound ELSE m.pending[j]
    BY <2>0, <2>1, AffinityFields
  <2> HIDE DEF w
  <2>6. /\ n \in AffinityType /\ n.pending = w /\ n.assigned = m.assigned
        /\ (/\ Indexed(m)
            /\ \A k \in StickyKey : IsBound(w[k]) => ~IsBound(m.assigned[k])) => Indexed(n)
    BY <2>1, <2>5, PendingShape
  <2> HIDE DEF n
  <2>7. \A k \in StickyKey : IsBound(w[k]) => ~IsBound(m.assigned[k])
    BY <2>1, <2>5, BoundFacts DEF Indexed
  <2>8. QED
    BY <2>1, <2>2, <2>4, <2>5, <2>6, <2>7, FromFacts DEF Keeps
<1>3. QED
  BY <1>1, <1>2

(* Time passes for all bindings alike.                                     *)
Older(b) == IF IsBound(b) /\ b.idle < StickyTTL THEN [b EXCEPT !.idle = @ + 1] ELSE b

LEMMA OlderFacts ==
    ASSUME NEW b \in Binding \cup {Unbound}
    PROVE  /\ Older(b) \in Binding \cup {Unbound}
           /\ SameSource(Older(b), b) /\ (IsBound(Older(b)) <=> IsBound(b))
           /\ IsBound(b) => Older(b).idle = IF b.idle < StickyTTL THEN b.idle + 1 ELSE b.idle
<1>1. CASE b \in Binding
  <2>1. IsBound(b) /\ b.idle \in 0..StickyTTL /\ StickyTTL \in Nat
    BY <1>1, BoundFacts, AffinityAssumption
  <2>2. CASE b.idle < StickyTTL
    <3>1. Older(b) = [b EXCEPT !.idle = b.idle + 1]
      BY <2>1, <2>2 DEF Older
    <3>2. b.idle + 1 \in 0..StickyTTL
      BY <2>1, <2>2
    <3>3. QED
      BY <1>1, <2>1, <2>2, <3>1, <3>2, BoundFacts DEF Binding, SameSource, IsBound
  <2>3. CASE ~(b.idle < StickyTTL)
    BY <2>1, <2>3 DEF Older, SameSource
  <2>4. QED
    BY <2>2, <2>3
<1>2. CASE b = Unbound
  BY <1>2, BoundFacts DEF Older, SameSource
<1>3. QED
  BY <1>1, <1>2

LEMMA AgeAffinityKeeps ==
    ASSUME NEW a \in AffinityType, Indexed(a)
    PROVE  Keeps(AgeAffinity(a), a)
<1> DEFINE f == [k \in StickyKey |-> Older(a.assigned[k])]
           w == [k \in StickyKey |-> Older(a.pending[k])]
           n == [a EXCEPT !.assigned = f, !.pending = w]
<1>1. AgeAffinity(a) = n
  BY DEF AgeAffinity, Older
<1>2. \A k \in StickyKey : a.assigned[k] \in Binding \cup {Unbound} /\ a.pending[k] \in Binding \cup {Unbound}
  BY AffinityFields
<1>3. f \in [StickyKey -> Binding \cup {Unbound}] /\ w \in [StickyKey -> Binding \cup {Unbound}]
  BY <1>2, OlderFacts
<1>4. \A k \in StickyKey : f[k] = Older(a.assigned[k]) /\ w[k] = Older(a.pending[k])
  OBVIOUS
<1> HIDE DEF f, w
<1>5. n \in AffinityType /\ n.assigned = f /\ n.pending = w /\ n.lru = a.lru /\ n.byProvider = a.byProvider
  BY <1>3 DEF AffinityType
<1> HIDE DEF n
<1>6. \A k \in StickyKey : SameSource(f[k], a.assigned[k]) /\ SameSource(w[k], a.pending[k])
                            /\ (IsBound(f[k]) <=> IsBound(a.assigned[k]))
                            /\ (IsBound(w[k]) <=> IsBound(a.pending[k]))
  BY <1>2, <1>4, OlderFacts
<1>7. AssignedKeys(n) = AssignedKeys(a)
  BY <1>5, <1>6 DEF AssignedKeys
<1>8. \A i, j \in DOMAIN n.lru : i <= j => n.assigned[n.lru[i]].idle >= n.assigned[n.lru[j]].idle
  <2>1. SUFFICES ASSUME NEW i \in DOMAIN a.lru, NEW j \in DOMAIN a.lru, i <= j
                 PROVE  f[a.lru[i]].idle >= f[a.lru[j]].idle
    BY <1>5
  <2> DEFINE c == a.assigned[a.lru[i]]
             d == a.assigned[a.lru[j]]
  <2>2. c.idle >= d.idle
    BY <2>1 DEF Indexed
  <2>3. a.lru[i] \in AssignedKeys(a) /\ a.lru[j] \in AssignedKeys(a)
    <3>1. Elements(a.lru) = AssignedKeys(a)
      BY DEF Indexed
    <3>2. QED
      BY <3>1 DEF Elements
  <2>4. c \in Binding /\ d \in Binding /\ f[a.lru[i]] = Older(c) /\ f[a.lru[j]] = Older(d)
    BY <2>3, <1>2, <1>4, BoundFacts DEF AssignedKeys
  <2> HIDE DEF c, d
  <2>5. /\ Older(c).idle = IF c.idle < StickyTTL THEN c.idle + 1 ELSE c.idle
        /\ Older(d).idle = IF d.idle < StickyTTL THEN d.idle + 1 ELSE d.idle
    BY <2>4, OlderFacts, BoundFacts
  <2>6. c.idle \in 0..StickyTTL /\ d.idle \in 0..StickyTTL /\ StickyTTL \in Nat
    BY <2>4, BoundFacts, AffinityAssumption
  <2>7. QED
    BY <2>2, <2>4, <2>5, <2>6
<1>9. \A p \in Provider : n.byProvider[p] = {k \in StickyKey : n.assigned[k].provider = p}
  BY <1>5, <1>6 DEF Indexed, SameSource
<1>10. \A k \in StickyKey : ~(IsBound(n.assigned[k]) /\ IsBound(n.pending[k]))
  BY <1>5, <1>6 DEF Indexed
<1>11. Indexed(n)
  BY <1>5, <1>7, <1>8, <1>9, <1>10 DEF Indexed
<1>12. QED
  BY <1>1, <1>5, <1>6, <1>11 DEF Keeps, From

-----------------------------------------------------------------------------
(* Snapshots, keys and the compiled form of a provider.                    *)

LEMMA SnapshotFacts ==
    ASSUME NEW snap \in Snapshot
    PROVE  /\ DOMAIN snap \subseteq Provider
           /\ \A p \in DOMAIN snap : snap[p] \in SchedulerProvider
           /\ snap \in [DOMAIN snap -> SchedulerProvider]
BY DEF Snapshot

LEMMA SupportsFacts ==
    ASSUME NEW snap \in Snapshot, NEW p, NEW m, Supports(snap, p, m)
    PROVE  /\ p \in DOMAIN snap /\ p \in Provider /\ snap[p] \in SchedulerProvider
           /\ snap[p].enabled /\ snap[p].priority \in Priority
           /\ snap[p].generation \in Generation /\ snap[p].epoch \in Nat
           /\ snap[p].disableHealth \in BOOLEAN
<1>1. p \in DOMAIN snap /\ snap[p].enabled
  BY DEF Supports, StaticActive
<1>2. p \in Provider /\ snap[p] \in SchedulerProvider
  BY <1>1, SnapshotFacts
<1>3. QED
  BY <1>1, <1>2 DEF SchedulerProvider

LEMMA TrafficFacts ==
    ASSUME NEW key \in Traffic
    PROVE  /\ key[2] \in Model /\ key[3] \in RequestType /\ <<key[2], key[3]>> \in Channel
           /\ key[1] # NoSession => key \in StickyKey
<1>1. key \in (Session \cup {NoSession}) \X Model \X RequestType
  BY SchedulerAssumption
<1>2. QED
  BY <1>1 DEF StickyKey, Channel

LEMMA StickyKeyFacts ==
    ASSUME NEW k \in StickyKey
    PROVE  k[2] \in Model /\ k[3] \in RequestType /\ <<k[2], k[3]>> \in EntryId /\ Global \in EntryId
BY DEF StickyKey, Channel, EntryId

(* What health sees of a provider.                                         *)
Core(c) == [generation |-> c.generation, epoch |-> c.epoch,
            disableHealth |-> c.disableHealth, models |-> c.models]

LEMMA CoreFacts ==
    ASSUME NEW c \in SchedulerProvider
    PROVE  /\ Core(c) \in CompiledProvider
           /\ Core(c).generation = c.generation /\ Core(c).epoch = c.epoch
           /\ Core(c).disableHealth = c.disableHealth /\ Core(c).models = c.models
           /\ \A ps : ActiveMatches(ps, c) <=> ActiveMatches(ps, Core(c))
           /\ \A ps : ReconcileProvider(ps, c) = ReconcileProvider(ps, Core(c))
<1>1. /\ Core(c) \in CompiledProvider
      /\ Core(c).generation = c.generation /\ Core(c).epoch = c.epoch
      /\ Core(c).disableHealth = c.disableHealth /\ Core(c).models = c.models
  BY DEF Core, SchedulerProvider, CompiledProvider
<1>2. \A ps : ActiveMatches(ps, c) <=> ActiveMatches(ps, Core(c))
  BY <1>1 DEF ActiveMatches, Matches
<1>3. NewScope(c) = NewScope(Core(c))
  BY <1>1 DEF NewScope
<1>4. ASSUME NEW ps PROVE ReconcileProvider(ps, c) = ReconcileProvider(ps, Core(c))
  <2> DEFINE d == Core(c)
  <2>1. /\ d.epoch = c.epoch /\ d.models = c.models /\ NewScope(c) = NewScope(d)
        /\ ActiveMatches(ps, c) <=> ActiveMatches(ps, d)
    BY <1>1, <1>2, <1>3
  <2> HIDE DEF d
  <2>2. CASE ActiveMatches(ps, c)
    BY <2>1, <2>2 DEF ReconcileProvider, d
  <2>3. CASE ~ActiveMatches(ps, c)
    BY <2>1, <2>3 DEF ReconcileProvider, d
  <2>4. QED
    BY <2>2, <2>3
<1>5. QED
  BY <1>1, <1>2, <1>4

LEMMA KeyFacts ==
    ASSUME NEW c \in SchedulerProvider, NEW m \in Model, NEW t \in RequestType
    PROVE  LET k == Key(c, m, t)
           IN  /\ k \in HealthKey /\ k.model = m /\ k.requestType = t
               /\ k.disableHealth = c.disableHealth
               /\ KeyEntries(k) = {Global, <<m, t>>}
               /\ \A sc : Matches(sc, k) <=> Matches(sc, c)
               /\ \A ps : ActiveMatches(ps, k) <=> ActiveMatches(ps, c)
<1> DEFINE k == Key(c, m, t)
<1>1. /\ k \in HealthKey /\ k.model = m /\ k.requestType = t
      /\ k.generation = c.generation /\ k.epoch = c.epoch /\ k.disableHealth = c.disableHealth
  BY DEF Key, HealthKey, SchedulerProvider
<1> HIDE DEF k
<1>2. KeyEntries(k) = {Global, <<m, t>>}
  BY <1>1 DEF KeyEntries
<1>3. \A sc : Matches(sc, k) <=> Matches(sc, c)
  BY <1>1 DEF Matches
<1>4. \A ps : ActiveMatches(ps, k) <=> ActiveMatches(ps, c)
  BY <1>3 DEF ActiveMatches
<1>5. QED
  BY <1>1, <1>2, <1>3, <1>4 DEF k

-----------------------------------------------------------------------------
(* The scan of Acquire.                                                    *)

LEMMA ConcatElements ==
    ASSUME NEW T, NEW s \in Seq(T), NEW t \in Seq(T)
    PROVE  s \o t \in Seq(T) /\ Elements(s \o t) = Elements(s) \cup Elements(t)
<1> DEFINE r == s \o t
           a == Len(s)
           b == Len(t)
<1>1. /\ r \in Seq(T) /\ Len(r) = a + b /\ a \in Nat /\ b \in Nat
      /\ \A i \in 1..(a + b) : r[i] = IF i <= a THEN s[i] ELSE t[i - a]
      /\ DOMAIN r = 1..(a + b) /\ DOMAIN s = 1..a /\ DOMAIN t = 1..b
  OBVIOUS
<1> HIDE DEF r, a, b
<1>2. Elements(r) \subseteq Elements(s) \cup Elements(t)
  <2>1. SUFFICES ASSUME NEW i \in 1..(a + b) PROVE r[i] \in Elements(s) \cup Elements(t)
    BY <1>1 DEF Elements
  <2>2. CASE i <= a
    <3>1. i \in 1..a /\ r[i] = s[i]
      BY <1>1, <2>2
    <3>2. QED
      BY <3>1, <1>1 DEF Elements
  <2>3. CASE ~(i <= a)
    <3>1. i - a \in 1..b /\ r[i] = t[i - a]
      BY <1>1, <2>3
    <3>2. QED
      BY <3>1, <1>1 DEF Elements
  <2>4. QED
    BY <2>2, <2>3
<1>3. Elements(s) \subseteq Elements(r)
  <2>1. SUFFICES ASSUME NEW i \in 1..a PROVE s[i] \in Elements(r)
    BY <1>1 DEF Elements
  <2>2. i \in 1..(a + b) /\ r[i] = s[i]
    BY <1>1
  <2>3. QED
    BY <2>2, <1>1 DEF Elements
<1>4. Elements(t) \subseteq Elements(r)
  <2>1. SUFFICES ASSUME NEW i \in 1..b PROVE t[i] \in Elements(r)
    BY <1>1 DEF Elements
  <2>2. a + i \in 1..(a + b) /\ ~(a + i <= a) /\ (a + i) - a = i
    BY <1>1
  <2>3. r[a + i] = t[i]
    BY <2>2, <1>1
  <2>4. QED
    BY <2>2, <2>3, <1>1 DEF Elements
<1>5. QED
  BY <1>1, <1>2, <1>3, <1>4 DEF r

LEMMA ScanElements ==
    ASSUME NEW q, NEW n, q.ordered[n] \in Seq(Provider)
    PROVE  /\ ScanOrder(q, n) \in Seq(Provider)
           /\ Elements(ScanOrder(q, n)) \subseteq Elements(q.ordered[n])
           /\ ~RetriesSticky(q, n) => Elements(ScanOrder(q, n)) = Elements(q.ordered[n])
<1> DEFINE seq == q.ordered[n]
           s == Only(seq, Provider \ q.visited)
           t == Only(seq, q.visited)
<1>1. seq \in Seq(Provider) /\ Elements(seq) \subseteq Provider
  BY DEF Elements
<1>2. s \in Seq(Provider) /\ Elements(s) = Elements(seq) \cap (Provider \ q.visited)
  BY <1>1, OnlyElements
<1>3. t \in Seq(Provider) /\ Elements(t) = Elements(seq) \cap q.visited
  BY <1>1, OnlyElements
<1>4. CASE RetriesSticky(q, n)
  <2>1. q.source.provider \in Elements(seq) /\ ScanOrder(q, n) = <<q.source.provider>>
    BY <1>4 DEF RetriesSticky, ScanOrder
  <2>2. Elements(<<q.source.provider>>) = {q.source.provider}
    BY DEF Elements
  <2>3. q.source.provider \in Provider
    BY <1>1, <2>1
  <2>4. <<q.source.provider>> \in Seq(Provider)
    BY <2>3
  <2>5. QED
    BY <1>4, <2>1, <2>2, <2>4
<1>5. CASE ~RetriesSticky(q, n)
  <2>1. ScanOrder(q, n) = s \o t
    BY <1>5 DEF ScanOrder
  <2> HIDE DEF s, t
  <2>2. s \o t \in Seq(Provider) /\ Elements(s \o t) = Elements(s) \cup Elements(t)
    BY <1>2, <1>3, ConcatElements
  <2>3. QED
    BY <1>1, <1>2, <1>3, <1>5, <2>1, <2>2
<1>6. QED
  BY <1>4, <1>5

(* Providers are only asked in a tier that is reached.                     *)
LEMMA TriedReached ==
    ASSUME NEW q, \A n \in Priority : q.ordered[n] \in Seq(Provider), NEW p \in Tried(q)
    PROVE  \E n \in Priority :
                /\ IsReached(q, n) /\ p \in Elements(q.ordered[n])
                /\ \E i \in DOMAIN ScanOrder(q, n) :
                        /\ ScanOrder(q, n)[i] = p
                        /\ \A j \in 1..(i - 1) : ~DecisionFor(q, ScanOrder(q, n)[j]).available
<1>1. PICK n \in Priority : /\ IsReached(q, n)
                            /\ p \in {ScanOrder(q, n)[i] : i \in {i \in DOMAIN ScanOrder(q, n) :
                                  \A j \in 1..(i - 1) : ~DecisionFor(q, ScanOrder(q, n)[j]).available}}
  BY DEF Tried
<1>2. PICK i \in DOMAIN ScanOrder(q, n) :
            /\ ScanOrder(q, n)[i] = p
            /\ \A j \in 1..(i - 1) : ~DecisionFor(q, ScanOrder(q, n)[j]).available
  BY <1>1
<1>3. p \in Elements(ScanOrder(q, n))
  BY <1>2 DEF Elements
<1>4. p \in Elements(q.ordered[n])
  BY <1>3, ScanElements
<1>5. QED
  BY <1>1, <1>2, <1>4

(* The scan stops at the first provider that is available.                 *)
LEMMA OneWinner ==
    ASSUME NEW q, \A n \in Priority : q.ordered[n] \in Seq(Provider),
           NEW p \in Winners(q), NEW h \in Winners(q)
    PROVE  p = h
<1>0. p \in Tried(q) /\ h \in Tried(q) /\ DecisionFor(q, p).available /\ DecisionFor(q, h).available
  BY DEF Winners
<1>1. PICK n \in Priority :
                /\ IsReached(q, n) /\ p \in Elements(q.ordered[n])
                /\ \E i \in DOMAIN ScanOrder(q, n) :
                        /\ ScanOrder(q, n)[i] = p
                        /\ \A j \in 1..(i - 1) : ~DecisionFor(q, ScanOrder(q, n)[j]).available
  BY <1>0, TriedReached
<1>2. PICK m \in Priority :
                /\ IsReached(q, m) /\ h \in Elements(q.ordered[m])
                /\ \E i \in DOMAIN ScanOrder(q, m) :
                        /\ ScanOrder(q, m)[i] = h
                        /\ \A j \in 1..(i - 1) : ~DecisionFor(q, ScanOrder(q, m)[j]).available
  BY <1>0, TriedReached
<1>3. ~(n > m) /\ ~(m > n)
  BY <1>0, <1>1, <1>2 DEF IsReached, FallsThrough
<1>4. n = m
  <2>1. n \in Nat /\ m \in Nat
    BY SchedulerAssumption
  <2>2. QED
    BY <1>3, <2>1
<1> DEFINE scan == ScanOrder(q, n)
<1>5. scan \in Seq(Provider)
  BY ScanElements
<1> HIDE DEF scan
<1>6. PICK i \in DOMAIN scan : scan[i] = p /\ \A j \in 1..(i - 1) : ~DecisionFor(q, scan[j]).available
  BY <1>1 DEF scan
<1>7. PICK j \in DOMAIN scan : scan[j] = h /\ \A c \in 1..(j - 1) : ~DecisionFor(q, scan[c]).available
  BY <1>2, <1>4 DEF scan
<1>8. i \in Nat /\ j \in Nat /\ i >= 1 /\ j >= 1
  BY <1>5
<1>9. ~(i < j)
  <2>1. ASSUME i < j PROVE FALSE
    <3>1. i \in 1..(j - 1)
      BY <2>1, <1>8
    <3>2. QED
      BY <3>1, <1>0, <1>6, <1>7
  <2>2. QED
    BY <2>1
<1>10. ~(j < i)
  <2>1. ASSUME j < i PROVE FALSE
    <3>1. j \in 1..(i - 1)
      BY <2>1, <1>8
    <3>2. QED
      BY <3>1, <1>0, <1>6, <1>7
  <2>2. QED
    BY <2>1
<1>11. i = j
  BY <1>8, <1>9, <1>10
<1>12. QED
  BY <1>6, <1>7, <1>11

-----------------------------------------------------------------------------
(* What a step does to one provider's scopes.                              *)

(* The active scope stays, and no breaker of it opens or counts a failure. *)
Quiet(ps, new) ==
    /\ new.active = ps.active
    /\ ps.active # NoSlot =>
        /\ SameKey(ps.scope[ps.active], new.scope[ps.active])
        /\ \A x \in EntryId :
            LET e == ps.scope[ps.active].entry[x]
                f == new.scope[ps.active].entry[x]
            IN  /\ f.state = "cooldown" => e.state = "cooldown"
                /\ e.consecutiveFailures = 0 => f.consecutiveFailures = 0

(* The scopes that leases of ls come from keep their keys.                 *)
HeldKept(ps, new, ls, p) ==
    \A s \in Slot : Out(ls, p, s) # {} => SameKey(ps.scope[s], new.scope[s])

LEMMA SameKeyFacts ==
    /\ \A sc : SameKey(sc, sc)
    /\ \A sc, new, k : SameKey(sc, new) => (Matches(sc, k) <=> Matches(new, k))
BY DEF SameKey, Matches

LEMMA ScopesFields ==
    ASSUME NEW ps \in ProviderScopes
    PROVE  /\ ps.active \in Slot \cup {NoSlot} /\ ps.retired \in Seq(Slot)
           /\ \A s \in Slot : /\ ps.scope[s] \in Scope
                              /\ \A x \in EntryId : ps.scope[s].entry[x] \in Entry
<1>1. ps.active \in Slot \cup {NoSlot} /\ ps.retired \in Seq(Slot) /\ ps.scope \in [Slot -> Scope]
  BY DEF ProviderScopes
<1>2. \A sc \in Scope : \A x \in EntryId : sc.entry[x] \in Entry
  BY DEF Scope
<1>3. QED
  BY <1>1, <1>2

LEMMA AdvanceCooldownQuiet ==
    ASSUME NEW e \in Entry
    PROVE  LET g == AdvanceCooldown(e)
           IN  /\ g.state = "cooldown" => e.state = "cooldown" /\ e.cooldownLeft > 0
               /\ g.consecutiveFailures = e.consecutiveFailures
BY DEF AdvanceCooldown, Entry

LEMMA FreshQuiet ==
    /\ \A d : NewEntry(InitialState(d)).state # "cooldown"
    /\ \A d : NewEntry(d).consecutiveFailures = 0
    /\ AbsentEntry.state # "cooldown" /\ AbsentEntry.consecutiveFailures = 0
BY DEF NewEntry, InitialState, AbsentEntry

LEMMA QuietSame == ASSUME NEW ps, NEW ls, NEW p PROVE Quiet(ps, ps) /\ HeldKept(ps, ps, ls, p)
BY SameKeyFacts DEF Quiet, HeldKept

LEMMA AcquireQuiet ==
    ASSUME NEW ps \in ProviderScopes, NEW k \in HealthKey, HasSlot(ps, k),
           NEW new, \/ new = Inspect(ps, k)
                    \/ \E t \in Token : new = Grant(ps, k, t),
           NEW ls, NEW p, Filed(ps), Accounted(ps, ls, p)
    PROVE  Quiet(ps, new) /\ HeldKept(ps, new, ls, p)
<1> DEFINE s == SlotForAcquire(ps, k)
<1>1. /\ s \in Slot /\ new.active = ps.active
      /\ \A r \in Slot : r # s => new.scope[r] = ps.scope[r]
      /\ s = ps.active => Consulted(ps, k) = ps.scope[s]
  BY AcquiredElsewhere
<1>2. /\ Consulted(ps, k) \in Scope
      /\ \/ Found(ps, k) /\ s \notin FreeSlots(ps)
         \/ ~Found(ps, k) /\ s \in FreeSlots(ps)
  BY InspectShape
<1>3. Found(ps, k) => Consulted(ps, k) = ps.scope[s]
  BY DEF Consulted
<1>3a. Global \in EntryId
  BY DEF EntryId
<1>4. SameKey(Consulted(ps, k), new.scope[s])
  BY <1>3a, AcquiredEntry
<1>5. ASSUME NEW x \in EntryId
      PROVE  LET e == Consulted(ps, k).entry[x]
                 f == new.scope[s].entry[x]
             IN  /\ f.state = "cooldown" => e.state = "cooldown"
                 /\ e.consecutiveFailures = 0 => f.consecutiveFailures = 0
  <2> DEFINE e == Consulted(ps, k).entry[x]
             f == new.scope[s].entry[x]
             d == Consulted(ps, k).disableHealth
  <2>1. PICK g \in Entry : /\ g \in {e, AdvanceCooldown(e)} \/ (~Exists(e) /\ g = NewEntry(InitialState(d)))
                           /\ SameBreaker(g, f)
    BY AcquiredEntry
  <2>2. e \in Entry
    BY <1>2 DEF Scope
  <2> HIDE DEF e, f, d
  <2>3. f.state = g.state /\ f.consecutiveFailures = g.consecutiveFailures
    BY <2>1 DEF SameBreaker
  <2>4. /\ g.state = "cooldown" => e.state = "cooldown"
        /\ e.consecutiveFailures = 0 => g.consecutiveFailures = 0
    BY <2>1, <2>2, AdvanceCooldownQuiet, FreshQuiet
  <2>5. QED
    BY <2>3, <2>4 DEF e, f
<1> HIDE DEF s
<1>6. Quiet(ps, new)
  <2>1. CASE ps.active = NoSlot
    BY <1>1, <2>1 DEF Quiet
  <2>2. CASE ps.active # NoSlot /\ ps.active = s
    <3>1. Consulted(ps, k) = ps.scope[ps.active]
      BY <1>1, <2>2
    <3>2. QED
      BY <1>1, <1>4, <1>5, <2>2, <3>1 DEF Quiet
  <2>3. CASE ps.active # NoSlot /\ ps.active # s
    <3>1. ps.active \in Slot
      BY <2>3, ScopesFields
    <3>2. new.scope[ps.active] = ps.scope[ps.active]
      BY <1>1, <2>3, <3>1
    <3>3. QED
      BY <1>1, <3>2, SameKeyFacts DEF Quiet
  <2>4. QED
    BY <2>1, <2>2, <2>3
<1>7. HeldKept(ps, new, ls, p)
  <2>1. SUFFICES ASSUME NEW r \in Slot, Out(ls, p, r) # {} PROVE SameKey(ps.scope[r], new.scope[r])
    BY DEF HeldKept
  <2>2. CASE r = s
    <3>1. r \notin FreeSlots(ps)
      BY <2>1, FreeSlotUnused
    <3>2. QED
      BY <1>2, <1>3, <1>4, <2>2, <3>1
  <2>3. CASE r # s
    BY <1>1, <2>3, SameKeyFacts
  <2>4. QED
    BY <2>2, <2>3
<1>8. QED
  BY <1>6, <1>7

(* A scope that Acquire finds, or creates, has the key it asks for.        *)
LEMMA ConsultedMatches ==
    ASSUME NEW ps \in ProviderScopes, NEW k \in HealthKey, HasSlot(ps, k)
    PROVE  /\ Matches(Consulted(ps, k), k)
           /\ Found(ps, k) => /\ Matches(ps.scope[SlotForAcquire(ps, k)], k)
                              /\ SlotForAcquire(ps, k) \in {ps.active} \cup RetiredSlots(ps)
                              /\ SlotForAcquire(ps, k) # NoSlot
           /\ ActiveMatches(ps, k) => SlotForAcquire(ps, k) = ps.active
<1> DEFINE s == SlotForAcquire(ps, k)
           M == RetiredMatches(ps, k)
<1>0. s \in Slot /\ s # NoSlot
  BY SlotForAcquireType, ConstantsAssumption, Zenon
<1>1. CASE ActiveMatches(ps, k)
  <2>1. s = ps.active
    BY <1>1 DEF SlotForAcquire
  <2>2. QED
    BY <1>0, <1>1, <2>1 DEF ActiveMatches, Consulted, Found
<1>2. CASE ~ActiveMatches(ps, k) /\ M # {}
  <2>1. ps.retired \in Seq(Slot)
    BY ScopesFields
  <2>2. M \in SUBSET (1..Len(ps.retired)) /\ Len(ps.retired) \in Nat
    BY <2>1 DEF RetiredMatches
  <2>3. \E i \in M : \A j \in M : j <= i
    <3> HIDE DEF M
    <3>1. QED
      BY <1>2, <2>2, MaxExists
  <2> DEFINE i == CHOOSE i \in M : \A j \in M : j <= i
  <2>4. i \in M
    BY <2>3
  <2>5. s = ps.retired[i]
    BY <1>2 DEF SlotForAcquire
  <2> HIDE DEF i
  <2>6. i \in DOMAIN ps.retired /\ Matches(ps.scope[ps.retired[i]], k)
    BY <2>4 DEF RetiredMatches
  <2>7. s \in RetiredSlots(ps)
    BY <2>5, <2>6 DEF RetiredSlots
  <2>8. QED
    BY <1>0, <1>2, <2>5, <2>6, <2>7 DEF Consulted, Found
<1>3. CASE ~ActiveMatches(ps, k) /\ M = {}
  <2>1. ~Found(ps, k)
    BY <1>3 DEF Found
  <2>2. Matches(NewRetiredScope(k), k)
    BY DEF Matches, NewRetiredScope
  <2>3. QED
    BY <1>3, <2>1, <2>2 DEF Consulted
<1>4. QED
  BY <1>1, <1>2, <1>3

LEMMA KeyEntriesType ==
    ASSUME NEW k \in HealthKey
    PROVE  KeyEntries(k) \subseteq EntryId
BY DEF KeyEntries, HealthKey, EntryId, Channel

LEMMA DecisionShape ==
    ASSUME NEW ps \in ProviderScopes, NEW k \in HealthKey, HasSlot(ps, k)
    PROVE  LET sc == Touch(Consulted(ps, k), k)
           IN  /\ Decision(ps, k).available <=> \A x \in KeyEntries(k) : Available(sc.entry[x])
               /\ Decision(ps, k).cooling <=> \E x \in KeyEntries(k) : sc.entry[x].state = "cooldown"
               /\ sc \in Scope
<1> DEFINE s == SlotForAcquire(ps, k)
           sc == Touch(Consulted(ps, k), k)
<1>1. /\ s \in Slot /\ Consulted(ps, k) \in Scope
      /\ Inspect(ps, k).scope = [ps.scope EXCEPT ![s] = sc]
  BY InspectShape
<1>2. ps.scope \in [Slot -> Scope]
  BY DEF ProviderScopes
<1>3. sc \in Scope
  BY <1>1, TouchType
<1> HIDE DEF sc
<1>4. Inspect(ps, k).scope[s] = sc
  BY <1>1, <1>2
<1>5. /\ Decision(ps, k).available <=> \A x \in KeyEntries(k) : Available(sc.entry[x])
      /\ Decision(ps, k).cooling <=> \E x \in KeyEntries(k) : sc.entry[x].state = "cooldown"
  <2> DEFINE av == \A x \in KeyEntries(k) : Available(Inspect(ps, k).scope[s].entry[x])
             co == \E x \in KeyEntries(k) : Inspect(ps, k).scope[s].entry[x].state = "cooldown"
  <2>1. Decision(ps, k) = [available |-> av, cooling |-> co]
    BY DEF Decision
  <2>2. av <=> \A x \in KeyEntries(k) : Available(sc.entry[x])
    BY <1>4
  <2>3. co <=> \E x \in KeyEntries(k) : sc.entry[x].state = "cooldown"
    BY <1>4
  <2> HIDE DEF av, co
  <2>4. Decision(ps, k).available = av /\ Decision(ps, k).cooling = co
    BY <2>1
  <2>5. QED
    BY <2>2, <2>3, <2>4
<1>6. QED
  BY <1>3, <1>5 DEF sc

(* The breakers of a granted lease are closed or half-open.                *)
LEMMA GrantOpen ==
    ASSUME NEW ps \in ProviderScopes, NEW k \in HealthKey, HasSlot(ps, k),
           Decision(ps, k).available, NEW t \in Token
    PROVE  /\ \A x \in KeyEntries(k) :
                Grant(ps, k, t).scope[SlotForAcquire(ps, k)].entry[x].state # "cooldown"
           /\ Matches(Grant(ps, k, t).scope[SlotForAcquire(ps, k)], k)
<1> DEFINE s == SlotForAcquire(ps, k)
           sc == Touch(Consulted(ps, k), k)
           new == Lend(sc, k, t)
<1>1. /\ sc \in Scope /\ \A x \in KeyEntries(k) : Available(sc.entry[x])
  BY DecisionShape
<1>2. s \in Slot /\ Consulted(ps, k) \in Scope
  BY InspectShape
<1>2a. Grant(ps, k, t).scope = [ps.scope EXCEPT ![s] = new]
  BY GrantShape
<1>2b. SameKey(Consulted(ps, k), sc)
  BY <1>2, TouchShape
<1>3. ps.scope \in [Slot -> Scope]
  BY DEF ProviderScopes
<1> HIDE DEF sc
<1>4. /\ SameKey(sc, new)
      /\ \A x \in EntryId : new.entry[x] = IF x \notin KeyEntries(k) THEN sc.entry[x] ELSE Lent(sc.entry[x], x, t)
  BY <1>1, LendShape
<1> HIDE DEF new
<1>5. Grant(ps, k, t).scope[s] = new
  BY <1>2, <1>2a, <1>3
<1>6. ASSUME NEW x \in KeyEntries(k) PROVE new.entry[x].state # "cooldown"
  <2>1. x \in EntryId /\ sc.entry[x] \in Entry
    BY <1>1, KeyEntriesType DEF Scope
  <2>2. SameBreaker(sc.entry[x], Lent(sc.entry[x], x, t))
    BY <2>1, LentEntry
  <2>3. new.entry[x].state = sc.entry[x].state
    BY <1>4, <2>1, <2>2 DEF SameBreaker
  <2>4. QED
    BY <2>3, <1>1 DEF Available
<1>7. Matches(new, k)
  BY <1>2b, <1>4, ConsultedMatches, SameKeyFacts
<1>8. QED
  BY <1>5, <1>6, <1>7

(* A decision that says cooling is about a cooldown that is not over.      *)
LEMMA CoolingDecision ==
    ASSUME NEW ps \in ProviderScopes, NEW k \in HealthKey, HasSlot(ps, k),
           ~Decision(ps, k).available, Decision(ps, k).cooling
    PROVE  \E s \in {ps.active} \cup RetiredSlots(ps) :
                /\ s # NoSlot /\ Matches(ps.scope[s], k)
                /\ \E x \in KeyEntries(k) : Cooling(ps.scope[s].entry[x])
<1> DEFINE s == SlotForAcquire(ps, k)
<1>1. Found(ps, k)
  BY UnavailableFound
<1>2. /\ s \in {ps.active} \cup RetiredSlots(ps) /\ s # NoSlot /\ Matches(ps.scope[s], k)
      /\ Consulted(ps, k) = ps.scope[s]
  BY <1>1, ConsultedMatches DEF Consulted
<1>3. s \in Slot /\ ps.scope[s] \in Scope
  BY SlotForAcquireType, ScopesFields
<1> HIDE DEF s
<1>4. PICK x \in KeyEntries(k) : Touch(ps.scope[s], k).entry[x].state = "cooldown"
  BY <1>2, DecisionShape
<1>5. x \in EntryId /\ ps.scope[s].entry[x] \in Entry
  BY <1>3, KeyEntriesType DEF Scope
<1>6. Touch(ps.scope[s], k).entry[x] =
        IF ~Exists(ps.scope[s].entry[x]) THEN NewEntry(InitialState(ps.scope[s].disableHealth))
        ELSE AdvanceCooldown(ps.scope[s].entry[x])
  BY <1>3, <1>5, TouchShape
<1>7. AdvanceCooldown(ps.scope[s].entry[x]).state = "cooldown"
  BY <1>4, <1>6, FreshQuiet
<1>8. Cooling(ps.scope[s].entry[x])
  BY <1>5, <1>7, AdvanceCooldownQuiet DEF Cooling
<1>9. QED
  BY <1>2, <1>8

(* A provider without health checks is always available.                   *)
LEMMA DisabledAvailable ==
    ASSUME NEW ps \in ProviderScopes, NEW k \in HealthKey, HasSlot(ps, k),
           k.disableHealth, SoundScopes(ps)
    PROVE  Decision(ps, k).available
<1> DEFINE sc == Consulted(ps, k)
<1>1. sc \in Scope /\ sc.disableHealth
  <2>1. Matches(sc, k)
    BY ConsultedMatches
  <2>2. sc \in Scope
    BY InspectShape
  <2>3. QED
    BY <2>1, <2>2 DEF Matches
<1>2. ScopeSound(sc)
  <2>1. CASE Found(ps, k)
    <3>1. sc = ps.scope[SlotForAcquire(ps, k)] /\ SlotForAcquire(ps, k) \in Slot
      BY <2>1, SlotForAcquireType DEF Consulted
    <3>2. QED
      BY <3>1 DEF SoundScopes, AllSound
  <2>2. CASE ~Found(ps, k)
    BY <2>2, FreshScopesSound DEF Consulted
  <2>3. QED
    BY <2>1, <2>2
<1> HIDE DEF sc
<1>3. ASSUME NEW x \in KeyEntries(k) PROVE Available(Touch(sc, k).entry[x])
  <2> DEFINE e == sc.entry[x]
  <2>1. x \in EntryId /\ e \in Entry
    BY <1>1, KeyEntriesType DEF Scope
  <2>2. Touch(sc, k).entry[x] = IF ~Exists(e) THEN NewEntry(InitialState(sc.disableHealth))
                                ELSE AdvanceCooldown(e)
    BY <1>1, <2>1, TouchShape
  <2>3. Sound(e, sc.disableHealth)
    BY <1>2, <2>1 DEF ScopeSound
  <2> HIDE DEF e
  <2>4. CASE Exists(e)
    <3>1. e.state = "disabled"
      BY <1>1, <2>3, <2>4 DEF Sound
    <3>2. AdvanceCooldown(e) = e
      BY <3>1 DEF AdvanceCooldown
    <3>3. QED
      BY <2>2, <2>4, <3>1, <3>2 DEF Available
  <2>5. CASE ~Exists(e)
    <3>1. InitialState(sc.disableHealth) = "disabled"
      BY <1>1 DEF InitialState
    <3>2. NewEntry(InitialState(sc.disableHealth)).state = "disabled"
      BY <3>1 DEF NewEntry
    <3>3. QED
      BY <2>2, <2>5, <3>2 DEF Available
  <2>6. QED
    BY <2>4, <2>5
<1>4. QED
  BY <1>3, DecisionShape DEF sc

(* What a report does to an entry of the active scope.                     *)
LEMMA ReportEntryOpens ==
    ASSUME NEW e \in Entry, NEW x, NEW t, NEW o \in Outcome,
           NEW obs \in Observation \cup {NoObservation}
    PROVE  LET f == ReportEntry(e, x, t, o, obs)
           IN  /\ f.state = "cooldown" =>
                    \/ e.state = "cooldown" /\ o.class # "none"
                    \/ FailsEntry(o, x) /\ EntersCooldown(e, t, IsImmediate(o))
               /\ o.class = "none" => f.state # "cooldown"
<1> DEFINE w == ObserveLatest(e, o, obs)
           b == IsImmediate(o)
<1>1. /\ w \in Entry /\ w.state = e.state /\ w.probeToken = e.probeToken
      /\ w.sinceFailure = e.sinceFailure /\ w.consecutiveFailures = e.consecutiveFailures
  BY ObserveLatestType, Zenon DEF ObserveLatest, Entry
<1> HIDE DEF w
<1>2. EntersCooldown(w, t, b) <=> EntersCooldown(e, t, b)
  <2>1. RecordConsecutiveFailure(w).consecutiveFailures = RecordConsecutiveFailure(e).consecutiveFailures
    BY <1>1 DEF RecordConsecutiveFailure, Entry
  <2>2. QED
    BY <1>1, <2>1 DEF EntersCooldown
<1>3. /\ ReleaseProbe(e, t).state = e.state /\ ReleaseProbe(w, t).state = w.state
  BY <1>1 DEF ReleaseProbe, Entry
<1>4. ApplySuccess(w).state # "cooldown"
  BY <1>1 DEF ApplySuccess, Entry
<1>5. ApplyFailure(w, t, o, b).state = "cooldown" => w.state = "cooldown" \/ EntersCooldown(w, t, b)
  <2>1. CASE w.state \in {"disabled", "cooldown"}
    BY <2>1 DEF ApplyFailure
  <2>2. CASE w.state = "half_open"
    BY <2>2 DEF ApplyFailure, EntersCooldown
  <2>3. CASE w.state \notin {"disabled", "cooldown", "half_open"}
    <3>1. CASE EntersCooldown(w, t, b)
      BY <3>1
    <3>2. CASE ~EntersCooldown(w, t, b)
      <4>1. ApplyFailure(w, t, o, b) = [RecordConsecutiveFailure(w) EXCEPT !.state = "degraded"]
        BY <2>3, <3>2 DEF ApplyFailure
      <4>2. RecordConsecutiveFailure(w) \in Entry
        BY <1>1, RecordConsecutiveFailureType
      <4>3. QED
        BY <4>1, <4>2 DEF Entry
    <3>3. QED
      BY <3>1, <3>2
  <2>4. QED
    BY <2>1, <2>2, <2>3
<1>6. CASE o.class = "none"
  <2>1. ~FailsEntry(o, x) /\ o.class # "neutral"
    BY <1>6 DEF FailsEntry, IsGlobalFailure, IsChannelFailure
  <2>2. ReportEntry(e, x, t, o, obs) = ApplySuccess(w)
    BY <1>6, <2>1 DEF ReportEntry, w
  <2>3. QED
    BY <1>4, <2>2
<1>7. CASE o.class # "none" /\ FailsEntry(o, x)
  <2>1. o.class # "neutral"
    BY <1>7 DEF FailsEntry, IsGlobalFailure, IsChannelFailure
  <2>2. ReportEntry(e, x, t, o, obs) = ApplyFailure(w, t, o, b)
    BY <1>7, <2>1 DEF ReportEntry, w
  <2>3. QED
    BY <1>1, <1>2, <1>5, <1>7, <2>2
<1>8. CASE o.class # "none" /\ ~FailsEntry(o, x)
  <2>1. ReportEntry(e, x, t, o, obs) \in {ReleaseProbe(w, t), ReleaseProbe(e, t)}
    BY <1>8 DEF ReportEntry, w
  <2>2. QED
    BY <1>1, <1>3, <1>8, <2>1
<1>9. QED
  BY <1>6, <1>7, <1>8

(* What a report does to the active scope, entry by entry.                 *)
LEMMA ReportActive ==
    ASSUME NEW ps \in ProviderScopes, NEW l \in Lease, NEW t \in Token,
           NEW o \in Outcome, NEW obs \in Observation \cup {NoObservation},
           NEW x \in EntryId, ps.active # NoSlot
    PROVE  LET new == ReportProvider(ps, l, t, o, obs)
               e == ps.scope[ps.active].entry[x]
               f == new.scope[ps.active].entry[x]
           IN  /\ f.state = "cooldown" =>
                    \/ e.state = "cooldown"
                    \/ /\ l.slot = ps.active /\ x \in {Global, l.channel}
                       /\ FailsEntry(o, x) /\ EntersCooldown(e, t, IsImmediate(o))
               /\ (l.slot = ps.active /\ Live(ps, l) /\ o.class = "none" /\ x \in {Global, l.channel})
                    => f.state # "cooldown"
               /\ o.class = "client_canceled" =>
                    /\ f.state = "cooldown" => e.state = "cooldown"
                    /\ e.consecutiveFailures = 0 => f.consecutiveFailures = 0
<1> DEFINE s == ps.active
           done == Settled(ps, l, t, o, obs)
           new == ReportProvider(ps, l, t, o, obs)
           e == ps.scope[s].entry[x]
           f == new.scope[s].entry[x]
           g == Reported(ps, l, t, o, obs, x)
<1>1. s \in Slot /\ e \in Entry /\ ps.scope \in [Slot -> Scope]
  BY ScopesFields DEF ProviderScopes
<1>2. CASE l.slot # s
  <2>1. new.scope[s] = ps.scope[s]
    BY <1>1, <1>2, ReportElsewhere
  <2> HIDE DEF new
  <2>2. f = e
    BY <2>1
  <2>3. QED
    BY <1>2, <2>2 DEF new
<1>3. CASE l.slot = s
  <2>0. \/ /\ l.slot = ps.active \/ done.activeLeases # 0
           /\ new.scope = [ps.scope EXCEPT ![l.slot] = done]
        \/ /\ l.slot # ps.active /\ done.activeLeases = 0
           /\ new.scope = [ps.scope EXCEPT ![l.slot] = FreeScope]
    BY ReportShape
  <2>1. new.scope = [ps.scope EXCEPT ![l.slot] = done]
    BY <1>3, <2>0
  <2>2. new.scope[s] = done
    BY <2>1, <1>1, <1>3
  <2>3. g \in Entry /\ (done.entry[x] = AbsentEntry \/ done.entry[x] = g
                         \/ \E n : done.entry[x] = Counting(g, n))
    BY SettledShape
  <2>4. g = IF x \notin {Global, l.channel} THEN e
            ELSE IF Live(ps, l) THEN ReportEntry(e, x, t, o, obs) ELSE ReleaseProbe(e, t)
    BY <1>3 DEF Reported
  <2> HIDE DEF done, new, g, e
  <2>5. f = AbsentEntry \/ SameBreaker(g, f)
    BY <2>2, <2>3, CountingEntry DEF SameBreaker
  <2>6. SameBreaker(e, ReleaseProbe(e, t))
    BY <1>1, ReleaseProbeBreaker DEF e
  <2> DEFINE h == ReportEntry(e, x, t, o, obs)
  <2>7. /\ h.state = "cooldown" =>
                    \/ e.state = "cooldown" /\ o.class # "none"
                    \/ FailsEntry(o, x) /\ EntersCooldown(e, t, IsImmediate(o))
        /\ o.class = "none" => h.state # "cooldown"
    BY <1>1, ReportEntryOpens
  <2>8. o.class = "client_canceled" => h = ReleaseProbe(e, t)
    BY DEF ReportEntry, FailsEntry, IsGlobalFailure, IsChannelFailure
  <2> HIDE DEF h, f
  <2>9. /\ g.state = "cooldown" =>
                    \/ e.state = "cooldown"
                    \/ /\ l.slot = ps.active /\ x \in {Global, l.channel}
                       /\ FailsEntry(o, x) /\ EntersCooldown(e, t, IsImmediate(o))
        /\ (l.slot = ps.active /\ Live(ps, l) /\ o.class = "none" /\ x \in {Global, l.channel})
                => g.state # "cooldown"
    BY <1>3, <2>4, <2>6, <2>7 DEF SameBreaker, h
  <2>10. o.class = "client_canceled" => SameBreaker(e, g)
    BY <2>4, <2>6, <2>8 DEF SameBreaker, h
  <2>11. QED
    BY <2>5, <2>9, <2>10, FreshQuiet DEF SameBreaker, e, f, new
<1>4. QED
  BY <1>2, <1>3

LEMMA ReportKeeps ==
    ASSUME NEW ps \in ProviderScopes, NEW l \in Lease, NEW t \in Token,
           NEW o \in Outcome, NEW obs \in Observation \cup {NoObservation},
           NEW ls, NEW p, Accounted(ReportProvider(ps, l, t, o, obs), ls, p)
    PROVE  LET new == ReportProvider(ps, l, t, o, obs)
           IN  /\ HeldKept(ps, new, ls, p) /\ new.active = ps.active
               /\ ps.active # NoSlot => SameKey(ps.scope[ps.active], new.scope[ps.active])
<1> DEFINE new == ReportProvider(ps, l, t, o, obs)
           done == Settled(ps, l, t, o, obs)
<1>1. /\ new.active = ps.active
      /\ \/ /\ l.slot = ps.active \/ done.activeLeases # 0
            /\ new.scope = [ps.scope EXCEPT ![l.slot] = done]
         \/ /\ l.slot # ps.active /\ done.activeLeases = 0
            /\ new.scope = [ps.scope EXCEPT ![l.slot] = FreeScope]
  BY ReportShape
<1>2. SameKey(ps.scope[l.slot], done) /\ l.slot \in Slot
  BY SettledShape
<1>3. ps.scope \in [Slot -> Scope] /\ ps.active \in Slot \cup {NoSlot}
  BY DEF ProviderScopes
<1>4. ASSUME NEW s \in Slot, s # l.slot PROVE new.scope[s] = ps.scope[s]
  BY <1>4, ReportElsewhere
<1>5. Accounted(new, ls, p)
  OBVIOUS
<1> HIDE DEF new, done
<1>6. HeldKept(ps, new, ls, p)
  <2>1. SUFFICES ASSUME NEW s \in Slot, Out(ls, p, s) # {} PROVE SameKey(ps.scope[s], new.scope[s])
    BY DEF HeldKept
  <2>2. CASE s # l.slot
    BY <1>4, <2>2, SameKeyFacts
  <2>3. CASE s = l.slot
    <3>1. CASE new.scope = [ps.scope EXCEPT ![l.slot] = done]
      BY <1>2, <1>3, <2>3, <3>1
    <3>2. CASE new.scope = [ps.scope EXCEPT ![l.slot] = FreeScope]
      <4>1. new.scope[s] = FreeScope /\ Counted(new.scope[s], ls, Out(ls, p, s))
        BY <1>2, <1>3, <1>5, <2>3, <3>2 DEF Accounted
      <4>2. FreeScope.activeLeases = 0
        BY DEF FreeScope
      <4>3. Out(ls, p, s) = {}
        BY <4>1, <4>2, OutFinite, CountedNone
      <4>4. QED
        BY <4>3, <2>1
    <3>3. QED
      BY <1>1, <3>1, <3>2
  <2>4. QED
    BY <2>2, <2>3
<1>7. ASSUME ps.active # NoSlot PROVE SameKey(ps.scope[ps.active], new.scope[ps.active])
  <2>1. ps.active \in Slot
    BY <1>3, <1>7
  <2>2. CASE ps.active = l.slot
    BY <1>1, <1>2, <1>3, <2>2
  <2>3. CASE ps.active # l.slot
    BY <1>4, <2>1, <2>3, SameKeyFacts
  <2>4. QED
    BY <2>2, <2>3
<1>8. QED
  BY <1>1, <1>6, <1>7 DEF new

LEMMA UpdateErrorQuiet ==
    ASSUME NEW ps \in ProviderScopes, NEW u, NEW b \in BOOLEAN, NEW ls, NEW p
    PROVE  LET new == UpdateErrorProvider(ps, u, b)
           IN  Quiet(ps, new) /\ HeldKept(ps, new, ls, p)
<1> DEFINE new == UpdateErrorProvider(ps, u, b)
<1>1. ASSUME NEW s \in Slot
      PROVE  /\ new.active = ps.active /\ SameKey(ps.scope[s], new.scope[s])
             /\ \A x \in EntryId : SameBreaker(ps.scope[s].entry[x], new.scope[s].entry[x])
  <2>0. Global \in EntryId
    BY DEF EntryId
  <2>1. QED
    BY <2>0, UpdateErrorEntry
<1>1a. new.active = ps.active
  BY UpdateErrorShape, Zenon
<1>2. ps.active \in Slot \cup {NoSlot}
  BY ScopesFields
<1> HIDE DEF new
<1>3. Quiet(ps, new)
  BY <1>1, <1>1a, <1>2 DEF Quiet, SameBreaker
<1>4. QED
  BY <1>1, <1>3 DEF HeldKept, new

LEMMA AgeQuiet ==
    ASSUME NEW ps \in ProviderScopes, NEW ls, NEW p
    PROVE  Quiet(ps, AgeProvider(ps)) /\ HeldKept(ps, AgeProvider(ps), ls, p)
<1> DEFINE new == AgeProvider(ps)
<1>1. /\ new.active = ps.active
      /\ \A s \in Slot : /\ SameKey(ps.scope[s], new.scope[s])
                         /\ \A x \in EntryId : new.scope[s].entry[x] = Age(ps.scope[s].entry[x])
  BY AgeProviderShape
<1>2. ps.active \in Slot \cup {NoSlot}
  BY ScopesFields
<1>3. \A e \in Entry : Age(e).state = e.state /\ Age(e).consecutiveFailures = e.consecutiveFailures
  BY DEF Age, Entry
<1>4. \A s \in Slot : \A x \in EntryId : ps.scope[s].entry[x] \in Entry
  BY ScopesFields
<1> HIDE DEF new
<1>5. Quiet(ps, new)
  BY <1>1, <1>2, <1>3, <1>4 DEF Quiet
<1>6. QED
  BY <1>1, <1>5 DEF HeldKept, new

LEMMA RetireKeeps ==
    ASSUME NEW ps \in ProviderScopes, NEW ls, NEW p, Accounted(ps, ls, p)
    PROVE  HeldKept(ps, Retire(ps), ls, p)
<1> DEFINE new == Retire(ps)
<1>1. \/ ps.active = NoSlot /\ new = ps
      \/ /\ ps.active \in Slot /\ ps.scope[ps.active].activeLeases = 0
         /\ new.scope = [ps.scope EXCEPT ![ps.active] = FreeScope]
      \/ /\ ps.active \in Slot /\ ps.scope[ps.active].activeLeases # 0
         /\ new.scope = ps.scope
  BY RetireShape
<1> HIDE DEF new
<1>2. ps.scope \in [Slot -> Scope]
  BY DEF ProviderScopes
<1>3. ASSUME NEW s \in Slot, Out(ls, p, s) # {} PROVE SameKey(ps.scope[s], new.scope[s])
  <2>1. CASE new.scope = ps.scope
    BY <2>1, SameKeyFacts
  <2>2. CASE /\ ps.active \in Slot /\ ps.scope[ps.active].activeLeases = 0
             /\ new.scope = [ps.scope EXCEPT ![ps.active] = FreeScope]
    <3>1. Out(ls, p, ps.active) = {}
      <4>1. Counted(ps.scope[ps.active], ls, Out(ls, p, ps.active))
        BY <2>2 DEF Accounted
      <4>2. QED
        BY <2>2, <4>1, OutFinite, CountedNone
    <3>2. s # ps.active
      BY <1>3, <3>1
    <3>3. new.scope[s] = ps.scope[s]
      BY <1>2, <2>2, <3>2
    <3>4. QED
      BY <3>3, SameKeyFacts
  <2>3. QED
    BY <1>1, <2>1, <2>2
<1>4. QED
  BY <1>3 DEF HeldKept, new

(* The new active scope of a provider opens no breaker, and starts without *)
(* failures in a new epoch.                                                *)
LEMMA ReconcileKeeps ==
    ASSUME NEW ps \in ProviderScopes, NEW c \in CompiledProvider,
           ActiveMatches(ps, c) \/ FreeSlots(Retire(ps)) # {},
           NEW ls, NEW p, Filed(ps), Accounted(ps, ls, p)
    PROVE  LET new == ReconcileProvider(ps, c)
           IN  /\ ActiveMatches(new, c) /\ HeldKept(ps, new, ls, p)
               /\ IF ps.active # NoSlot /\ ps.scope[ps.active].epoch = c.epoch
                  THEN \A x \in EntryId :
                        LET e == ps.scope[ps.active].entry[x]
                            f == new.scope[new.active].entry[x]
                        IN  /\ f.state = "cooldown" => e.state = "cooldown"
                            /\ e.consecutiveFailures = 0 => f.consecutiveFailures = 0
                  ELSE Untouched(new)
<1> DEFINE new == ReconcileProvider(ps, c)
           rest == Retire(ps)
           sc == ps.scope[ps.active]
           Same == ps.active # NoSlot /\ sc.epoch = c.epoch
           Mild(e, f) == /\ f.state = "cooldown" => e.state = "cooldown"
                         /\ e.consecutiveFailures = 0 => f.consecutiveFailures = 0
<1>1. /\ new.active \in Slot
      /\ \/ /\ ActiveMatches(ps, c)
            /\ new.active = ps.active /\ new.retired = ps.retired
            /\ new.scope = [ps.scope EXCEPT ![ps.active] = ReconcileModels(ps.scope[ps.active], c.models)]
         \/ /\ ~ActiveMatches(ps, c)
            /\ new.active \in FreeSlots(Retire(ps))
            /\ new.retired = Retire(ps).retired
            /\ new.scope = [Retire(ps).scope EXCEPT ![new.active] = Successor(ps, c)]
  BY ReconcileShape
<1>2. rest \in ProviderScopes /\ rest.scope \in [Slot -> Scope]
  BY RetireType DEF ProviderScopes
<1>3. ps.scope \in [Slot -> Scope] /\ ps.active \in Slot \cup {NoSlot}
  BY DEF ProviderScopes
<1>4. NoSlot \notin Slot
  BY ConstantsAssumption, Zenon
<1> HIDE DEF new
<1>5. CASE ActiveMatches(ps, c)
  <2>1. ps.active \in Slot /\ sc \in Scope /\ ps.active # NoSlot /\ sc.epoch = c.epoch
    BY <1>3, <1>5 DEF ActiveMatches, Matches
  <2> DEFINE r == ReconcileModels(sc, c.models)
  <2>2. /\ SameKey(sc, r)
        /\ \A x \in EntryId : r.entry[x] =
                     IF x \in c.models \X {"normal"} /\ ~Exists(sc.entry[x])
                     THEN NewEntry(InitialState(sc.disableHealth))
                     ELSE IF x # Global /\ x \notin c.models \X RequestType
                             /\ sc.entry[x].activeLeases = 0
                     THEN AbsentEntry ELSE sc.entry[x]
    BY <2>1, ReconcileModelsShape
  <2> HIDE DEF r
  <2>3. new.active = ps.active /\ new.scope = [ps.scope EXCEPT ![ps.active] = r]
    BY <1>1, <1>5 DEF r
  <2>4. new.scope[ps.active] = r /\ \A s \in Slot : s # ps.active => new.scope[s] = ps.scope[s]
    BY <1>3, <2>1, <2>3
  <2>5. ActiveMatches(new, c)
    BY <1>5, <2>2, <2>3, <2>4, SameKeyFacts DEF ActiveMatches
  <2>6. HeldKept(ps, new, ls, p)
    BY <2>2, <2>4, SameKeyFacts DEF HeldKept
  <2>7. \A x \in EntryId : Mild(sc.entry[x], r.entry[x])
    BY <2>2, FreshQuiet
  <2>8. \A x \in EntryId : Mild(ps.scope[ps.active].entry[x], new.scope[new.active].entry[x])
    BY <2>3, <2>4, <2>7
  <2> HIDE DEF Mild, sc
  <2>9. QED
    BY <2>1, <2>5, <2>6, <2>8 DEF new, Mild, sc
<1>6. CASE ~ActiveMatches(ps, c)
  <2> DEFINE r == Successor(ps, c)
  <2>1. /\ new.active \in FreeSlots(rest) /\ new.active \in Slot
        /\ new.scope = [rest.scope EXCEPT ![new.active] = r]
    BY <1>1, <1>6
  <2>2. new.scope[new.active] = r /\ \A s \in Slot : s # new.active => new.scope[s] = rest.scope[s]
    BY <1>2, <2>1
  <2>3. r.generation = c.generation /\ r.epoch = c.epoch /\ r.disableHealth = c.disableHealth
    <3>1. CASE Same
      <4>1. sc \in Scope
        BY <1>3, <3>1
      <4>2. r = InheritScopeState(NewScope(c), sc)
        BY <3>1 DEF Successor
      <4>3. QED
        BY <4>1, <4>2, InheritShape
    <3>2. CASE ~Same
      <4>1. r = NewScope(c)
        BY <3>2 DEF Successor
      <4>2. QED
        BY <4>1, NewScopeShape
    <3>3. QED
      BY <3>1, <3>2
  <2>4. ActiveMatches(new, c)
    BY <1>4, <2>1, <2>2, <2>3 DEF ActiveMatches, Matches
  <2>5. HeldKept(ps, new, ls, p)
    <3>1. Filed(rest) /\ Accounted(rest, ls, p) /\ HeldKept(ps, rest, ls, p)
      BY RetireFiled, RetireAccounted, RetireKeeps
    <3> HIDE DEF rest, r
    <3>2. Out(ls, p, new.active) = {}
      BY <2>1, <3>1, FreeSlotUnused
    <3>3. QED
      BY <2>2, <3>1, <3>2 DEF HeldKept
  <2>6. CASE Same
    <3>1. sc \in Scope /\ \A x \in EntryId : sc.entry[x] \in Entry
      BY <1>3, <2>6 DEF Scope
    <3>2. r = InheritScopeState(NewScope(c), sc)
      BY <2>6 DEF Successor
    <3>3. \A x \in EntryId : r.entry[x] =
                     IF x = Global \/ (Exists(sc.entry[x]) /\ x \in c.models \X RequestType)
                     THEN InheritState(NewEntry(InitialState(c.disableHealth)), sc.entry[x],
                                       c.disableHealth = sc.disableHealth)
                     ELSE NewScope(c).entry[x]
      BY <3>1, <3>2, InheritShape
    <3> HIDE DEF r
    <3>4. ASSUME NEW x \in EntryId PROVE Mild(sc.entry[x], r.entry[x])
      <4> DEFINE e == sc.entry[x]
                 b == NewEntry(InitialState(c.disableHealth))
                 preserve == c.disableHealth = sc.disableHealth
      <4>1. CASE x = Global \/ (Exists(sc.entry[x]) /\ x \in c.models \X RequestType)
        <5>1. r.entry[x] = InheritState(b, e, preserve)
          BY <3>3, <4>1
        <5>2. b \in Entry /\ e \in Entry /\ preserve \in BOOLEAN
          BY <3>1, FreshEntryType DEF CompiledProvider
        <5>3. b.state # "cooldown" /\ b.consecutiveFailures = 0
          BY FreshQuiet
        <5> HIDE DEF b, e, preserve
        <5>4. SameBreaker(e, r.entry[x]) \/ SameBreaker(b, r.entry[x])
          BY <5>1, <5>2, InheritStateBreaker
        <5>5. QED
          BY <5>3, <5>4 DEF SameBreaker, e
      <4>2. CASE ~(x = Global \/ (Exists(sc.entry[x]) /\ x \in c.models \X RequestType))
        <5>1. r.entry[x] = NewScope(c).entry[x]
          BY <3>3, <4>2
        <5>2. NewScope(c).entry[x] \in {NewEntry(InitialState(c.disableHealth)), AbsentEntry}
          BY NewScopeShape
        <5>3. QED
          BY <5>1, <5>2, FreshQuiet
      <4>3. QED
        BY <4>1, <4>2
    <3>5. \A x \in EntryId : Mild(ps.scope[ps.active].entry[x], new.scope[new.active].entry[x])
      BY <2>2, <3>4
    <3> HIDE DEF Mild
    <3>6. QED
      BY <2>4, <2>5, <2>6, <3>5 DEF new, Mild
  <2>7. CASE ~Same
    <3>1. r = NewScope(c)
      BY <2>7 DEF Successor
    <3>2. \A x \in EntryId :
            NewScope(c).entry[x] \in {NewEntry(InitialState(c.disableHealth)), AbsentEntry}
      BY NewScopeShape
    <3>3. \A x \in EntryId : r.entry[x].consecutiveFailures = 0
      BY <3>1, <3>2, FreshQuiet
    <3>4. Untouched(new)
      BY <2>2, <3>3 DEF Untouched
    <3>5. QED
      BY <2>4, <2>5, <2>7, <3>4 DEF new
  <2>8. QED
    BY <2>6, <2>7
<1>7. QED
  BY <1>5, <1>6

-----------------------------------------------------------------------------
(* What stays true when only health, or only the requests, move on.        *)

LEMMA QuietStore ==
    ASSUME NEW st, NEW new, NEW snaps, NEW rev, \A p \in Provider : Quiet(st[p], new[p]),
           ActiveCurrent(st, snaps, rev), OffUntouched(st, snaps, rev)
    PROVE  ActiveCurrent(new, snaps, rev) /\ OffUntouched(new, snaps, rev)
<1>1. ASSUME NEW p \in Provider
      PROVE  /\ new[p].active = st[p].active
             /\ ActiveMatches(st[p], snaps[rev][p]) => ActiveMatches(new[p], snaps[rev][p])
             /\ st[p].active # NoSlot /\ Untouched(st[p]) => Untouched(new[p])
  <2> DEFINE a == st[p]
             b == new[p]
             k == snaps[rev][p]
  <2>1. Quiet(a, b)
    OBVIOUS
  <2> HIDE DEF a, b, k
  <2>2. b.active = a.active
    BY <2>1 DEF Quiet
  <2>3. ActiveMatches(a, k) => ActiveMatches(b, k)
    BY <2>1, SameKeyFacts DEF Quiet, ActiveMatches
  <2>4. a.active # NoSlot /\ Untouched(a) => Untouched(b)
    BY <2>1 DEF Quiet, Untouched
  <2>5. QED
    BY <2>2, <2>3, <2>4 DEF a, b, k
<1>2. ActiveCurrent(new, snaps, rev)
  BY <1>1 DEF ActiveCurrent
<1>3. OffUntouched(new, snaps, rev)
  BY <1>1 DEF OffUntouched
<1>4. QED
  BY <1>2, <1>3

LEMMA QuietOpen ==
    ASSUME NEW ps, NEW new, Quiet(ps, new), ps.active # NoSlot, NEW k \in StickyKey, Open(ps, k)
    PROVE  Open(new, k)
BY StickyKeyFacts DEF Quiet, Open

(* A lease outlives the steps that keep its scope.                         *)
LEMMA LeaseFrame ==
    ASSUME NEW q, NEW snaps, NEW rev, NEW st, NEW ls, NEW st2, NEW ls2,
           LeaseKnown(q, snaps, rev, st, ls), ls2[q.token] = ls[q.token],
           HeldKept(st[q.provider], st2[q.provider], ls2, q.provider),
           st2[q.provider].active = st[q.provider].active
    PROVE  LeaseKnown(q, snaps, rev, st2, ls2)
<1> DEFINE l == ls[q.token]
<1>1. q.token \in Token /\ l \in Lease /\ l.provider = q.provider /\ l.slot \in Slot
  BY DEF LeaseKnown, Lease
<1>2. l # NoLease
  BY <1>1, LeaseIsReal
<1>3. q.token \in Out(ls2, q.provider, l.slot)
  BY <1>1, <1>2 DEF Out
<1>4. SameKey(st[q.provider].scope[l.slot], st2[q.provider].scope[l.slot])
  BY <1>1, <1>3 DEF HeldKept
<1>5. Matches(st2[q.provider].scope[l.slot], snaps[q.revision][q.provider])
  <2>1. Matches(st[q.provider].scope[l.slot], snaps[q.revision][q.provider])
    BY DEF LeaseKnown
  <2> DEFINE sc == st[q.provider].scope[l.slot]
             sc2 == st2[q.provider].scope[l.slot]
             k == snaps[q.revision][q.provider]
  <2>2. SameKey(sc, sc2) /\ Matches(sc, k)
    BY <1>4, <2>1
  <2> HIDE DEF sc, sc2, k
  <2>3. Matches(sc2, k)
    BY <2>2, SameKeyFacts
  <2>4. QED
    BY <2>3 DEF sc2, k
<1>6. q.revision = rev => l.slot = st2[q.provider].active
  BY DEF LeaseKnown
<1>7. QED
  BY <1>5, <1>6 DEF LeaseKnown

(* A fresh version or cursor version is there for every step.              *)
LEMMA UnusedValue ==
    ASSUME NEW S, IsFiniteSet(S), NEW f, Cardinality(S) > Cardinality(Request)
    PROVE  \E v \in S : v \notin {f[r] : r \in Request}
<1> DEFINE g == [r \in Request |-> f[r]]
           I == {f[r] : r \in Request}
<1>1. IsFiniteSet(Request)
  BY SchedulerAssumption
<1>2. IsFiniteSet(I) /\ Cardinality(I) <= Cardinality(Request)
  <2>1. g \in Surjection(Request, I)
    BY DEF Surjection
  <2> HIDE DEF g, I
  <2>2. QED
    BY <1>1, <2>1, FS_Surjection
<1>3. SUFFICES ASSUME S \subseteq I PROVE FALSE
  OBVIOUS
<1>4. Cardinality(S) <= Cardinality(I)
  <2> HIDE DEF I
  <2>1. QED
    BY <1>2, <1>3, FS_Subset
<1>5. Cardinality(S) \in Nat /\ Cardinality(I) \in Nat /\ Cardinality(Request) \in Nat
  <2> HIDE DEF I
  <2>1. QED
    BY <1>1, <1>2, FS_CardinalityType
<1> HIDE DEF I
<1>6. QED
  BY <1>2, <1>4, <1>5

LEMMA FreshValues ==
    /\ NewVersion \in Version
    /\ (CHOOSE v \in CursorVersion : v \notin ObservedCursors) \in CursorVersion
<1>1. \E v \in Version : v \notin ObservedVersions
  <2> DEFINE f == [r \in Request |-> requests[r].source.version]
  <2>1. \E v \in Version : v \notin {f[r] : r \in Request}
    <3> HIDE DEF f
    <3>1. QED
      BY UnusedValue, SchedulerAssumption
  <2>2. {f[r] : r \in Request} = ObservedVersions
    BY DEF ObservedVersions
  <2>3. QED
    BY <2>1, <2>2
<1>2. \E v \in CursorVersion : v \notin ObservedCursors
  <2> DEFINE f == [r \in Request |-> requests[r].cursorVersion]
  <2>1. \E v \in CursorVersion : v \notin {f[r] : r \in Request}
    <3> HIDE DEF f
    <3>1. QED
      BY UnusedValue, SchedulerAssumption
  <2>2. {f[r] : r \in Request} = ObservedCursors
    BY DEF ObservedCursors
  <2>3. QED
    BY <2>1, <2>2
<1>3. QED
  BY <1>1, <1>2 DEF NewVersion

LEMMA SetCursorsShape ==
    ASSUME NEW cs \in [CursorKey -> [provider: Provider \cup {NoProvider}, version: CursorVersion]],
           NEW keys, NEW p \in Provider \cup {NoProvider}
    PROVE  LET n == SetCursors(cs, keys, p)
           IN  /\ n \in [CursorKey -> [provider: Provider \cup {NoProvider}, version: CursorVersion]]
               /\ \A ck \in CursorKey :
                    /\ ck \in keys => n[ck].provider = p
                    /\ ck \notin keys => n[ck] = cs[ck]
BY FreshValues DEF SetCursors

(* Rotation permutes a tier.                                               *)
LEMMA RotateElements ==
    ASSUME NEW T, NEW seq \in Seq(T), NEW p
    PROVE  RotateAfter(seq, p) \in Seq(T) /\ Elements(RotateAfter(seq, p)) = Elements(seq)
<1>1. CASE p \notin Elements(seq)
  BY <1>1 DEF RotateAfter
<1>2. CASE p \in Elements(seq)
  <2> DEFINE i == IndexOf(seq, p)
             back == SubSeq(seq, i + 1, Len(seq))
             front == SubSeq(seq, 1, i)
  <2>1. i \in 1..Len(seq)
    BY <1>2 DEF IndexOf, Elements
  <2> HIDE DEF i
  <2>2. back \in Seq(T) /\ front \in Seq(T)
    BY <2>1
  <2>3. Len(back) = Len(seq) - i /\ Len(front) = i
    BY <2>1
  <2>4. /\ \A j \in 1..Len(back) : back[j] = seq[j + i]
        /\ \A j \in 1..Len(front) : front[j] = seq[j]
    BY <2>1
  <2>5. RotateAfter(seq, p) = back \o front
    BY <1>2 DEF RotateAfter, i
  <2> HIDE DEF back, front
  <2>6. Elements(back \o front) = Elements(back) \cup Elements(front) /\ back \o front \in Seq(T)
    BY <2>2, ConcatElements
  <2>7. Elements(back) \cup Elements(front) \subseteq Elements(seq)
    <3>1. \A j \in 1..Len(back) : back[j] \in Elements(seq)
      <4>1. \A j \in 1..Len(back) : j + i \in 1..Len(seq)
        BY <2>1, <2>3
      <4>2. QED
        BY <2>4, <4>1 DEF Elements
    <3>2. \A j \in 1..Len(front) : front[j] \in Elements(seq)
      <4>1. \A j \in 1..Len(front) : j \in 1..Len(seq)
        BY <2>1, <2>3
      <4>2. QED
        BY <2>4, <4>1 DEF Elements
    <3>3. DOMAIN back = 1..Len(back) /\ DOMAIN front = 1..Len(front)
      BY <2>2
    <3>4. QED
      BY <3>1, <3>2, <3>3 DEF Elements
  <2>8. ASSUME NEW m \in 1..Len(seq) PROVE seq[m] \in Elements(back) \cup Elements(front)
    <3>1. CASE m <= i
      <4>1. m \in 1..Len(front) /\ DOMAIN front = 1..Len(front)
        BY <2>1, <2>2, <2>3, <3>1
      <4>2. seq[m] = front[m]
        BY <2>4, <4>1
      <4>3. QED
        BY <4>1, <4>2 DEF Elements
    <3>2. CASE m > i
      <4>1. m - i \in 1..Len(back) /\ seq[m] = back[m - i]
        BY <2>1, <2>2, <2>3, <2>4, <3>2
      <4>2. QED
        BY <2>2, <4>1 DEF Elements
    <3>3. QED
      BY <2>1, <3>1, <3>2
  <2>9. QED
    <3>1. Elements(seq) = {seq[m] : m \in 1..Len(seq)}
      BY DEF Elements
    <3>2. Elements(seq) \subseteq Elements(back) \cup Elements(front)
      BY <2>8, <3>1
    <3>3. QED
      BY <2>5, <2>6, <2>7, <3>2
<1>3. QED
  BY <1>1, <1>2

LEMMA OrderTierElements ==
    ASSUME NEW seq \in Seq(Provider), NEW p, NEW cursor
    PROVE  /\ OrderTier(seq, p, cursor) \in Seq(Provider)
           /\ Elements(OrderTier(seq, p, cursor)) = Elements(seq)
<1>1. CASE p \notin Elements(seq)
  BY <1>1, RotateElements DEF OrderTier
<1>2. CASE p \in Elements(seq)
  <2> DEFINE rest == Only(RotateAfter(seq, p), Provider \ {p})
  <2>1. rest \in Seq(Provider) /\ Elements(rest) = Elements(seq) \cap (Provider \ {p})
    BY RotateElements, OnlyElements
  <2>2. p \in Provider /\ Elements(seq) \subseteq Provider
    BY <1>2 DEF Elements
  <2>3. <<p>> \in Seq(Provider) /\ Elements(<<p>>) = {p}
    BY <2>2 DEF Elements
  <2>4. OrderTier(seq, p, cursor) = <<p>> \o rest
    BY <1>2 DEF OrderTier
  <2> HIDE DEF rest
  <2>5. <<p>> \o rest \in Seq(Provider) /\ Elements(<<p>> \o rest) = {p} \cup Elements(rest)
    <3>1. \A s, t \in Seq(Provider) : s \o t \in Seq(Provider) /\ Elements(s \o t) = Elements(s) \cup Elements(t)
      BY ConcatElements
    <3>2. QED
      BY <2>1, <2>3, <3>1
  <2>6. QED
    BY <1>2, <2>1, <2>2, <2>4, <2>5
<1>3. QED
  BY <1>1, <1>2

LEMMA CandidatesElements ==
    ASSUME NEW snapshot, NEW m, NEW n
    PROVE  /\ Candidates(snapshot, m, n) \in Seq(Provider)
           /\ Elements(Candidates(snapshot, m, n)) = Offered(snapshot, m, n)
<1> DEFINE S == {p \in Provider : Supports(snapshot, p, m) /\ snapshot[p].priority = n}
<1>1. ProviderOrder \in Seq(Provider) /\ Elements(ProviderOrder) = Provider
  BY SchedulerAssumption DEF Elements
<1>2. S \subseteq Provider /\ Offered(snapshot, m, n) = S
  BY DEF Offered
<1>3. Candidates(snapshot, m, n) = Only(ProviderOrder, S)
  BY DEF Candidates
<1> HIDE DEF S
<1>4. Only(ProviderOrder, S) \in Seq(Provider)
      /\ Elements(Only(ProviderOrder, S)) = Elements(ProviderOrder) \cap S
  BY <1>1, OnlyElements
<1>5. QED
  BY <1>1, <1>2, <1>3, <1>4

-----------------------------------------------------------------------------
(* The records of requests.                                                *)

Source == [provider: Provider \cup {NoProvider}, generation: Generation \cup {NoGeneration},
           version: Version \cup {0}]

LEMMA RequestFields ==
    ASSUME NEW q \in RequestRecord
    PROVE  /\ q.status \in {"idle", "selecting", "leased", "sent"} /\ q.revision \in 0..MaxRevision
           /\ q.key \in {<<>>} \cup Traffic /\ q.attemptsUsed \in 0..MaxAttempts
           /\ q.initialized \in BOOLEAN /\ q.ordered \in [Priority -> Seq(Provider)]
           /\ q.visited \in SUBSET Provider /\ q.source \in Source
           /\ q.stickyPhase \in {"pending", "active", "ended"}
           /\ q.stickyAttemptsUsed \in 0..StickyNoCooldownAttempts
           /\ q.provider \in Provider \cup {NoProvider} /\ q.token \in Token \cup {NoToken}
           /\ q.migration \in BOOLEAN /\ q.advanceCursor \in BOOLEAN
           /\ q.cursorVersion \in CursorVersion
BY DEF RequestRecord, Source

(* The fields a selection does not touch.                                  *)
SameRequest(q, n) ==
    n.revision = q.revision /\ n.key = q.key /\ n.attemptsUsed = q.attemptsUsed
        /\ n.stickyAttemptsUsed = q.stickyAttemptsUsed

LEMMA NoRequestType ==
    NoRequest \in RequestRecord /\ NoRequest.status = "idle" /\ ~Holding(NoRequest)
BY SchedulerAssumption DEF NoRequest, NoSource, RequestRecord, Holding

(* The updates of a request, named.                                        *)
WithCandidates(q, o, s) == [q EXCEPT !.initialized = TRUE, !.source = s, !.ordered = o]
WithVisited(q, v, s) == [q EXCEPT !.visited = v, !.stickyPhase = s]
WithLease(q, p, t, s, m, a, v) ==
    [q EXCEPT !.status = "leased", !.provider = p, !.token = t, !.source = s,
              !.migration = m, !.advanceCursor = a, !.cursorVersion = v]

LEMMA SetSelection ==
    ASSUME NEW q \in RequestRecord, NEW o \in [Priority -> Seq(Provider)], NEW s \in Source,
           NEW n, n = WithCandidates(q, o, s)
    PROVE  /\ n \in RequestRecord /\ SameRequest(q, n)
           /\ n.initialized /\ n.ordered = o /\ n.source = s
           /\ n.status = q.status /\ n.stickyPhase = q.stickyPhase
<1>1. n \in RequestRecord
  BY DEF RequestRecord, WithCandidates, Source
<1>2. n.initialized = TRUE
  BY DEF RequestRecord, WithCandidates
<1>3. SameRequest(q, n) /\ n.ordered = o /\ n.source = s
      /\ n.status = q.status /\ n.stickyPhase = q.stickyPhase
  BY DEF RequestRecord, WithCandidates, SameRequest
<1>4. QED
  BY <1>1, <1>2, <1>3

LEMMA SetVisited ==
    ASSUME NEW q \in RequestRecord, NEW v \in SUBSET Provider, NEW s \in {"pending", "active", "ended"},
           NEW n, n = WithVisited(q, v, s)
    PROVE  /\ n \in RequestRecord /\ SameRequest(q, n)
           /\ n.initialized = q.initialized /\ n.ordered = q.ordered /\ n.source = q.source
           /\ n.status = q.status /\ n.stickyPhase = s
BY DEF RequestRecord, WithVisited, Source, SameRequest

LEMMA SetLease ==
    ASSUME NEW q \in RequestRecord, NEW p \in Provider, NEW t \in Token, NEW s \in Source,
           NEW m \in BOOLEAN, NEW a \in BOOLEAN, NEW v \in CursorVersion,
           NEW n, n = WithLease(q, p, t, s, m, a, v)
    PROVE  /\ n \in RequestRecord /\ SameRequest(q, n)
           /\ n.initialized = q.initialized /\ n.ordered = q.ordered /\ n.source = s
           /\ n.status = "leased" /\ n.stickyPhase = q.stickyPhase
           /\ n.provider = p /\ n.token = t /\ n.migration = m
<1> DEFINE n1 == [q EXCEPT !.status = "leased", !.provider = p, !.token = t, !.source = s]
           n2 == [n1 EXCEPT !.migration = m, !.advanceCursor = a]
           n3 == [n2 EXCEPT !.cursorVersion = v]
<1>1. n1 \in RequestRecord
  BY ZenonT(40) DEF RequestRecord, WithLease, Source
<1>2. n2 \in RequestRecord
  <2> HIDE DEF n1
  <2>1. QED
    BY <1>1 DEF RequestRecord
<1>3. n3 \in RequestRecord
  <2> HIDE DEF n2
  <2>1. QED
    BY <1>2 DEF RequestRecord
<1>4. n = n3
  BY DEF RequestRecord, WithLease
<1>5. n.initialized = q.initialized /\ n.migration = m
  BY DEF RequestRecord, WithLease
<1>6. /\ SameRequest(q, n) /\ n.ordered = q.ordered /\ n.source = s
      /\ n.status = "leased" /\ n.stickyPhase = q.stickyPhase
      /\ n.provider = p /\ n.token = t
  BY DEF RequestRecord, WithLease, SameRequest
<1> HIDE DEF n3
<1>7. QED
  BY <1>3, <1>4, <1>5, <1>6

LEMMA InitializeShape ==
    ASSUME NEW q \in RequestRecord, q.key \in Traffic, NEW a \in AffinityType,
           SnapshotOf(q) \in Snapshot
    PROVE  LET n == InitializeSelection(q, a)
           IN  /\ n \in RequestRecord /\ SameRequest(q, n) /\ n.initialized
               /\ n.status = q.status /\ n.stickyPhase = q.stickyPhase
               /\ \A m \in Priority : Elements(n.ordered[m]) = Offered(SnapshotOf(q), q.key[2], m)
               /\ n.source # NoSource => q.key \in StickyKey
<1> DEFINE b == AssignedTo(q, a)
           assigned == IF StillCandidate(q, b) THEN b.provider ELSE NoProvider
           s == IF StillCandidate(q, b) THEN SourceOf(b) ELSE NoSource
           o == [m \in Priority |->
                    OrderTier(Candidates(SnapshotOf(q), q.key[2], m), assigned,
                              cursors[<<q.key[2], q.key[3], m>>])]
<1>1. InitializeSelection(q, a) = [q EXCEPT !.initialized = TRUE, !.source = s, !.ordered = o]
  BY DEF InitializeSelection
<1>2. b \in Binding \cup {Unbound} /\ (IsBound(b) => q.key \in StickyKey)
  BY TrafficFacts, BoundFacts, AffinityFields DEF AssignedTo, HasSession
<1>3. s \in Source /\ (s # NoSource => q.key \in StickyKey)
  <2> HIDE DEF b
  <2>1. CASE StillCandidate(q, b)
    <3>1. IsBound(b) /\ b \in Binding
      BY <1>2, <2>1, BoundFacts DEF StillCandidate
    <3>2. QED
      BY <1>2, <2>1, <3>1, BoundFacts DEF SourceOf, Source
  <2>2. CASE ~StillCandidate(q, b)
    BY <2>2 DEF NoSource, Source
  <2>3. QED
    BY <2>1, <2>2
<1>4. \A m \in Priority : /\ o[m] \in Seq(Provider)
                          /\ Elements(o[m]) = Offered(SnapshotOf(q), q.key[2], m)
  <2> HIDE DEF assigned
  <2>1. QED
    BY OrderTierElements, CandidatesElements
<1>5. o \in [Priority -> Seq(Provider)]
  <2> HIDE DEF assigned
  <2>1. QED
    BY <1>4
<1> DEFINE n == InitializeSelection(q, a)
<1> HIDE DEF s, o, n
<1>6. n = WithCandidates(q, o, s)
  BY <1>1 DEF n, WithCandidates
<1>7. /\ n \in RequestRecord /\ SameRequest(q, n)
      /\ n.initialized /\ n.ordered = o /\ n.source = s
      /\ n.status = q.status /\ n.stickyPhase = q.stickyPhase
  BY <1>3, <1>5, <1>6, SetSelection
<1>8. QED
  BY <1>3, <1>4, <1>7 DEF n

LEMMA RecordShape ==
    ASSUME NEW q \in RequestRecord, NEW p \in Provider, NEW first
    PROVE  LET n == RecordSelection(q, p, first)
           IN  /\ n \in RequestRecord /\ SameRequest(q, n)
               /\ n.initialized = q.initialized /\ n.ordered = q.ordered /\ n.source = q.source
               /\ n.status = q.status
               /\ n.stickyPhase = "active" =>
                    \/ q.stickyPhase = "active"
                    \/ first /\ q.key[3] = "normal" /\ StickyNoCooldownAttempts > 1
<1> DEFINE m == PriorityOf(q, p)
           retry == RetriesSticky(q, m)
           round == IF p \in q.visited THEN q.visited \ Elements(q.ordered[m]) ELSE q.visited
           opens == /\ q.key[3] = "normal"
                    /\ SourceMatches(q.source, q, p)
                    /\ SnapshotOf(q)[p].disableHealth
                    /\ StickyNoCooldownAttempts > 1
           v == IF retry THEN q.visited ELSE round \cup {p}
           s == CASE retry            -> q.stickyPhase
                  [] first /\ opens   -> "active"
                  [] OTHER            -> "ended"
<1>1. q.visited \subseteq Provider /\ q.stickyPhase \in {"pending", "active", "ended"}
  BY RequestFields
<1>2. v \in SUBSET Provider
  BY <1>1
<1>3. retry => q.stickyPhase = "active"
  BY DEF RetriesSticky
<1>4. /\ retry => s = q.stickyPhase
      /\ ~retry => s \in {"active", "ended"} /\ (s = "active" => first /\ opens)
  <2> HIDE DEF retry, opens
  <2>1. CASE retry
    <3>1. s \in {q.stickyPhase, "active"}
      BY <2>1
    <3>2. QED
      BY <1>3, <2>1, <3>1
  <2>2. CASE ~retry
    BY <2>2
  <2>3. QED
    BY <2>1, <2>2
<1> DEFINE n == RecordSelection(q, p, first)
<1>5. n = WithVisited(q, v, s)
  BY DEF RecordSelection, WithVisited
<1> HIDE DEF s, v, retry, n
<1>6. s \in {"pending", "active", "ended"}
  BY <1>1, <1>4
<1>7. /\ n \in RequestRecord /\ SameRequest(q, n)
      /\ n.initialized = q.initialized /\ n.ordered = q.ordered /\ n.source = q.source
      /\ n.status = q.status /\ n.stickyPhase = s
  BY <1>2, <1>5, <1>6, SetVisited
<1>8. s = "active" => q.stickyPhase = "active" \/ (first /\ opens)
  BY <1>4
<1>9. QED
  BY <1>7, <1>8 DEF n

LEMMA AttemptShape ==
    ASSUME NEW q \in RequestRecord, q.key \in Traffic, NEW p \in Provider,
           NEW snap \in Snapshot, SnapshotOf(q) = snap, Supports(snap, p, q.key[2]),
           NEW first, NEW t \in Token, NEW probing,
           cursors \in [CursorKey -> [provider: Provider \cup {NoProvider}, version: CursorVersion]],
           q.source # NoSource => q.key \in StickyKey
    PROVE  LET n == AttemptLease(q, p, first, t, probing)
           IN  /\ n \in RequestRecord /\ SameRequest(q, n)
               /\ n.initialized = q.initialized /\ n.ordered = q.ordered
               /\ n.source # NoSource => q.key \in StickyKey
               /\ n.status = "leased" /\ n.stickyPhase = q.stickyPhase
               /\ n.provider = p /\ n.token = t
               /\ n.migration => n.source # NoSource
<1> DEFINE s == AttemptSource(q, p, first)
           advance == first /\ ~SourceMatches(q.source, q, p) /\ IsCurrent(q)
           m == s # NoSource /\ ~SourceMatches(s, q, p)
           v == IF advance /\ probing
                THEN cursors[<<q.key[2], q.key[3], PriorityOf(q, p)>>].version ELSE 0
<1>1. AttemptLease(q, p, first, t, probing) =
        [q EXCEPT !.status = "leased", !.provider = p, !.token = t, !.source = s,
                  !.migration = m, !.advanceCursor = advance /\ probing, !.cursorVersion = v]
  BY DEF AttemptLease
<1>2. /\ PriorityOf(q, p) \in Priority /\ SnapshotOf(q)[p].generation \in Generation
      /\ q.key[2] \in Model /\ q.key[3] \in RequestType
  BY SupportsFacts, TrafficFacts DEF PriorityOf
<1>3. v \in CursorVersion
  <2>1. <<q.key[2], q.key[3], PriorityOf(q, p)>> \in CursorKey
    BY <1>2 DEF CursorKey
  <2>2. QED
    BY <2>1, SchedulerAssumption
<1>4. s \in Source /\ (s # NoSource => q.key \in StickyKey)
  <2>1. CASE BindsSession(q, first)
    <3>1. q.key \in StickyKey
      BY <2>1, TrafficFacts DEF BindsSession, HasSession
    <3>2. QED
      BY <1>2, <2>1, <3>1, FreshValues DEF AttemptSource, Source
  <2>2. CASE ~BindsSession(q, first)
    BY <2>2, RequestFields DEF AttemptSource
  <2>3. QED
    BY <2>1, <2>2
<1>5. m \in BOOLEAN /\ (advance /\ probing) \in BOOLEAN /\ (m => s # NoSource)
  OBVIOUS
<1> DEFINE adv == advance /\ probing
<1>6. adv \in BOOLEAN
  BY <1>5
<1>7. AttemptLease(q, p, first, t, probing) =
        [q EXCEPT !.status = "leased", !.provider = p, !.token = t, !.source = s,
                  !.migration = m, !.advanceCursor = adv, !.cursorVersion = v]
  BY <1>1
<1> DEFINE n == AttemptLease(q, p, first, t, probing)
<1> HIDE DEF s, v, m, adv, n
<1>8. /\ n \in RequestRecord /\ SameRequest(q, n)
      /\ n.initialized = q.initialized /\ n.ordered = q.ordered /\ n.source = s
      /\ n.status = "leased" /\ n.stickyPhase = q.stickyPhase
      /\ n.provider = p /\ n.token = t /\ n.migration = m
  <2>1. n = WithLease(q, p, t, s, m, adv, v)
    BY <1>7 DEF n, WithLease
  <2>2. m \in BOOLEAN
    BY <1>5
  <2>3. QED
    BY <1>3, <1>4, <1>6, <2>1, <2>2, SetLease
<1>9. QED
  BY <1>4, <1>5, <1>8 DEF n

-----------------------------------------------------------------------------
(* The steps that open no breaker and touch no request.                    *)

LEMMA BoundActive ==
    ASSUME NEW a \in AffinityType, NEW st, NEW snaps, NEW rev, ActiveCurrent(st, snaps, rev),
           Remembered(a, snaps, rev), NEW k \in StickyKey, IsBound(a.assigned[k])
    PROVE  LET p == a.assigned[k].provider
           IN  /\ p \in Provider /\ st[p].active # NoSlot
               /\ ActiveMatches(st[p], snaps[rev][p])
<1> DEFINE b == a.assigned[k]
<1>1. b \in Binding \cup {Unbound}
  BY AffinityFields
<1>2. b \in Binding /\ b.provider \in Provider
  BY <1>1, BoundFacts
<1>3. BindingCurrent(k, b, snaps, rev)
  BY DEF Remembered
<1>4. rev > 0 /\ b.provider \in DOMAIN snaps[rev]
  BY <1>3 DEF BindingCurrent, Supports, StaticActive
<1> HIDE DEF b
<1>5. ActiveMatches(st[b.provider], snaps[rev][b.provider])
  BY <1>2, <1>4 DEF ActiveCurrent
<1>6. QED
  BY <1>2, <1>5 DEF b, ActiveMatches

LEMMA KeepsMemory ==
    ASSUME NEW a \in AffinityType, NEW n, Keeps(n, a), NEW st, NEW st2, NEW snaps, NEW rev,
           ActiveCurrent(st, snaps, rev), Remembered(a, snaps, rev), BindingsOpen(a, st),
           \A p \in Provider : Quiet(st[p], st2[p])
    PROVE  Remembered(n, snaps, rev) /\ BindingsOpen(n, st2)
<1>1. ASSUME NEW k \in StickyKey, NEW b, NEW c, From(b, c), BindingCurrent(k, c, snaps, rev)
      PROVE  BindingCurrent(k, b, snaps, rev)
  BY <1>1, FromFacts DEF BindingCurrent
<1>2. Remembered(n, snaps, rev)
  BY <1>1 DEF Remembered, Keeps
<1>3. ASSUME NEW k \in StickyKey, IsBound(n.assigned[k])
      PROVE  Open(st2[n.assigned[k].provider], k)
  <2>1. IsBound(a.assigned[k]) /\ n.assigned[k].provider = a.assigned[k].provider
    BY <1>3, FromFacts DEF Keeps
  <2> DEFINE p == a.assigned[k].provider
  <2>2. p \in Provider /\ st[p].active # NoSlot
    BY <2>1, BoundActive
  <2>3. Open(st[p], k)
    BY <2>1 DEF BindingsOpen
  <2> HIDE DEF p
  <2>4. Open(st2[p], k)
    BY <2>2, <2>3, QuietOpen
  <2>5. QED
    BY <2>1, <2>4 DEF p
<1>4. QED
  BY <1>2, <1>3 DEF BindingsOpen

LEMMA LeaseProvider ==
    ASSUME NEW q, NEW snaps, NEW rev, NEW st, NEW ls, LeaseKnown(q, snaps, rev, st, ls)
    PROVE  q.provider \in Provider /\ ls[q.token].slot \in Slot /\ q.token \in Token
BY DEF LeaseKnown, Lease

LEMMA RequestsFrame ==
    ASSUME NEW rq, NEW snaps, NEW rev, NEW st, NEW st2, NEW ls,
           RequestsKnown(rq, snaps, rev, st, ls),
           \A p \in Provider : HeldKept(st[p], st2[p], ls, p) /\ st2[p].active = st[p].active
    PROVE  RequestsKnown(rq, snaps, rev, st2, ls)
<1>1. ASSUME NEW r \in Request, Holding(rq[r])
      PROVE  LeaseKnown(rq[r], snaps, rev, st2, ls)
  <2>1. LeaseKnown(rq[r], snaps, rev, st, ls)
    BY <1>1 DEF RequestsKnown
  <2>2. rq[r].provider \in Provider
    BY <2>1, LeaseProvider
  <2>3. QED
    BY <2>1, <2>2, LeaseFrame
<1>2. QED
  BY <1>1 DEF RequestsKnown

LEMMA QuietInv ==
    ASSUME Inv, store' \in [Provider -> ProviderScopes], ScopesSound(store', leases),
           \A p \in Provider : Quiet(store[p], store'[p]) /\ HeldKept(store[p], store'[p], leases, p),
           Keeps(affinity', affinity), UpdatesTyped(updates'),
           UNCHANGED <<leases, snapshots, revision, cursors, requests>>
    PROVE  Inv'
<1>1. StoreInv'
  <2>1. ActiveCurrent(store', snapshots, revision) /\ OffUntouched(store', snapshots, revision)
    BY QuietStore DEF Inv, StoreInv
  <2>2. QED
    BY <2>1 DEF Inv, StoreInv
<1>2. SnapshotInv' /\ CursorInv'
  BY DEF Inv, SnapshotInv, CursorInv
<1>3. RequestInv'
  <2>1. \A p \in Provider : store'[p].active = store[p].active
    BY DEF Quiet
  <2>2. RequestsKnown(requests, snapshots, revision, store', leases)
    BY <2>1, RequestsFrame DEF Inv, RequestInv
  <2>3. QED
    BY <2>2 DEF Inv, RequestInv
<1>4. MemoryInv'
  <2>1. Remembered(affinity', snapshots, revision) /\ BindingsOpen(affinity', store')
    BY KeepsMemory DEF Inv, MemoryInv, StoreInv
  <2>2. QED
    BY <2>1 DEF MemoryInv, Keeps
<1>5. QED
  BY <1>1, <1>2, <1>3, <1>4 DEF Inv

LEMMA TickStep == ASSUME Inv, Tick PROVE Inv'
<1>1. store \in [Provider -> ProviderScopes] /\ ScopesSound(store, leases)
  BY DEF Inv, StoreInv
<1>2. affinity \in AffinityType /\ Indexed(affinity)
  BY DEF Inv, MemoryInv
<1>3. ASSUME NEW p \in Provider
      PROVE  /\ store'[p] = AgeProvider(store[p]) /\ AgeProvider(store[p]) \in ProviderScopes
             /\ SoundScopes(store'[p]) /\ Filed(store'[p]) /\ Accounted(store'[p], leases, p)
             /\ Quiet(store[p], store'[p]) /\ HeldKept(store[p], store'[p], leases, p)
  <2>1. store'[p] = AgeProvider(store[p]) /\ store[p] \in ProviderScopes
    BY <1>1 DEF Tick
  <2>2. SoundScopes(store[p]) /\ Filed(store[p]) /\ Accounted(store[p], leases, p)
    BY <1>1 DEF ScopesSound
  <2>3. SoundScopes(AgeProvider(store[p])) /\ Filed(AgeProvider(store[p]))
    BY <2>1, <2>2, AgeProviderSound, AgeFiled
  <2>4. QED
    BY <2>1, <2>2, <2>3, AgeProviderType, AgeAccounted, AgeQuiet
<1>4. store' \in [Provider -> ProviderScopes] /\ ScopesSound(store', leases)
  BY <1>3 DEF ScopesSound, Tick
<1>5. Keeps(affinity', affinity)
  BY <1>2, AgeAffinityKeeps DEF Tick
<1>6. UpdatesTyped(updates')
  BY DEF Inv, Tick
<1>7. QED
  BY <1>3, <1>4, <1>5, <1>6, QuietInv DEF Tick

LEMMA KeepsSelf == ASSUME NEW a \in AffinityType, Indexed(a) PROVE Keeps(a, a)
BY FromFacts DEF Keeps

LEMMA UpdateErrorStep ==
    ASSUME Inv, NEW u \in updates, NEW b \in BOOLEAN, UpdateError(u, b)
    PROVE  Inv'
<1>1. store \in [Provider -> ProviderScopes] /\ ScopesSound(store, leases)
  BY DEF Inv, StoreInv
<1>2. u.provider \in Provider
  BY DEF Inv, UpdatesTyped
<1>3. ASSUME NEW p \in Provider
      PROVE  /\ store'[p] \in ProviderScopes
             /\ SoundScopes(store'[p]) /\ Filed(store'[p]) /\ Accounted(store'[p], leases, p)
             /\ Quiet(store[p], store'[p]) /\ HeldKept(store[p], store'[p], leases, p)
  <2>1. store[p] \in ProviderScopes
    BY <1>1
  <2>2. SoundScopes(store[p]) /\ Filed(store[p]) /\ Accounted(store[p], leases, p)
    BY <1>1 DEF ScopesSound
  <2>3. store'[p] \in {store[p], UpdateErrorProvider(store[p], u, b)}
    BY <1>1, <1>2 DEF UpdateError
  <2>4. CASE store'[p] = store[p]
    BY <2>1, <2>2, <2>4, QuietSame
  <2>5. CASE store'[p] = UpdateErrorProvider(store[p], u, b)
    <3>1. SoundScopes(UpdateErrorProvider(store[p], u, b)) /\ Filed(UpdateErrorProvider(store[p], u, b))
          /\ UpdateErrorProvider(store[p], u, b) \in ProviderScopes
      BY <2>1, <2>2, UpdateErrorSound, UpdateErrorFiled, UpdateErrorProviderType
    <3>2. QED
      BY <2>1, <2>2, <2>5, <3>1, UpdateErrorAccounted, UpdateErrorQuiet
  <2>6. QED
    BY <2>3, <2>4, <2>5
<1>4. store' \in [Provider -> ProviderScopes] /\ ScopesSound(store', leases)
  <2>1. DOMAIN store' = Provider /\ store' = [p \in Provider |-> store'[p]]
    BY <1>1, <1>2 DEF UpdateError
  <2>2. QED
    BY <1>3, <2>1 DEF ScopesSound
<1>5. Keeps(affinity', affinity)
  BY KeepsSelf DEF UpdateError, Inv, MemoryInv
<1>6. UpdatesTyped(updates')
  BY DEF Inv, UpdateError, UpdatesTyped
<1>7. QED
  BY <1>3, <1>4, <1>5, <1>6, QuietInv DEF UpdateError

-----------------------------------------------------------------------------
(* The steps of one request that leave health and memory alone.            *)

LEMMA RequestStepInv ==
    ASSUME Inv, NEW r \in Request, NEW n \in RequestRecord,
           requests' = [requests EXCEPT ![r] = n],
           UNCHANGED <<store, leases, snapshots, revision, affinity, cursors, updates>>,
           n.status # "idle" => RequestKnown(n, snapshots, revision) /\ WithinBudget(n),
           Holding(n) <=> Holding(requests[r]), Holding(n) => n.token = requests[r].token,
           Holding(n) => LeaseKnown(n, snapshots, revision, store, leases)
    PROVE  Inv'
<1>1. requests \in [Request -> RequestRecord]
  BY DEF Inv, RequestInv
<1>2. requests' \in [Request -> RequestRecord] /\ requests'[r] = n
      /\ \A o \in Request \ {r} : requests'[o] = requests[o]
  BY <1>1
<1>3. \A o \in Request : /\ Holding(requests'[o]) <=> Holding(requests[o])
                         /\ Holding(requests[o]) => requests'[o].token = requests[o].token
  BY <1>2
<1>4. RequestsKnown(requests', snapshots, revision, store, leases)
  <2>1. ASSUME NEW o \in Request
        PROVE  /\ requests'[o].status # "idle" =>
                    RequestKnown(requests'[o], snapshots, revision) /\ WithinBudget(requests'[o])
               /\ Holding(requests'[o]) => LeaseKnown(requests'[o], snapshots, revision, store, leases)
    <3>1. CASE o = r
      BY <1>2, <3>1
    <3>2. CASE o # r
      BY <1>2, <3>2 DEF Inv, RequestInv, RequestsKnown
    <3>3. QED
      BY <3>1, <3>2
  <2>2. QED
    BY <2>1 DEF RequestsKnown
<1>5. TokensHeld(requests', leases)
  <2>1. TokensHeld(requests, leases)
    BY DEF Inv, RequestInv
  <2>2. QED
    BY <1>3, <2>1 DEF TokensHeld
<1>6. RequestInv'
  BY <1>2, <1>4, <1>5 DEF RequestInv
<1>7. QED
  BY <1>6 DEF Inv, StoreInv, SnapshotInv, MemoryInv, CursorInv

LEMMA LimitFacts ==
    ASSUME NEW q
    PROVE  /\ AttemptLimit(q) \in 1..MaxAttempts
           /\ StickyLimit(q) \in 1..StickyNoCooldownAttempts
BY SchedulerAssumption DEF AttemptLimit, StickyLimit

LEMMA BeginStep ==
    ASSUME Inv, NEW r \in Request, NEW key \in Traffic, Begin(r, key)
    PROVE  Inv'
<1> DEFINE n == [NoRequest EXCEPT !.status = "selecting", !.revision = revision, !.key = key]
<1>1. revision \in 0..MaxRevision /\ revision \in 1..revision
  <2>1. revision \in 0..Len(snapshots) /\ Len(snapshots) <= MaxRevision /\ revision > 0
    BY DEF Inv, SnapshotInv, Begin
  <2>2. Len(snapshots) \in Nat /\ MaxRevision \in Nat
    BY SchedulerAssumption DEF Inv, SnapshotInv
  <2>3. QED
    BY <2>1, <2>2
<1>2. n \in RequestRecord
  <2>1. key \in {<<>>} \cup Traffic
    OBVIOUS
  <2>2. QED
    BY <1>1, <2>1, NoRequestType DEF RequestRecord
<1>3. /\ n.status = "selecting" /\ n.revision = revision /\ n.key = key /\ n.attemptsUsed = 0
      /\ n.source = NoSource /\ n.stickyPhase = "pending" /\ n.stickyAttemptsUsed = 0
  BY DEF NoRequest
<1>4. ~n.initialized
  BY DEF NoRequest
<1>5. requests[r] = NoRequest /\ requests' = [requests EXCEPT ![r] = n]
      /\ UNCHANGED <<store, leases, snapshots, revision, affinity, cursors, updates>>
  BY DEF Begin
<1> HIDE DEF n
<1>6. RequestKnown(n, snapshots, revision) /\ WithinBudget(n)
  <2>1. RequestKnown(n, snapshots, revision)
    BY <1>1, <1>3, <1>4 DEF RequestKnown
  <2>2. n.attemptsUsed < AttemptLimit(n)
    BY <1>3, LimitFacts
  <2>3. QED
    BY <1>3, <2>1, <2>2 DEF WithinBudget
<1>7. ~Holding(n) /\ ~Holding(requests[r])
  BY <1>3, <1>5, NoRequestType DEF Holding
<1>8. QED
  BY <1>2, <1>5, <1>6, <1>7, RequestStepInv

LEMMA CancelStep ==
    ASSUME Inv, NEW r \in Request, Cancel(r)
    PROVE  Inv'
<1>1. ~Holding(requests[r])
  BY DEF Cancel, Holding
<1>2. QED
  BY <1>1, NoRequestType, RequestStepInv DEF Cancel

LEMMA StartAttemptStep ==
    ASSUME Inv, NEW r \in Request, StartAttempt(r)
    PROVE  Inv'
<1> DEFINE q == requests[r]
           used == IF q.stickyPhase = "active" THEN q.stickyAttemptsUsed + 1
                   ELSE q.stickyAttemptsUsed
           phase == IF q.stickyPhase = "active" /\ used >= StickyLimit(q)
                    THEN "ended" ELSE q.stickyPhase
           tries == q.attemptsUsed + 1
           n == [q EXCEPT !.status = "sent", !.attemptsUsed = tries,
                          !.stickyAttemptsUsed = used, !.stickyPhase = phase]
<1>1. q \in RequestRecord /\ q.status = "leased"
  BY DEF Inv, RequestInv, StartAttempt
<1>2. requests' = [requests EXCEPT ![r] = n]
      /\ UNCHANGED <<store, leases, snapshots, revision, affinity, cursors, updates>>
  BY <1>1 DEF StartAttempt
<1>3. Holding(q) /\ RequestKnown(q, snapshots, revision) /\ WithinBudget(q)
      /\ LeaseKnown(q, snapshots, revision, store, leases)
  BY <1>1 DEF Inv, RequestInv, RequestsKnown, Holding
<1>4. /\ q.attemptsUsed \in Nat /\ q.stickyAttemptsUsed \in 0..StickyNoCooldownAttempts
      /\ q.stickyPhase \in {"pending", "active", "ended"}
  BY <1>1, RequestFields
<1>5. /\ AttemptLimit(q) \in 1..MaxAttempts /\ StickyLimit(q) \in 1..StickyNoCooldownAttempts
      /\ MaxAttempts \in Nat /\ StickyNoCooldownAttempts \in Nat
  BY LimitFacts, SchedulerAssumption
<1>6. q.attemptsUsed < AttemptLimit(q)
      /\ (q.stickyPhase = "active" => q.stickyAttemptsUsed < StickyLimit(q))
  BY <1>1, <1>3 DEF WithinBudget
<1>7. tries \in 0..MaxAttempts /\ tries <= AttemptLimit(q)
  BY <1>4, <1>5, <1>6
<1>8. used \in 0..StickyNoCooldownAttempts
  BY <1>4, <1>5, <1>6
<1>9. phase \in {"pending", "active", "ended"} /\ (phase = "active" => used < StickyLimit(q))
  BY <1>4, <1>5, <1>6
<1> HIDE DEF used, phase, tries
<1>10. /\ n \in RequestRecord /\ n.status = "sent" /\ n.attemptsUsed = tries
       /\ n.stickyAttemptsUsed = used /\ n.stickyPhase = phase
  BY <1>1, <1>7, <1>8, <1>9 DEF RequestRecord
<1>11. /\ n.revision = q.revision /\ n.key = q.key /\ n.ordered = q.ordered
       /\ n.source = q.source /\ n.provider = q.provider /\ n.token = q.token
  BY <1>1 DEF RequestRecord
<1>12. n.initialized = q.initialized /\ n.migration = q.migration
  BY <1>1 DEF RequestRecord
<1> HIDE DEF n, q
<1>13. q.initialized
  BY <1>3 DEF LeaseKnown
<1>14. RequestKnown(n, snapshots, revision)
  BY <1>3, <1>11, <1>12, <1>13 DEF RequestKnown
<1>15. WithinBudget(n)
  <2>1. AttemptLimit(n) = AttemptLimit(q) /\ StickyLimit(n) = StickyLimit(q)
    BY <1>11 DEF AttemptLimit, StickyLimit
  <2>2. QED
    BY <1>7, <1>9, <1>10, <2>1 DEF WithinBudget
<1>16. LeaseKnown(n, snapshots, revision, store, leases)
  BY <1>3, <1>11, <1>12 DEF LeaseKnown
<1>17. Holding(n)
  BY <1>10 DEF Holding
<1>18. QED
  BY <1>2, <1>3, <1>10, <1>11, <1>14, <1>15, <1>16, <1>17, RequestStepInv DEF q

-----------------------------------------------------------------------------
(* A snapshot is published.                                                *)

LEMMA PublishedSnapshot ==
    ASSUME NEW cfg \in Config, NEW previous, NEW rev \in Nat,
           \A p \in DOMAIN previous : previous[p].epoch \in Nat
    PROVE  LET W == WithHealthEpochs(cfg, previous, rev)
           IN  /\ W \in Snapshot /\ DOMAIN W = DOMAIN cfg
               /\ \A p \in DOMAIN W :
                    /\ W[p].enabled = cfg[p].enabled
                    /\ \/ W[p].epoch = rev
                       \/ /\ p \in DOMAIN previous /\ previous[p].enabled = W[p].enabled
                          /\ W[p].epoch = previous[p].epoch
<1> DEFINE W == WithHealthEpochs(cfg, previous, rev)
           e(p) == IF p \in DOMAIN previous /\ previous[p].enabled = cfg[p].enabled
                   THEN previous[p].epoch ELSE rev
<1>1. DOMAIN cfg \in SUBSET Provider /\ \A p \in DOMAIN cfg : cfg[p] \in SchedulerProvider
  BY SchedulerAssumption
<1>2. W = [p \in DOMAIN cfg |-> [cfg[p] EXCEPT !.epoch = e(p)]]
  BY DEF WithHealthEpochs
<1>3. ASSUME NEW p \in DOMAIN cfg
      PROVE  /\ e(p) \in Nat /\ (e(p) = rev \/ /\ p \in DOMAIN previous
                                                /\ previous[p].enabled = cfg[p].enabled
                                                /\ e(p) = previous[p].epoch)
  OBVIOUS
<1> HIDE DEF W, e
<1>4. ASSUME NEW p \in DOMAIN cfg
      PROVE  W[p] \in SchedulerProvider /\ W[p].epoch = e(p)
  BY <1>1, <1>2, <1>3 DEF SchedulerProvider
<1>5. ASSUME NEW p \in DOMAIN cfg
      PROVE  W[p].enabled = cfg[p].enabled
  BY <1>1, <1>2, <1>3 DEF SchedulerProvider
<1>6. DOMAIN W = DOMAIN cfg /\ W \in [DOMAIN cfg -> SchedulerProvider]
  BY <1>2, <1>4
<1>7. W \in Snapshot
  BY <1>1, <1>6 DEF Snapshot
<1>8. QED
  BY <1>3, <1>4, <1>5, <1>6, <1>7 DEF W

LEMMA PublishEpochs ==
    ASSUME NEW snaps \in Seq(Snapshot), EpochsOrdered(snaps), NEW W \in Snapshot,
           NEW N, N = Len(snaps) + 1, NEW previous,
           previous = IF snaps = <<>> THEN NoProviders ELSE snaps[Len(snaps)],
           \A p \in DOMAIN W :
                \/ W[p].epoch = N
                \/ /\ p \in DOMAIN previous /\ previous[p].enabled = W[p].enabled
                   /\ W[p].epoch = previous[p].epoch
    PROVE  EpochsOrdered(Append(snaps, W))
<1> DEFINE new == Append(snaps, W)
<1>1. /\ N \in Nat /\ DOMAIN snaps = 1..(N - 1) /\ DOMAIN new = 1..N /\ new[N] = W
      /\ \A i \in 1..(N - 1) : new[i] = snaps[i]
  OBVIOUS
<1> HIDE DEF new
<1>2. ASSUME NEW p \in DOMAIN W, W[p].epoch # N
      PROVE  /\ N - 1 \in 1..(N - 1) /\ p \in DOMAIN snaps[N - 1]
             /\ snaps[N - 1][p].enabled = W[p].enabled /\ W[p].epoch = snaps[N - 1][p].epoch
  <2>1. p \in DOMAIN previous
    BY <1>2
  <2>2. snaps # <<>>
    BY <2>1 DEF NoProviders
  <2>3. Len(snaps) = N - 1 /\ Len(snaps) # 0
    BY <2>2
  <2>4. previous = snaps[N - 1]
    BY <2>2, <2>3
  <2>5. QED
    BY <1>1, <1>2, <2>3, <2>4
<1>3. \A i \in DOMAIN snaps : \A p \in DOMAIN snaps[i] : snaps[i][p].epoch <= i
  BY DEF EpochsOrdered
<1>4. ASSUME NEW i \in 1..N, NEW p \in DOMAIN new[i] PROVE new[i][p].epoch <= i
  <2>1. CASE i # N
    BY <1>1, <1>3, <2>1
  <2>2. CASE i = N /\ W[p].epoch # N
    <3>1. N - 1 \in DOMAIN snaps /\ p \in DOMAIN snaps[N - 1] /\ W[p].epoch = snaps[N - 1][p].epoch
      BY <1>1, <1>2, <2>2
    <3>2. snaps[N - 1][p].epoch <= N - 1 /\ snaps[N - 1][p].epoch \in Nat
      <4>1. snaps[N - 1] \in Snapshot
        BY <3>1
      <4>2. snaps[N - 1][p] \in SchedulerProvider
        BY <3>1, <4>1, SnapshotFacts
      <4>3. QED
        BY <1>3, <3>1, <4>2 DEF SchedulerProvider
    <3>3. QED
      BY <1>1, <2>2, <3>1, <3>2
  <2>3. CASE i = N /\ W[p].epoch = N
    BY <1>1, <2>3
  <2>4. QED
    BY <2>1, <2>2, <2>3
<1>5. ASSUME NEW i \in 1..N, NEW j \in 1..N, NEW p \in DOMAIN new[i] \cap DOMAIN new[j],
             i <= j, new[i][p].epoch = new[j][p].epoch, NEW m \in i..j
      PROVE  p \in DOMAIN new[m] /\ new[m][p].enabled = new[i][p].enabled
  <2>1. CASE j # N
    <3>1. i \in DOMAIN snaps /\ j \in DOMAIN snaps /\ m \in DOMAIN snaps
      BY <1>1, <1>5, <2>1
    <3>2. new[i] = snaps[i] /\ new[j] = snaps[j] /\ new[m] = snaps[m]
      BY <1>1, <3>1
    <3>3. QED
      BY <1>5, <3>1, <3>2 DEF EpochsOrdered
  <2>2. CASE i = N
    BY <1>1, <1>5, <2>2
  <2>3. CASE i # N /\ j = N
    <3>1. i \in 1..(N - 1) /\ i \in DOMAIN snaps /\ new[i] = snaps[i] /\ new[j] = W
      BY <1>1, <2>3
    <3>2. snaps[i][p].epoch <= i
      BY <1>3, <1>5, <3>1
    <3>3. snaps[i][p].epoch # N
      <4>1. snaps[i][p] \in SchedulerProvider
        BY <1>5, <3>1, SnapshotFacts
      <4>2. snaps[i][p].epoch \in Nat
        BY <4>1 DEF SchedulerProvider
      <4>3. QED
        BY <1>1, <3>1, <3>2, <4>2
    <3>4. W[p].epoch # N /\ p \in DOMAIN W
      BY <1>5, <3>1, <3>3
    <3>5. /\ N - 1 \in DOMAIN snaps /\ p \in DOMAIN snaps[N - 1]
          /\ snaps[N - 1][p].enabled = W[p].enabled /\ W[p].epoch = snaps[N - 1][p].epoch
      BY <1>1, <1>2, <3>4
    <3>6. i <= N - 1 /\ snaps[i][p].epoch = snaps[N - 1][p].epoch /\ p \in DOMAIN snaps[i]
      BY <1>1, <1>5, <3>1, <3>5
    <3>7. \A o \in i..(N - 1) : p \in DOMAIN snaps[o] /\ snaps[o][p].enabled = snaps[i][p].enabled
      BY <3>1, <3>5, <3>6 DEF EpochsOrdered
    <3>8. CASE m = N
      <4>1. snaps[N - 1][p].enabled = snaps[i][p].enabled
        <5>1. N - 1 \in i..(N - 1)
          BY <1>1, <3>1
        <5>2. QED
          BY <3>7, <5>1
      <4>2. QED
        BY <1>1, <3>1, <3>4, <3>5, <3>8, <4>1
    <3>9. CASE m # N
      <4>1. m \in i..(N - 1) /\ new[m] = snaps[m]
        BY <1>1, <1>5, <2>3, <3>1, <3>9
      <4>2. QED
        BY <3>1, <3>7, <4>1
    <3>10. QED
      BY <3>8, <3>9
  <2>4. QED
    BY <2>1, <2>2, <2>3
<1>6. EpochsOrdered(new)
  BY <1>1, <1>4, <1>5 DEF EpochsOrdered
<1>7. QED
  BY <1>6 DEF new

LEMMA SnapshotAt ==
    ASSUME SnapshotInv, NEW i \in 1..Len(snapshots)
    PROVE  snapshots[i] \in Snapshot
BY DEF SnapshotInv

LEMMA RevisionFacts ==
    ASSUME SnapshotInv
    PROVE  /\ revision \in Nat /\ Len(snapshots) \in Nat /\ revision <= Len(snapshots)
           /\ revision > 0 => snapshots[revision] \in Snapshot
           /\ \A i \in 1..revision : i \in 1..Len(snapshots) /\ snapshots[i] \in Snapshot
<1>1. Len(snapshots) \in Nat /\ revision \in 0..Len(snapshots)
  BY DEF SnapshotInv
<1>2. \A i \in 1..revision : i \in 1..Len(snapshots)
  BY <1>1
<1>3. revision > 0 => revision \in 1..revision
  BY <1>1
<1>4. QED
  BY <1>1, <1>2, <1>3, SnapshotAt

(* Nothing looks beyond the snapshot last reconciled.                      *)
LEMMA SnapshotsFrame ==
    ASSUME NEW snaps, NEW more, NEW rev \in Nat, \A i \in 1..rev : more[i] = snaps[i]
    PROVE  /\ \A st : ActiveCurrent(st, snaps, rev) => ActiveCurrent(st, more, rev)
           /\ \A st : ActiveCurrent(st, snaps, rev) /\ OffUntouched(st, snaps, rev)
                => OffUntouched(st, more, rev)
           /\ \A rq, st, ls :
                RequestsKnown(rq, snaps, rev, st, ls) => RequestsKnown(rq, more, rev, st, ls)
           /\ \A a : Remembered(a, snaps, rev) => Remembered(a, more, rev)
           /\ \A cs : CursorsCurrent(cs, snaps, rev) => CursorsCurrent(cs, more, rev)
<1>1. rev > 0 => more[rev] = snaps[rev]
  OBVIOUS
<1>2. ASSUME NEW st, ActiveCurrent(st, snaps, rev)
      PROVE  ActiveCurrent(st, more, rev)
  BY <1>1, <1>2 DEF ActiveCurrent
<1>3. ASSUME NEW st, ActiveCurrent(st, snaps, rev), OffUntouched(st, snaps, rev)
      PROVE  OffUntouched(st, more, rev)
  BY <1>1, <1>3 DEF ActiveCurrent, OffUntouched
<1>4. ASSUME NEW rq, NEW st, NEW ls, RequestsKnown(rq, snaps, rev, st, ls)
      PROVE  RequestsKnown(rq, more, rev, st, ls)
  <2>1. ASSUME NEW r \in Request, rq[r].status # "idle"
        PROVE  /\ RequestKnown(rq[r], more, rev) /\ WithinBudget(rq[r])
               /\ more[rq[r].revision] = snaps[rq[r].revision]
    <3>1. RequestKnown(rq[r], snaps, rev) /\ WithinBudget(rq[r])
      BY <1>4, <2>1 DEF RequestsKnown
    <3>2. more[rq[r].revision] = snaps[rq[r].revision]
      BY <3>1 DEF RequestKnown
    <3>3. QED
      BY <3>1, <3>2 DEF RequestKnown
  <2>2. ASSUME NEW r \in Request, Holding(rq[r])
        PROVE  LeaseKnown(rq[r], more, rev, st, ls)
    <3>1. LeaseKnown(rq[r], snaps, rev, st, ls) /\ rq[r].status # "idle"
      BY <1>4, <2>2 DEF RequestsKnown, Holding
    <3>2. more[rq[r].revision] = snaps[rq[r].revision]
      BY <2>1, <3>1
    <3>3. QED
      BY <3>1, <3>2, Zenon DEF LeaseKnown
  <2>3. QED
    BY <2>1, <2>2 DEF RequestsKnown
<1>5. ASSUME NEW a, Remembered(a, snaps, rev)
      PROVE  Remembered(a, more, rev)
  <2>1. \A k, b : BindingCurrent(k, b, snaps, rev) => BindingCurrent(k, b, more, rev)
    BY <1>1 DEF BindingCurrent
  <2>2. QED
    BY <1>5, <2>1 DEF Remembered
<1>6. ASSUME NEW cs, CursorsCurrent(cs, snaps, rev)
      PROVE  CursorsCurrent(cs, more, rev)
  BY <1>1, <1>6 DEF CursorsCurrent, CursorCurrent
<1>7. QED
  BY <1>2, <1>3, <1>4, <1>5, <1>6

LEMMA PublishStep ==
    ASSUME Inv, NEW cfg \in Config, Publish(cfg)
    PROVE  Inv'
<1> DEFINE previous == IF snapshots = <<>> THEN NoProviders ELSE snapshots[Len(snapshots)]
           N == Len(snapshots) + 1
           W == WithHealthEpochs(cfg, previous, N)
<1>1. SnapshotInv /\ snapshots \in Seq(Snapshot) /\ Len(snapshots) \in Nat /\ N \in Nat
  BY DEF Inv, SnapshotInv
<1>2. /\ Len(snapshots) < MaxRevision /\ snapshots' = Append(snapshots, W)
      /\ UNCHANGED <<store, leases, revision, affinity, cursors, requests, updates>>
  BY DEF Publish
<1>3. \A p \in DOMAIN previous : previous[p].epoch \in Nat
  <2>1. CASE snapshots = <<>>
    BY <2>1 DEF NoProviders
  <2>2. CASE snapshots # <<>>
    <3>1. Len(snapshots) \in 1..Len(snapshots)
      BY <1>1, <2>2
    <3>2. previous \in Snapshot
      BY <1>1, <2>2, <3>1
    <3>3. \A p \in DOMAIN previous : previous[p] \in SchedulerProvider
      BY <3>2, SnapshotFacts
    <3>4. QED
      BY <3>3 DEF SchedulerProvider
  <2>3. QED
    BY <2>1, <2>2
<1> HIDE DEF previous, W
<1>4. /\ W \in Snapshot
      /\ \A p \in DOMAIN W :
            \/ W[p].epoch = N
            \/ /\ p \in DOMAIN previous /\ previous[p].enabled = W[p].enabled
               /\ W[p].epoch = previous[p].epoch
  BY <1>1, <1>3, PublishedSnapshot DEF W
<1>5. EpochsOrdered(Append(snapshots, W))
  BY <1>1, <1>4, PublishEpochs DEF Inv, SnapshotInv, previous
<1>6. /\ snapshots' \in Seq(Snapshot) /\ Len(snapshots') = N
      /\ \A i \in 1..revision : snapshots'[i] = snapshots[i]
  BY <1>1, <1>2, <1>4, RevisionFacts
<1>7. SnapshotInv'
  <2>1. N <= MaxRevision
    BY <1>1, <1>2, SchedulerAssumption
  <2>2. revision \in 0..N
    BY <1>1, RevisionFacts
  <2>3. QED
    BY <1>2, <1>5, <1>6, <2>1, <2>2 DEF SnapshotInv
<1>8. revision \in Nat
  BY <1>1, RevisionFacts
<1>9. StoreInv'
  BY <1>2, <1>6, <1>8, SnapshotsFrame DEF Inv, StoreInv
<1>10. RequestInv'
  BY <1>2, <1>6, <1>8, SnapshotsFrame DEF Inv, RequestInv
<1>11. MemoryInv' /\ CursorInv'
  BY <1>2, <1>6, <1>8, SnapshotsFrame DEF Inv, MemoryInv, CursorInv
<1>12. UpdatesTyped(updates')
  BY <1>2 DEF Inv
<1>13. QED
  BY <1>7, <1>9, <1>10, <1>11, <1>12 DEF Inv

-----------------------------------------------------------------------------
(* A snapshot is reconciled.                                               *)

(* Provider p is in the same health epoch in the new snapshot.             *)
SamePeriod(p, rev) ==
    /\ revision > 0 /\ p \in DOMAIN snapshots[revision]
    /\ snapshots[revision][p].epoch = snapshots[rev][p].epoch

LEMMA ReconcileProviderFacts ==
    ASSUME Inv, NEW rev \in 1..Len(snapshots), Reconcile(rev), NEW p \in Provider
    PROVE  /\ store'[p] \in ProviderScopes /\ SoundScopes(store'[p]) /\ Filed(store'[p])
           /\ Accounted(store'[p], leases, p) /\ HeldKept(store[p], store'[p], leases, p)
           /\ store'[p].active # NoSlot => p \in DOMAIN snapshots[rev]
           /\ p \in DOMAIN snapshots[rev] =>
                /\ ActiveMatches(store'[p], snapshots[rev][p])
                /\ SamePeriod(p, rev) =>
                    /\ store[p].active # NoSlot
                    /\ \A x \in EntryId :
                        LET e == store[p].scope[store[p].active].entry[x]
                            f == store'[p].scope[store'[p].active].entry[x]
                        IN  /\ f.state = "cooldown" => e.state = "cooldown"
                            /\ e.consecutiveFailures = 0 => f.consecutiveFailures = 0
                /\ ~SamePeriod(p, rev) => Untouched(store'[p])
<1> DEFINE after == snapshots[rev]
           ps == store[p]
           new == store'[p]
<1>1. store \in [Provider -> ProviderScopes] /\ ps \in ProviderScopes
  BY DEF Inv, StoreInv
<1>2. SoundScopes(ps) /\ Filed(ps) /\ Accounted(ps, leases, p)
  BY DEF Inv, StoreInv, ScopesSound
<1>3. after \in Snapshot
  BY SnapshotAt DEF Inv
<1>4. CASE p \notin DOMAIN after
  <2>1. new = Retire(ps)
    BY <1>4 DEF Reconcile
  <2>2. Retire(ps).active = NoSlot
    BY <1>1, RetireShape
  <2>3. /\ Retire(ps) \in ProviderScopes /\ SoundScopes(Retire(ps)) /\ Filed(Retire(ps))
        /\ Accounted(Retire(ps), leases, p) /\ HeldKept(ps, Retire(ps), leases, p)
    <3> HIDE DEF ps
    <3>1. QED
      BY <1>1, <1>2, RetireType, RetireSound, RetireFiled, RetireAccounted, RetireKeeps
  <2>4. QED
    BY <1>4, <2>1, <2>2, <2>3
<1>5. CASE p \in DOMAIN after
  <2> DEFINE c == Core(after[p])
  <2>1. after[p] \in SchedulerProvider
    BY <1>3, <1>5, SnapshotFacts
  <2>2. new = ReconcileProvider(ps, after[p])
    BY <1>5 DEF Reconcile
  <2>3. /\ c \in CompiledProvider /\ c.epoch = after[p].epoch
        /\ \A s : ActiveMatches(s, after[p]) <=> ActiveMatches(s, c)
        /\ \A s : ReconcileProvider(s, after[p]) = ReconcileProvider(s, c)
    BY <2>1, CoreFacts
  <2>4. ActiveMatches(ps, after[p]) \/ FreeSlots(Retire(ps)) # {}
    BY <1>5 DEF Reconcile
  <2> HIDE DEF c
  <2>5. new = ReconcileProvider(ps, c) /\ (ActiveMatches(ps, c) \/ FreeSlots(Retire(ps)) # {})
    BY <2>2, <2>3, <2>4
  <2> DEFINE r == ReconcileProvider(ps, c)
  <2>6. r \in ProviderScopes /\ SoundScopes(r) /\ Filed(r) /\ Accounted(r, leases, p)
    <3> HIDE DEF ps
    <3>1. QED
      BY <1>1, <1>2, <2>3, <2>5, ReconcileProviderType, ReconcileSound, ReconcileFiled, ReconcileAccounted
  <2>7. /\ ActiveMatches(r, c) /\ HeldKept(ps, r, leases, p)
        /\ IF ps.active # NoSlot /\ ps.scope[ps.active].epoch = c.epoch
           THEN \A x \in EntryId :
                 LET e == ps.scope[ps.active].entry[x]
                     f == r.scope[r.active].entry[x]
                 IN  /\ f.state = "cooldown" => e.state = "cooldown"
                     /\ e.consecutiveFailures = 0 => f.consecutiveFailures = 0
           ELSE Untouched(r)
    <3> HIDE DEF ps
    <3>1. QED
      BY <1>1, <1>2, <2>3, <2>5, ReconcileKeeps
  <2>8. SamePeriod(p, rev) <=> (ps.active # NoSlot /\ ps.scope[ps.active].epoch = c.epoch)
    <3>1. /\ ps.active # NoSlot => revision > 0 /\ p \in DOMAIN snapshots[revision]
          /\ revision > 0 /\ p \in DOMAIN snapshots[revision] => ActiveMatches(ps, snapshots[revision][p])
      BY DEF Inv, StoreInv, ActiveCurrent
    <3>2. ASSUME SamePeriod(p, rev)
          PROVE  ps.active # NoSlot /\ ps.scope[ps.active].epoch = c.epoch
      BY <2>3, <3>1, <3>2 DEF SamePeriod, ActiveMatches, Matches
    <3>3. ASSUME ps.active # NoSlot, ps.scope[ps.active].epoch = c.epoch
          PROVE  SamePeriod(p, rev)
      BY <2>3, <3>1, <3>3 DEF SamePeriod, ActiveMatches, Matches
    <3>4. QED
      BY <3>2, <3>3
  <2>9. ActiveMatches(new, after[p])
    BY <2>3, <2>5, <2>7
  <2> HIDE DEF r, ps
  <2>10. new = r
    BY <2>5 DEF r
  <2> HIDE DEF new
  <2>11. SamePeriod(p, rev) =>
            /\ ps.active # NoSlot
            /\ \A x \in EntryId :
                        LET e == ps.scope[ps.active].entry[x]
                            f == new.scope[new.active].entry[x]
                        IN  /\ f.state = "cooldown" => e.state = "cooldown"
                            /\ e.consecutiveFailures = 0 => f.consecutiveFailures = 0
    BY <2>7, <2>8, <2>10
  <2>12. ~SamePeriod(p, rev) => Untouched(new)
    BY <2>7, <2>8, <2>10
  <2>13. QED
    BY <1>5, <2>6, <2>7, <2>9, <2>10, <2>11, <2>12, Zenon DEF ps, new
<1>6. QED
  BY <1>4, <1>5

(* A request of an older snapshot outlives a step that keeps the scopes    *)
(* leases come from.                                                       *)
LEMMA LeaseOutdated ==
    ASSUME NEW q, NEW snaps, NEW rev, NEW rev2, NEW st, NEW st2, NEW ls,
           LeaseKnown(q, snaps, rev, st, ls), q.revision # rev2,
           HeldKept(st[q.provider], st2[q.provider], ls, q.provider)
    PROVE  LeaseKnown(q, snaps, rev2, st2, ls)
<1> DEFINE l == ls[q.token]
<1>1. q.token \in Token /\ l \in Lease /\ l.provider = q.provider /\ l.slot \in Slot
  BY DEF LeaseKnown, Lease
<1>2. l # NoLease
  BY <1>1, LeaseIsReal
<1>3. q.token \in Out(ls, q.provider, l.slot)
  BY <1>1, <1>2 DEF Out
<1>4. SameKey(st[q.provider].scope[l.slot], st2[q.provider].scope[l.slot])
  BY <1>1, <1>3 DEF HeldKept
<1>5. Matches(st2[q.provider].scope[l.slot], snaps[q.revision][q.provider])
  <2>1. Matches(st[q.provider].scope[l.slot], snaps[q.revision][q.provider])
    BY DEF LeaseKnown
  <2>2. \A k : Matches(st[q.provider].scope[l.slot], k) <=> Matches(st2[q.provider].scope[l.slot], k)
    <3> HIDE DEF l
    <3>1. QED
      BY <1>4, SameKeyFacts
  <2>3. QED
    BY <2>1, <2>2
<1>6. QED
  BY <1>5 DEF LeaseKnown

LEMMA ReconcileStore ==
    ASSUME Inv, NEW rev \in 1..Len(snapshots), Reconcile(rev)
    PROVE  StoreInv'
<1>1. /\ leases' = leases /\ snapshots' = snapshots /\ revision' = rev /\ rev > revision
      /\ DOMAIN store' = Provider /\ store' = [p \in Provider |-> store'[p]]
  BY DEF Reconcile
<1>2. store' \in [Provider -> ProviderScopes] /\ ScopesSound(store', leases)
  BY <1>1, ReconcileProviderFacts DEF ScopesSound
<1>3. rev > 0
  OBVIOUS
<1>4. ActiveCurrent(store', snapshots, rev)
  BY <1>3, ReconcileProviderFacts DEF ActiveCurrent
<1>5. ASSUME NEW p \in Provider, store'[p].active # NoSlot, ~snapshots[rev][p].enabled
      PROVE  Untouched(store'[p])
  <2>1. p \in DOMAIN snapshots[rev]
    BY <1>5, ReconcileProviderFacts
  <2>2. CASE ~SamePeriod(p, rev)
    BY <2>1, <2>2, ReconcileProviderFacts
  <2>3. CASE SamePeriod(p, rev)
    <3>1. /\ store[p].active # NoSlot
          /\ \A x \in EntryId :
                store[p].scope[store[p].active].entry[x].consecutiveFailures = 0
                => store'[p].scope[store'[p].active].entry[x].consecutiveFailures = 0
      BY <2>1, <2>3, ReconcileProviderFacts
    <3>2. revision \in DOMAIN snapshots /\ rev \in DOMAIN snapshots /\ rev \in revision..rev
          /\ revision <= rev
      <4>1. revision \in Nat /\ revision <= Len(snapshots) /\ Len(snapshots) \in Nat
            /\ DOMAIN snapshots = 1..Len(snapshots)
        BY RevisionFacts DEF Inv, SnapshotInv
      <4>2. QED
        BY <1>1, <2>3, <4>1 DEF SamePeriod
    <3>3. p \in DOMAIN snapshots[revision] \cap DOMAIN snapshots[rev]
          /\ snapshots[revision][p].epoch = snapshots[rev][p].epoch
      BY <2>1, <2>3 DEF SamePeriod
    <3>4. snapshots[rev][p].enabled = snapshots[revision][p].enabled
      BY <3>2, <3>3 DEF Inv, SnapshotInv, EpochsOrdered
    <3>5. Untouched(store[p])
      BY <1>5, <3>1, <3>4 DEF Inv, StoreInv, OffUntouched
    <3>6. QED
      BY <3>1, <3>5 DEF Untouched
  <2>4. QED
    BY <2>2, <2>3
<1>6. OffUntouched(store', snapshots, rev)
  BY <1>5 DEF OffUntouched
<1>7. leases \in [Token -> Lease \cup {NoLease}]
  BY DEF Inv, StoreInv
<1>8. QED
  BY <1>1, <1>2, <1>4, <1>6, <1>7 DEF StoreInv

LEMMA ReconcileRequests ==
    ASSUME Inv, NEW rev \in 1..Len(snapshots), Reconcile(rev)
    PROVE  RequestInv'
<1>1. /\ leases' = leases /\ snapshots' = snapshots /\ revision' = rev /\ rev > revision
      /\ requests' = requests
  BY DEF Reconcile
<1>2. RequestsKnown(requests, snapshots, revision, store, leases)
  BY DEF Inv, RequestInv
<1>3. revision \in Nat
  BY RevisionFacts DEF Inv
<1>4. ASSUME NEW r \in Request, requests[r].status # "idle"
      PROVE  /\ RequestKnown(requests[r], snapshots, rev) /\ WithinBudget(requests[r])
             /\ requests[r].revision # rev
  <2>1. RequestKnown(requests[r], snapshots, revision) /\ WithinBudget(requests[r])
    BY <1>2, <1>4 DEF RequestsKnown
  <2>2. requests[r].revision \in 1..revision
    BY <2>1 DEF RequestKnown
  <2>3. requests[r].revision \in 1..rev /\ requests[r].revision # rev
    BY <1>1, <1>3, <2>2
  <2>4. QED
    BY <2>1, <2>3 DEF RequestKnown
<1>5. ASSUME NEW r \in Request, Holding(requests[r])
      PROVE  LeaseKnown(requests[r], snapshots, rev, store', leases)
  <2>1. LeaseKnown(requests[r], snapshots, revision, store, leases)
    BY <1>2, <1>5 DEF RequestsKnown
  <2>2. requests[r].provider \in Provider
    BY <2>1, LeaseProvider
  <2>3. HeldKept(store[requests[r].provider], store'[requests[r].provider], leases, requests[r].provider)
    BY <2>2, ReconcileProviderFacts
  <2>4. requests[r].revision # rev
    BY <1>4, <1>5 DEF Holding
  <2>5. QED
    BY <2>1, <2>3, <2>4, LeaseOutdated
<1>6. RequestsKnown(requests, snapshots, rev, store', leases)
  BY <1>4, <1>5 DEF RequestsKnown
<1>7. QED
  BY <1>1, <1>6 DEF Inv, RequestInv

LEMMA ReconcileMemory ==
    ASSUME Inv, NEW rev \in 1..Len(snapshots), Reconcile(rev)
    PROVE  /\ MemoryInv' /\ CursorInv'
           /\ \A k \in StickyKey :
                /\ IsBound(affinity'.assigned[k]) => SamePeriod(affinity'.assigned[k].provider, rev)
                /\ IsBound(affinity'.pending[k]) => SamePeriod(affinity'.pending[k].provider, rev)
<1> DEFINE after == snapshots[rev]
           before == IF revision = 0 THEN NoProviders ELSE snapshots[revision]
           K == {k \in AssignedKeys(affinity) : ~KeepBinding(before, after, k, affinity.assigned[k])}
           M == {k \in StickyKey : /\ IsBound(affinity.pending[k])
                                   /\ ~KeepBinding(before, after, k, affinity.pending[k])}
           C == {ck \in CursorKey : /\ cursors[ck].provider # NoProvider
                                    /\ ~KeepCursor(before, after, ck, cursors[ck])}
           n == ReconcileAffinity(affinity, K, M)
<1>1. /\ snapshots' = snapshots /\ revision' = rev /\ rev > revision
      /\ affinity' = n /\ cursors' = SetCursors(cursors, C, NoProvider)
  BY DEF Reconcile
<1>2. affinity \in AffinityType /\ Indexed(affinity) /\ Remembered(affinity, snapshots, revision)
      /\ BindingsOpen(affinity, store)
  BY DEF Inv, MemoryInv
<1>3. /\ Keeps(n, affinity)
      /\ \A k \in StickyKey : n.assigned[k] = IF k \in K THEN Unbound ELSE affinity.assigned[k]
      /\ \A k \in StickyKey : n.pending[k] = IF k \in M THEN Unbound ELSE affinity.pending[k]
  <2> HIDE DEF K, M
  <2>1. QED
    BY <1>2, ReconcileAffinityShape
<1>4. rev > 0 /\ revision \in Nat
  BY RevisionFacts DEF Inv
<1>5. ASSUME NEW k \in StickyKey, NEW b, IsBound(b), KeepBinding(before, after, k, b),
             BindingCurrent(k, b, snapshots, revision)
      PROVE  BindingCurrent(k, b, snapshots, rev) /\ SamePeriod(b.provider, rev)
  <2>1. revision > 0 /\ b.provider \in DOMAIN snapshots[revision] /\ b.provider \in DOMAIN after
    BY <1>5 DEF BindingCurrent, KeepBinding, Supports, StaticActive
  <2>2. before = snapshots[revision]
    BY <1>4, <2>1
  <2>3. before[b.provider].epoch = after[b.provider].epoch
    BY <1>5, <2>1, <2>2 DEF KeepBinding, SameEpoch
  <2>4. SamePeriod(b.provider, rev)
    BY <2>1, <2>2, <2>3 DEF SamePeriod
  <2>5. BindingCurrent(k, b, snapshots, rev)
    BY <1>4, <1>5 DEF BindingCurrent, KeepBinding
  <2>6. QED
    BY <2>4, <2>5
<1>6. ASSUME NEW k \in StickyKey, IsBound(n.assigned[k])
      PROVE  /\ n.assigned[k] = affinity.assigned[k] /\ BindingCurrent(k, n.assigned[k], snapshots, rev)
             /\ SamePeriod(n.assigned[k].provider, rev)
  <2>1. k \notin K /\ n.assigned[k] = affinity.assigned[k]
    <3> HIDE DEF K, n
    <3>1. QED
      BY <1>3, <1>6, BoundFacts
  <2>2. KeepBinding(before, after, k, affinity.assigned[k])
    BY <1>6, <2>1 DEF AssignedKeys
  <2>3. BindingCurrent(k, affinity.assigned[k], snapshots, revision)
    BY <1>2 DEF Remembered
  <2> HIDE DEF K, n, before, after
  <2>4. QED
    BY <1>5, <1>6, <2>1, <2>2, <2>3
<1>7. ASSUME NEW k \in StickyKey, IsBound(n.pending[k])
      PROVE  /\ BindingCurrent(k, n.pending[k], snapshots, rev)
             /\ SamePeriod(n.pending[k].provider, rev)
  <2>1. k \notin M /\ n.pending[k] = affinity.pending[k]
    <3> HIDE DEF M, n
    <3>1. QED
      BY <1>3, <1>7, BoundFacts
  <2>2. KeepBinding(before, after, k, affinity.pending[k])
    BY <1>7, <2>1
  <2>3. BindingCurrent(k, affinity.pending[k], snapshots, revision)
    BY <1>2 DEF Remembered
  <2> HIDE DEF M, n, before, after
  <2>4. QED
    BY <1>5, <1>7, <2>1, <2>2, <2>3
<1>8. Remembered(n, snapshots, rev)
  <2> HIDE DEF n
  <2>1. \A k, b : ~IsBound(b) => BindingCurrent(k, b, snapshots, rev)
    BY DEF BindingCurrent
  <2>2. QED
    BY <1>6, <1>7, <2>1 DEF Remembered
<1>9. ASSUME NEW k \in StickyKey, IsBound(n.assigned[k])
      PROVE  Open(store'[n.assigned[k].provider], k)
  <2> DEFINE p == affinity.assigned[k].provider
  <2> HIDE DEF n
  <2>1. IsBound(affinity.assigned[k]) /\ n.assigned[k].provider = p /\ SamePeriod(p, rev)
    BY <1>6, <1>9
  <2>2. p \in DOMAIN after /\ p \in Provider
    <3>1. BindingCurrent(k, n.assigned[k], snapshots, rev)
      BY <1>6, <1>9
    <3>2. p \in Provider
      BY <1>2, <2>1, BoundActive DEF Inv, StoreInv
    <3>3. QED
      BY <1>9, <2>1, <3>1, <3>2 DEF BindingCurrent, Supports, StaticActive
  <2>3. Open(store[p], k)
    BY <1>2, <2>1 DEF BindingsOpen
  <2> HIDE DEF p
  <2>4. \A x \in EntryId :
            store'[p].scope[store'[p].active].entry[x].state = "cooldown"
            => store[p].scope[store[p].active].entry[x].state = "cooldown"
    BY <2>1, <2>2, ReconcileProviderFacts
  <2>5. {Global, <<k[2], k[3]>>} \subseteq EntryId
    BY StickyKeyFacts
  <2>6. Open(store'[p], k)
    BY <2>3, <2>4, <2>5, Zenon DEF Open
  <2>7. QED
    BY <2>1, <2>6
<1>10. MemoryInv'
  <2>1. BindingsOpen(n, store')
    <3> HIDE DEF n
    <3>1. QED
      BY <1>9 DEF BindingsOpen
  <2> HIDE DEF n
  <2>2. QED
    BY <1>1, <1>3, <1>8, <2>1 DEF MemoryInv, Keeps
<1>11. CursorInv'
  <2> DEFINE cs == SetCursors(cursors, C, NoProvider)
  <2>1. cursors \in [CursorKey -> [provider: Provider \cup {NoProvider}, version: CursorVersion]]
    BY DEF Inv, CursorInv
  <2>2. /\ cs \in [CursorKey -> [provider: Provider \cup {NoProvider}, version: CursorVersion]]
        /\ \A ck \in CursorKey :
                    /\ ck \in C => cs[ck].provider = NoProvider
                    /\ ck \notin C => cs[ck] = cursors[ck]
    <3> HIDE DEF C
    <3>1. QED
      BY <2>1, SetCursorsShape
  <2>3. ASSUME NEW ck \in CursorKey, cs[ck].provider # NoProvider
        PROVE  CursorCurrent(ck, cs[ck], snapshots, rev)
    <3>1. ck \notin C /\ cs[ck] = cursors[ck]
      <4> HIDE DEF C, cs
      <4>1. QED
        BY <2>2, <2>3
    <3>2. KeepCursor(before, after, ck, cursors[ck])
      <4> HIDE DEF cs
      <4>1. QED
        BY <2>3, <3>1
    <3> HIDE DEF C, cs
    <3>3. QED
      BY <1>4, <3>1, <3>2 DEF KeepCursor, CursorCurrent
  <2> HIDE DEF cs
  <2>4. CursorsCurrent(cs, snapshots, rev)
    BY <2>3 DEF CursorsCurrent, CursorCurrent
  <2>5. QED
    BY <1>1, <2>2, <2>4 DEF CursorInv, cs
<1> HIDE DEF n
<1>12. QED
  BY <1>1, <1>6, <1>7, <1>10, <1>11

LEMMA ReconcileStep ==
    ASSUME Inv, NEW rev \in 1..Len(snapshots), Reconcile(rev)
    PROVE  Inv'
<1>1. StoreInv' /\ RequestInv' /\ MemoryInv' /\ CursorInv'
  BY ReconcileStore, ReconcileRequests, ReconcileMemory
<1>2. snapshots' = snapshots /\ revision' = rev /\ updates' = updates
  BY DEF Reconcile
<1>3. SnapshotInv'
  <2>1. rev \in 0..Len(snapshots)
    OBVIOUS
  <2>2. QED
    BY <1>2, <2>1 DEF Inv, SnapshotInv
<1>4. UpdatesTyped(updates')
  BY <1>2 DEF Inv
<1>5. QED
  BY <1>1, <1>3, <1>4 DEF Inv

-----------------------------------------------------------------------------
(* Frames for the steps of one request that do change health and memory.   *)

LEMMA LeaseKept ==
    ASSUME NEW q, NEW snaps, NEW rev, NEW st, NEW ls, NEW st2, NEW ls2,
           LeaseKnown(q, snaps, rev, st, ls), ls2[q.token] = ls[q.token],
           HeldKept(st[q.provider], st2[q.provider], ls, q.provider),
           st2[q.provider].active = st[q.provider].active
    PROVE  LeaseKnown(q, snaps, rev, st2, ls2)
<1>1. LeaseKnown(q, snaps, rev, st2, ls)
  BY LeaseFrame
<1>2. QED
  BY <1>1 DEF LeaseKnown

LEMMA RequestReplaced ==
    ASSUME NEW rq \in [Request -> RequestRecord], NEW r \in Request, NEW n \in RequestRecord,
           NEW rq2, rq2 = [rq EXCEPT ![r] = n], NEW snaps, NEW rev, NEW st, NEW ls,
           \A o \in Request \ {r} :
                /\ rq[o].status # "idle" => RequestKnown(rq[o], snaps, rev) /\ WithinBudget(rq[o])
                /\ Holding(rq[o]) => LeaseKnown(rq[o], snaps, rev, st, ls),
           n.status # "idle" => RequestKnown(n, snaps, rev) /\ WithinBudget(n),
           Holding(n) => LeaseKnown(n, snaps, rev, st, ls)
    PROVE  /\ rq2 \in [Request -> RequestRecord] /\ rq2[r] = n
           /\ \A o \in Request \ {r} : rq2[o] = rq[o]
           /\ RequestsKnown(rq2, snaps, rev, st, ls)
<1>1. /\ rq2 \in [Request -> RequestRecord] /\ rq2[r] = n
      /\ \A o \in Request \ {r} : rq2[o] = rq[o]
  OBVIOUS
<1>2. ASSUME NEW o \in Request
      PROVE  /\ rq2[o].status # "idle" => RequestKnown(rq2[o], snaps, rev) /\ WithinBudget(rq2[o])
             /\ Holding(rq2[o]) => LeaseKnown(rq2[o], snaps, rev, st, ls)
  <2>1. CASE o = r
    BY <1>1, <2>1
  <2>2. CASE o # r
    BY <1>1, <2>2
  <2>3. QED
    BY <2>1, <2>2
<1>3. QED
  BY <1>1, <1>2 DEF RequestsKnown

(* One binding is new, and no breaker of the other ones opens.             *)
StaysOpen(st, st2) ==
    \A h \in Provider : \A k \in StickyKey :
        st[h].active # NoSlot /\ Open(st[h], k) => Open(st2[h], k)

LEMMA BindsMemory ==
    ASSUME NEW a \in AffinityType, NEW n, NEW key \in StickyKey, NEW p \in Provider, NEW g,
           Binds(n, a, key, p, g), NEW st, NEW st2, NEW snaps, NEW rev,
           ActiveCurrent(st, snaps, rev), Remembered(a, snaps, rev), BindingsOpen(a, st),
           StaysOpen(st, st2), rev > 0, Supports(snaps[rev], p, key[2]), snaps[rev][p].generation = g,
           Open(st2[p], key)
    PROVE  Remembered(n, snaps, rev) /\ BindingsOpen(n, st2)
<1>1. ASSUME NEW k \in StickyKey, NEW b, NEW c, From(b, c), BindingCurrent(k, c, snaps, rev)
      PROVE  BindingCurrent(k, b, snaps, rev)
  BY <1>1, FromFacts DEF BindingCurrent
<1>2. ASSUME NEW k \in StickyKey
      PROVE  BindingCurrent(k, n.assigned[k], snaps, rev) /\ BindingCurrent(k, n.pending[k], snaps, rev)
  <2>1. CASE k = key
    <3>1. ~IsBound(n.pending[k])
      BY <2>1, BoundFacts DEF Binds
    <3>2. QED
      BY <2>1, <3>1 DEF BindingCurrent, Binds
  <2>2. CASE k # key
    <3>1. From(n.assigned[k], a.assigned[k]) /\ From(n.pending[k], a.pending[k])
      BY <2>2 DEF Binds
    <3>2. QED
      BY <1>1, <3>1 DEF Remembered
  <2>3. QED
    BY <2>1, <2>2
<1>3. ASSUME NEW k \in StickyKey, IsBound(n.assigned[k])
      PROVE  Open(st2[n.assigned[k].provider], k)
  <2>1. CASE k = key
    BY <2>1 DEF Binds
  <2>2. CASE k # key
    <3>1. IsBound(a.assigned[k]) /\ n.assigned[k].provider = a.assigned[k].provider
      BY <1>3, <2>2, FromFacts DEF Binds
    <3> DEFINE h == a.assigned[k].provider
    <3>2. h \in Provider /\ st[h].active # NoSlot
      BY <3>1, BoundActive
    <3>3. Open(st[h], k)
      BY <3>1 DEF BindingsOpen
    <3> HIDE DEF h
    <3>4. Open(st2[h], k)
      BY <3>2, <3>3 DEF StaysOpen
    <3>5. QED
      BY <3>1, <3>4 DEF h
  <2>3. QED
    BY <2>1, <2>2
<1>4. QED
  BY <1>2, <1>3 DEF Remembered, BindingsOpen

LEMMA KeepsTransitive ==
    ASSUME NEW a, NEW b, NEW c, Keeps(a, b), Keeps(b, c)
    PROVE  Keeps(a, c)
<1>1. a \in AffinityType
  BY DEF Keeps
<1>2. ASSUME NEW x \in Binding \cup {Unbound}, NEW y, NEW z, From(x, y), From(y, z)
      PROVE  From(x, z)
  <2>1. From(x, z) \/ ~IsBound(x)
    BY <1>2, FromFacts
  <2>2. ~IsBound(x) => x = Unbound
    BY UnboundUnique
  <2>3. QED
    BY <2>1, <2>2, FromFacts
<1>3. \A k \in StickyKey : a.assigned[k] \in Binding \cup {Unbound} /\ a.pending[k] \in Binding \cup {Unbound}
  BY <1>1, AffinityFields
<1>4. QED
  BY <1>2, <1>3 DEF Keeps

-----------------------------------------------------------------------------
(* Acquire.                                                                *)

Prepared(r) ==
    IF ~requests[r].initialized THEN InitializeSelection(requests[r], Expire(affinity))
    ELSE requests[r]

PreparedAffinity(r) ==
    IF ~requests[r].initialized THEN InitializeAffinity(requests[r], Expire(affinity))
    ELSE Expire(affinity)

(* What the scan needs to know of a request.                               *)
Ready(q) ==
    /\ q \in RequestRecord /\ q.initialized
    /\ q.key \in Traffic /\ q.revision \in 1..revision
    /\ \A n \in Priority : Elements(q.ordered[n]) = Offered(SnapshotOf(q), q.key[2], n)
    /\ q.source # NoSource => q.key \in StickyKey

LEMMA PreparedFacts ==
    ASSUME Inv, NEW r \in Request, requests[r].status = "selecting"
    PROVE  LET q == Prepared(r)
           IN  /\ Ready(q) /\ SameRequest(requests[r], q) /\ q.status = "selecting"
               /\ WithinBudget(q)
               /\ ~requests[r].initialized => q.stickyAttemptsUsed = 0
               /\ Keeps(PreparedAffinity(r), affinity)
<1> DEFINE o == requests[r]
           fresh == Expire(affinity)
<1>1. o \in RequestRecord /\ RequestKnown(o, snapshots, revision) /\ WithinBudget(o)
  BY DEF Inv, RequestInv, RequestsKnown
<1>2. affinity \in AffinityType /\ Indexed(affinity)
  BY DEF Inv, MemoryInv
<1>3. fresh \in AffinityType /\ Indexed(fresh) /\ Keeps(fresh, affinity)
  BY <1>2, ExpireShape, ExpireKeeps
<1>4. o.key \in Traffic /\ o.revision \in 1..revision
      /\ (o.source # NoSource => o.key \in StickyKey)
  BY <1>1 DEF RequestKnown
<1>5. snapshots[o.revision] \in Snapshot
  BY <1>4, RevisionFacts DEF Inv
<1>6. CASE o.initialized
  <2>1. Prepared(r) = o /\ PreparedAffinity(r) = fresh
    BY <1>6 DEF Prepared, PreparedAffinity
  <2>2. Ready(o)
    BY <1>1, <1>4, <1>6 DEF Ready, RequestKnown, SnapshotOf
  <2>3. SameRequest(o, o)
    BY DEF SameRequest
  <2>4. QED
    BY <1>1, <1>3, <1>6, <2>1, <2>2, <2>3
<1>7. CASE ~o.initialized
  <2> DEFINE q == InitializeSelection(o, fresh)
  <2>1. Prepared(r) = q /\ PreparedAffinity(r) = InitializeAffinity(o, fresh)
    BY <1>7 DEF Prepared, PreparedAffinity
  <2>2. /\ q \in RequestRecord /\ SameRequest(o, q) /\ q.initialized
        /\ q.status = o.status /\ q.stickyPhase = o.stickyPhase
        /\ \A m \in Priority : Elements(q.ordered[m]) = Offered(SnapshotOf(o), o.key[2], m)
        /\ q.source # NoSource => o.key \in StickyKey
    <3> HIDE DEF fresh
    <3>1. SnapshotOf(o) \in Snapshot
      BY <1>5 DEF SnapshotOf
    <3>2. QED
      BY <1>1, <1>3, <1>4, <3>1, InitializeShape
  <2>3. HasSession(o) => o.key \in StickyKey
    BY <1>4, TrafficFacts DEF HasSession
  <2>4. Keeps(InitializeAffinity(o, fresh), affinity)
    <3> HIDE DEF fresh
    <3>1. Keeps(InitializeAffinity(o, fresh), fresh)
      BY <1>3, <2>3, InitializeAffinityKeeps
    <3>2. QED
      BY <1>3, <3>1, KeepsTransitive
  <2> HIDE DEF q
  <2>5. q.revision = o.revision /\ q.key = o.key /\ q.attemptsUsed = o.attemptsUsed
        /\ q.stickyAttemptsUsed = o.stickyAttemptsUsed
    BY <2>2 DEF SameRequest
  <2>6. Ready(q)
    BY <1>4, <2>2, <2>5 DEF Ready, SnapshotOf
  <2>7. o.stickyAttemptsUsed = 0
    BY <1>1, <1>7 DEF RequestKnown
  <2>8. WithinBudget(q)
    BY <1>1, <2>2, <2>5 DEF WithinBudget, AttemptLimit, StickyLimit
  <2>9. QED
    BY <2>1, <2>2, <2>4, <2>5, <2>6, <2>7, <2>8
<1>8. QED
  BY <1>6, <1>7

LEMMA TriedFacts ==
    ASSUME Inv, NEW q, Ready(q), NEW p \in Tried(q)
    PROVE  /\ p \in Provider /\ SnapshotOf(q) \in Snapshot
           /\ Supports(SnapshotOf(q), p, q.key[2]) /\ SnapshotOf(q)[p] \in SchedulerProvider
           /\ HealthKeyOf(q, p) \in HealthKey
           /\ KeyEntries(HealthKeyOf(q, p)) = {Global, <<q.key[2], q.key[3]>>}
           /\ HealthKeyOf(q, p).model = q.key[2] /\ HealthKeyOf(q, p).requestType = q.key[3]
           /\ HealthKeyOf(q, p).disableHealth = SnapshotOf(q)[p].disableHealth
           /\ <<q.key[2], q.key[3]>> \in Channel
           /\ PriorityOf(q, p) \in Priority /\ IsReached(q, PriorityOf(q, p))
           /\ \A sc : Matches(sc, HealthKeyOf(q, p)) <=> Matches(sc, SnapshotOf(q)[p])
           /\ \A ps : ActiveMatches(ps, HealthKeyOf(q, p)) <=> ActiveMatches(ps, SnapshotOf(q)[p])
<1>1. q \in RequestRecord /\ q.key \in Traffic /\ q.revision \in 1..revision
  BY DEF Ready
<1>2. \A n \in Priority : q.ordered[n] \in Seq(Provider)
  BY <1>1, RequestFields
<1>3. SnapshotOf(q) \in Snapshot
  BY <1>1, RevisionFacts DEF Inv, SnapshotOf
<1>4. PICK n \in Priority : IsReached(q, n) /\ p \in Elements(q.ordered[n])
  BY <1>2, TriedReached
<1>5. p \in Offered(SnapshotOf(q), q.key[2], n)
  BY <1>4 DEF Ready
<1>6. p \in Provider /\ Supports(SnapshotOf(q), p, q.key[2]) /\ PriorityOf(q, p) = n
  BY <1>5 DEF Offered, PriorityOf
<1>7. SnapshotOf(q)[p] \in SchedulerProvider
  BY <1>3, <1>6, SupportsFacts
<1>8. q.key[2] \in Model /\ q.key[3] \in RequestType /\ <<q.key[2], q.key[3]>> \in Channel
  BY <1>1, TrafficFacts
<1> DEFINE c == SnapshotOf(q)[p]
           k == HealthKeyOf(q, p)
<1>9. k = Key(c, q.key[2], q.key[3])
  BY DEF HealthKeyOf
<1> HIDE DEF c, k
<1>10. /\ k \in HealthKey /\ k.model = q.key[2] /\ k.requestType = q.key[3]
       /\ k.disableHealth = c.disableHealth
       /\ KeyEntries(k) = {Global, <<q.key[2], q.key[3]>>}
       /\ \A sc : Matches(sc, k) <=> Matches(sc, c)
       /\ \A ps : ActiveMatches(ps, k) <=> ActiveMatches(ps, c)
  BY <1>7, <1>8, <1>9, KeyFacts DEF c
<1>11. QED
  BY <1>3, <1>4, <1>6, <1>7, <1>8, <1>10 DEF c, k

LEMMA ScanHealthFacts ==
    ASSUME Inv, NEW q, Ready(q), \A p \in Tried(q) : HasSlot(store[p], HealthKeyOf(q, p)),
           NEW t, t \in Token \/ Winners(q) = {}, NEW p \in Provider
    PROVE  LET new == ScanHealth(q, t)[p]
           IN  /\ new \in ProviderScopes /\ SoundScopes(new) /\ Filed(new)
               /\ Quiet(store[p], new) /\ HeldKept(store[p], new, leases, p)
               /\ p \notin Winners(q) => Accounted(new, leases, p)
               /\ p \in Winners(q) => new = Grant(store[p], HealthKeyOf(q, p), t)
<1> DEFINE new == ScanHealth(q, t)[p]
           k == HealthKeyOf(q, p)
<1>1. store[p] \in ProviderScopes /\ SoundScopes(store[p]) /\ Filed(store[p])
      /\ Accounted(store[p], leases, p)
  BY DEF Inv, StoreInv, ScopesSound
<1>2. Winners(q) \subseteq Tried(q) /\ \A h \in Tried(q) \ Winners(q) : ~DecisionFor(q, h).available
  BY DEF Winners
<1>3. p \in Tried(q) => k \in HealthKey /\ HasSlot(store[p], k)
  BY TriedFacts
<1>4. CASE p \notin Tried(q)
  <2>1. new = store[p]
    BY <1>2, <1>4 DEF ScanHealth
  <2> HIDE DEF new
  <2>2. QED
    BY <1>1, <1>2, <1>4, <2>1, QuietSame DEF new
<1>5. CASE p \in Tried(q) /\ p \notin Winners(q)
  <2>1. new = Inspect(store[p], k) /\ ~Decision(store[p], k).available
    BY <1>2, <1>5 DEF ScanHealth, DecisionFor
  <2> HIDE DEF new, k
  <2>2. Inspect(store[p], k) \in ProviderScopes /\ SoundScopes(Inspect(store[p], k))
        /\ Filed(Inspect(store[p], k)) /\ Accounted(Inspect(store[p], k), leases, p)
    BY <1>1, <1>3, <1>5, <2>1, InspectType, AcquireSound, InspectFiled, InspectAccounted
  <2>3. Quiet(store[p], new) /\ HeldKept(store[p], new, leases, p)
    BY <1>1, <1>3, <1>5, <2>1, AcquireQuiet
  <2>4. QED
    BY <1>5, <2>1, <2>2, <2>3 DEF new, k
<1>6. CASE p \in Winners(q)
  <2>1. new = Grant(store[p], k, t) /\ t \in Token /\ p \in Tried(q)
    BY <1>2, <1>6 DEF ScanHealth
  <2> HIDE DEF new, k
  <2>2. Grant(store[p], k, t) \in ProviderScopes /\ SoundScopes(Grant(store[p], k, t))
        /\ Filed(Grant(store[p], k, t))
    BY <1>1, <1>3, <2>1, GrantType, AcquireSound, GrantFiled
  <2>3. Quiet(store[p], new) /\ HeldKept(store[p], new, leases, p)
    BY <1>1, <1>3, <2>1, AcquireQuiet
  <2>4. QED
    BY <1>6, <2>1, <2>2, <2>3 DEF new, k
<1>7. QED
  BY <1>4, <1>5, <1>6

LEMMA UnavailableStep ==
    ASSUME Inv, NEW r \in Request, requests[r].status = "selecting", NEW q, q = Prepared(r),
           \A p \in Tried(q) : HasSlot(store[p], HealthKeyOf(q, p)), Winners(q) = {},
           Unavailable(r, q, PreparedAffinity(r)), UNCHANGED <<snapshots, revision, updates>>
    PROVE  Inv'
<1> DEFINE a == PreparedAffinity(r)
<1>1. Ready(q) /\ Keeps(a, affinity)
  BY PreparedFacts
<1>2. /\ store' = ScanHealth(q, NoToken) /\ affinity' = a
      /\ requests' = [requests EXCEPT ![r] = NoRequest] /\ leases' = leases /\ cursors' = cursors
  BY DEF Unavailable
<1> HIDE DEF a
<1>3. \A p \in Provider :
        /\ store'[p] \in ProviderScopes /\ SoundScopes(store'[p]) /\ Filed(store'[p])
        /\ Quiet(store[p], store'[p]) /\ HeldKept(store[p], store'[p], leases, p)
        /\ Accounted(store'[p], leases, p)
  BY <1>1, <1>2, ScanHealthFacts
<1>4. store' = [p \in Provider |-> store'[p]]
  BY <1>2 DEF ScanHealth
<1>5. StoreInv'
  <2>1. store' \in [Provider -> ProviderScopes] /\ ScopesSound(store', leases)
    BY <1>3, <1>4 DEF ScopesSound
  <2>2. ActiveCurrent(store', snapshots, revision) /\ OffUntouched(store', snapshots, revision)
    BY <1>3, QuietStore DEF Inv, StoreInv
  <2>3. QED
    BY <1>2, <2>1, <2>2 DEF Inv, StoreInv
<1>6. MemoryInv'
  <2>1. Remembered(a, snapshots, revision) /\ BindingsOpen(a, store')
    BY <1>1, <1>3, KeepsMemory DEF Inv, MemoryInv, StoreInv
  <2>2. QED
    BY <1>1, <1>2, <2>1 DEF MemoryInv, Keeps
<1>7. RequestInv'
  <2>1. RequestsKnown(requests, snapshots, revision, store', leases)
    <3>1. \A p \in Provider : store'[p].active = store[p].active
      BY <1>3 DEF Quiet
    <3>2. QED
      BY <1>3, <3>1, RequestsFrame DEF Inv, RequestInv
  <2>2. requests \in [Request -> RequestRecord] /\ TokensHeld(requests, leases)
    BY DEF Inv, RequestInv
  <2>3. NoRequest \in RequestRecord /\ NoRequest.status = "idle" /\ ~Holding(NoRequest)
    BY NoRequestType
  <2>4. /\ requests' \in [Request -> RequestRecord] /\ requests'[r] = NoRequest
        /\ \A o \in Request \ {r} : requests'[o] = requests[o]
        /\ RequestsKnown(requests', snapshots, revision, store', leases)
    BY <1>2, <2>1, <2>2, <2>3, RequestReplaced DEF RequestsKnown
  <2>5. ~Holding(requests[r])
    BY DEF Holding
  <2>6. TokensHeld(requests', leases)
    <3>1. \A o \in Request : Holding(requests'[o]) <=> Holding(requests[o])
      BY <2>3, <2>4, <2>5
    <3>2. \A o \in Request : Holding(requests[o]) => requests'[o] = requests[o]
      BY <2>4, <2>5
    <3>3. QED
      BY <2>2, <3>1, <3>2 DEF TokensHeld
  <2>7. QED
    BY <1>2, <2>4, <2>6 DEF RequestInv
<1>8. QED
  BY <1>2, <1>5, <1>6, <1>7 DEF Inv, SnapshotInv, CursorInv

(* The lease that a selection of p takes, and the scope it takes it from.  *)
LeaseFor(q, p) ==
    [provider |-> p, slot |-> SlotForAcquire(store[p], HealthKeyOf(q, p)),
     channel |-> <<HealthKeyOf(q, p).model, HealthKeyOf(q, p).requestType>>,
     probes |-> ProbesFor(store[p], HealthKeyOf(q, p))]

SlotsFor(q) == \A p \in Tried(q) : HasSlot(store[p], HealthKeyOf(q, p))

WellChosen(q, p, new, l) ==
    /\ l \in Lease /\ l.provider = p /\ l.channel = <<q.key[2], q.key[3]>>
    /\ l.slot = SlotForAcquire(store[p], HealthKeyOf(q, p))
    /\ Matches(new.scope[l.slot], SnapshotOf(q)[p])
    /\ IsCurrent(q) => l.slot = store[p].active /\ l.slot = new.active
    /\ IsCurrent(q) => \A x \in {Global, <<q.key[2], q.key[3]>>} :
                            new.scope[new.active].entry[x].state # "cooldown"

(* Provider p is the one chosen: its scope, and the lease taken from it.   *)
LEMMA ChosenScope ==
    ASSUME Inv, NEW q, Ready(q), SlotsFor(q), NEW p, p \in Winners(q), NEW t, t \in Token,
           NEW new, new = Grant(store[p], HealthKeyOf(q, p), t), NEW l, l = LeaseFor(q, p)
    PROVE  WellChosen(q, p, new, l)
<1> DEFINE k == HealthKeyOf(q, p)
           s == SlotForAcquire(store[p], k)
<1>1. p \in Tried(q) /\ Decision(store[p], k).available
  BY DEF Winners, DecisionFor
<1>2. HasSlot(store[p], k) /\ k \in HealthKey /\ p \in Provider /\ <<q.key[2], q.key[3]>> \in Channel
      /\ KeyEntries(k) = {Global, <<q.key[2], q.key[3]>>}
      /\ k.model = q.key[2] /\ k.requestType = q.key[3]
  BY <1>1, TriedFacts DEF SlotsFor
<1>3. \A sc : Matches(sc, k) <=> Matches(sc, SnapshotOf(q)[p])
  BY <1>1, TriedFacts
<1>4. \A ps : ActiveMatches(ps, k) <=> ActiveMatches(ps, SnapshotOf(q)[p])
  BY <1>1, TriedFacts
<1>5. store[p] \in ProviderScopes
  BY <1>2 DEF Inv, StoreInv
<1>6. Supports(SnapshotOf(q), p, q.key[2]) /\ q.revision \in 1..revision
  BY <1>1, TriedFacts DEF Ready
<1> HIDE DEF k, s
<1>7. s \in Slot
  BY <1>2, <1>5, SlotForAcquireType DEF s
<1>8. ProbesFor(store[p], k) \subseteq EntryId
  <2>1. KeyEntries(k) \subseteq EntryId
    BY <1>2, KeyEntriesType
  <2>2. QED
    BY <2>1 DEF ProbesFor
<1>9. l = [provider |-> p, slot |-> s, channel |-> <<q.key[2], q.key[3]>>, probes |-> ProbesFor(store[p], k)]
  BY <1>2 DEF LeaseFor, k, s
<1>10. l \in Lease /\ l.provider = p /\ l.channel = <<q.key[2], q.key[3]>> /\ l.slot = s
  BY <1>2, <1>7, <1>8, <1>9 DEF Lease
<1>11. /\ \A x \in KeyEntries(k) : new.scope[s].entry[x].state # "cooldown"
       /\ Matches(new.scope[s], k)
  <2>1. new = Grant(store[p], k, t)
    BY DEF k
  <2>2. QED
    BY <1>1, <1>2, <1>5, <2>1, GrantOpen DEF s, k
<1>12. ASSUME IsCurrent(q) PROVE s = store[p].active
  <2>1. SnapshotOf(q) = snapshots[revision] /\ revision > 0
    BY <1>6, <1>12, RevisionFacts DEF IsCurrent, SnapshotOf, Inv
  <2>2. p \in DOMAIN snapshots[revision]
    BY <1>6, <2>1 DEF Supports, StaticActive
  <2>3. ActiveMatches(store[p], snapshots[revision][p])
    BY <1>2, <2>1, <2>2 DEF Inv, StoreInv, ActiveCurrent
  <2>4. ActiveMatches(store[p], k)
    BY <1>4, <2>1, <2>3
  <2>5. QED
    BY <1>2, <1>5, <2>4, ConsultedMatches DEF s
<1>13. new.active = store[p].active
  BY <1>2, <1>5, GrantShape DEF k
<1>14. QED
  BY <1>2, <1>3, <1>10, <1>11, <1>12, <1>13, Zenon DEF WellChosen, s, k

(* A lease taken from one provider leaves the accounts of the others.      *)
LEMMA GrantElsewhere ==
    ASSUME NEW ls \in [Token -> Lease \cup {NoLease}], NEW t \in Token, ls[t] = NoLease,
           NEW l \in Lease, NEW p, p # l.provider, NEW ps, Accounted(ps, ls, p)
    PROVE  Accounted(ps, [ls EXCEPT ![t] = l], p)
<1> DEFINE ls2 == [ls EXCEPT ![t] = l]
<1>1. \A u \in Token : ls2[u] = IF u = t THEN l ELSE ls[u]
  OBVIOUS
<1> HIDE DEF ls2
<1>2. ASSUME NEW s \in Slot
      PROVE  Counted(ps.scope[s], ls2, Out(ls2, p, s))
  <2>1. Out(ls2, p, s) = Out(ls, p, s) /\ \A u \in Out(ls, p, s) : ls2[u] = ls[u]
    BY <1>1, OutGrant
  <2>2. Counted(ps.scope[s], ls, Out(ls, p, s)) /\ IsFiniteSet(Out(ls, p, s))
    BY OutFinite DEF Accounted
  <2>3. QED
    BY <2>1, <2>2, CountedFrame
<1>3. QED
  BY <1>2 DEF Accounted, ls2

LEMMA SelectStep ==
    ASSUME Inv, NEW r \in Request, requests[r].status = "selecting", NEW q, q = Prepared(r),
           \A p \in Tried(q) : HasSlot(store[p], HealthKeyOf(q, p)), NEW w \in Winners(q),
           NEW first, first = ~requests[r].initialized,
           Select(r, q, PreparedAffinity(r), w, first), UNCHANGED <<snapshots, revision, updates>>
    PROVE  Inv'
<1> DEFINE a == PreparedAffinity(r)
           t == CHOOSE t \in Token : t \notin LiveTokens
           k == HealthKeyOf(q, w)
           l == [provider |-> w, slot |-> SlotForAcquire(store[w], k),
                 channel |-> <<k.model, k.requestType>>, probes |-> ProbesFor(store[w], k)]
           probing == ProbesFor(store[w], k) # {}
           chosen == RecordSelection(q, w, first)
           n == AttemptLease(chosen, w, first, t, probing)
<1>1. /\ Ready(q) /\ SameRequest(requests[r], q) /\ q.status = "selecting" /\ WithinBudget(q)
      /\ first => q.stickyAttemptsUsed = 0
      /\ Keeps(a, affinity)
  BY PreparedFacts
<1>2. /\ Token # LiveTokens /\ store' = ScanHealth(q, t)
      /\ leases' = [leases EXCEPT ![t] = l]
      /\ affinity' = AttemptAffinity(chosen, a, w, first)
      /\ cursors' = AttemptCursors(chosen, w, first, probing)
      /\ requests' = [requests EXCEPT ![r] = n]
  BY DEF Select
<1>3. first \in BOOLEAN /\ probing \in BOOLEAN
  OBVIOUS
<1>4. t \in Token /\ leases[t] = NoLease
  <2>1. LiveTokens \subseteq Token
    BY DEF LiveTokens
  <2>2. \E u \in Token : u \notin LiveTokens
    BY <1>2, <2>1
  <2>3. t \in Token /\ t \notin LiveTokens
    BY <2>2
  <2>4. QED
    BY <2>3 DEF LiveTokens
<1>5. w \in Tried(q)
  BY DEF Winners
<1>6. w \in Provider /\ SnapshotOf(q) \in Snapshot /\ Supports(SnapshotOf(q), w, q.key[2])
      /\ k \in HealthKey /\ k.model = q.key[2] /\ k.requestType = q.key[3] /\ PriorityOf(q, w) \in Priority
  BY <1>1, <1>5, TriedFacts
<1>7. /\ chosen \in RequestRecord /\ SameRequest(q, chosen)
      /\ chosen.initialized = q.initialized /\ chosen.ordered = q.ordered
      /\ chosen.source = q.source /\ chosen.status = q.status
      /\ chosen.stickyPhase = "active" =>
            \/ q.stickyPhase = "active"
            \/ first /\ q.key[3] = "normal" /\ StickyNoCooldownAttempts > 1
  <2>1. q \in RequestRecord
    BY <1>1 DEF Ready
  <2>2. QED
    BY <1>6, <2>1, RecordShape
<1> HIDE DEF a, t, probing, chosen
<1>8. chosen.key = q.key /\ chosen.revision = q.revision /\ chosen.attemptsUsed = q.attemptsUsed
      /\ chosen.stickyAttemptsUsed = q.stickyAttemptsUsed
  BY <1>7 DEF SameRequest
<1>9. SnapshotOf(chosen) = SnapshotOf(q) /\ (IsCurrent(chosen) <=> IsCurrent(q))
      /\ (HasSession(chosen) <=> HasSession(q)) /\ PriorityOf(chosen, w) = PriorityOf(q, w)
  BY <1>8 DEF SnapshotOf, IsCurrent, HasSession, PriorityOf
<1>10. q.key \in Traffic /\ (q.source # NoSource => q.key \in StickyKey) /\ q.revision \in 1..revision
       /\ q.initialized
  BY <1>1 DEF Ready
<1>11. /\ n \in RequestRecord /\ SameRequest(chosen, n)
       /\ n.initialized = chosen.initialized /\ n.ordered = chosen.ordered
       /\ n.source # NoSource => chosen.key \in StickyKey
       /\ n.status = "leased" /\ n.stickyPhase = chosen.stickyPhase
       /\ n.provider = w /\ n.token = t
       /\ n.migration => n.source # NoSource
  <2>1. cursors \in [CursorKey -> [provider: Provider \cup {NoProvider}, version: CursorVersion]]
    BY DEF Inv, CursorInv
  <2>2. chosen.key \in Traffic /\ SnapshotOf(chosen) = SnapshotOf(q)
        /\ Supports(SnapshotOf(q), w, chosen.key[2]) /\ (chosen.source # NoSource => chosen.key \in StickyKey)
    BY <1>6, <1>7, <1>8, <1>9, <1>10
  <2> DEFINE snap == SnapshotOf(q)
  <2>3. /\ snap \in Snapshot /\ SnapshotOf(chosen) = snap /\ Supports(snap, w, chosen.key[2])
        /\ chosen \in RequestRecord
    BY <1>6, <1>7, <2>2
  <2>4. t \in Token /\ w \in Provider
    BY <1>4, <1>6
  <2> HIDE DEF snap, n
  <2>5. n = AttemptLease(chosen, w, first, t, probing)
    BY DEF n
  <2>6. QED
    BY <2>1, <2>2, <2>3, <2>4, <2>5, AttemptShape
<1> HIDE DEF n
<1>12. \A p \in Provider :
        /\ store'[p] \in ProviderScopes /\ SoundScopes(store'[p]) /\ Filed(store'[p])
        /\ Quiet(store[p], store'[p]) /\ HeldKept(store[p], store'[p], leases, p)
        /\ p \notin Winners(q) => Accounted(store'[p], leases, p)
        /\ p \in Winners(q) => store'[p] = Grant(store[p], HealthKeyOf(q, p), t)
  BY <1>1, <1>2, <1>4, ScanHealthFacts
<1>13. Winners(q) = {w}
  <2>1. \A m \in Priority : q.ordered[m] \in Seq(Provider)
    BY <1>1, RequestFields DEF Ready
  <2>2. QED
    BY <2>1, OneWinner
<1>14. store' = [p \in Provider |-> store'[p]]
  BY <1>2 DEF ScanHealth
<1>15. /\ l \in Lease /\ l.provider = w /\ l.channel = <<q.key[2], q.key[3]>>
       /\ l.slot = SlotForAcquire(store[w], k)
       /\ Matches(store'[w].scope[l.slot], SnapshotOf(q)[w])
       /\ IsCurrent(q) => l.slot = store[w].active /\ l.slot = store'[w].active
       /\ IsCurrent(q) => \A x \in {Global, <<q.key[2], q.key[3]>>} :
                                store'[w].scope[store'[w].active].entry[x].state # "cooldown"
  <2> DEFINE new == store'[w]
  <2>1. new = Grant(store[w], HealthKeyOf(q, w), t)
    BY <1>6, <1>12
  <2>2. l = LeaseFor(q, w)
    BY DEF LeaseFor
  <2>3. Inv /\ Ready(q) /\ t \in Token /\ w \in Winners(q) /\ SlotsFor(q)
    BY <1>1, <1>4 DEF SlotsFor
  <2> HIDE DEF l, new
  <2>4. WellChosen(q, w, new, l)
    BY ONLY <2>1, <2>2, <2>3, ChosenScope
  <2>5. QED
    BY <2>4, Zenon DEF WellChosen, new
<1> HIDE DEF l, k
<1>16. leases \in [Token -> Lease \cup {NoLease}] /\ store \in [Provider -> ProviderScopes]
       /\ ScopesSound(store, leases)
  BY DEF Inv, StoreInv
<1>17. leases' \in [Token -> Lease \cup {NoLease}] /\ leases'[t] = l
       /\ \A u \in Token : leases'[u] = IF u = t THEN l ELSE leases[u]
  BY <1>2, <1>4, <1>15, <1>16, Zenon
<1>18. ASSUME NEW p \in Provider PROVE Accounted(store'[p], leases', p)
  <2>1. CASE p = w
    <3>1. store'[w] = Grant(store[w], k, t) /\ HasSlot(store[w], k)
      BY <1>5, <1>12, <1>13, <2>1 DEF k
    <3>2. Filed(store[w]) /\ Accounted(store[w], leases, w) /\ store[w] \in ProviderScopes
      BY <1>6, <1>16 DEF ScopesSound
    <3>3. l.channel = <<k.model, k.requestType>>
      BY <1>6, <1>15, Zenon
    <3>4. Accounted(Grant(store[w], k, t), [leases EXCEPT ![t] = l], w)
      BY <1>4, <1>6, <1>15, <1>16, <3>1, <3>2, <3>3, GrantAccounted, Zenon
    <3>5. QED
      BY <1>2, <2>1, <3>1, <3>4
  <2>2. CASE p # w
    <3>1. Accounted(store'[p], leases, p)
      BY <1>12, <1>13, <2>2
    <3>2. Accounted(store'[p], [leases EXCEPT ![t] = l], p)
      BY <1>4, <1>15, <1>16, <2>2, <3>1, GrantElsewhere, Zenon
    <3>3. QED
      BY <1>2, <3>2 DEF l
  <2>3. QED
    BY <2>1, <2>2
<1>19. StoreInv'
  <2>1. store' \in [Provider -> ProviderScopes] /\ ScopesSound(store', leases')
    BY <1>12, <1>14, <1>18 DEF ScopesSound
  <2>2. ActiveCurrent(store', snapshots, revision) /\ OffUntouched(store', snapshots, revision)
    BY <1>12, QuietStore DEF Inv, StoreInv
  <2>3. QED
    BY <1>17, <2>1, <2>2 DEF StoreInv
<1>20. RequestKnown(n, snapshots, revision)
  <2>1. n.key = q.key /\ n.revision = q.revision /\ n.ordered = q.ordered
    BY <1>7, <1>8, <1>11 DEF SameRequest
  <2>2. n.initialized
    BY <1>7, <1>10, <1>11
  <2>3. \A m \in Priority : Elements(q.ordered[m]) = Offered(snapshots[q.revision], q.key[2], m)
    BY <1>1 DEF Ready, SnapshotOf
  <2>4. n.source # NoSource => n.key \in StickyKey
    BY <1>8, <1>11, <2>1
  <2>5. QED
    BY <1>10, <2>1, <2>2, <2>3, <2>4 DEF RequestKnown
<1>21. WithinBudget(n)
  <2>1. n.key = q.key /\ n.attemptsUsed = q.attemptsUsed /\ n.stickyAttemptsUsed = q.stickyAttemptsUsed
    BY <1>8, <1>11 DEF SameRequest
  <2>2. AttemptLimit(n) = AttemptLimit(q) /\ StickyLimit(n) = StickyLimit(q)
    BY <2>1 DEF AttemptLimit, StickyLimit
  <2>3. n.attemptsUsed < AttemptLimit(n)
    BY <1>1, <2>1, <2>2 DEF WithinBudget
  <2>4. n.stickyPhase = "active" => n.stickyAttemptsUsed < StickyLimit(n)
    <3>1. CASE q.stickyPhase = "active"
      BY <1>1, <2>1, <2>2, <3>1 DEF WithinBudget
    <3>2. CASE first /\ q.key[3] = "normal" /\ StickyNoCooldownAttempts > 1
      <4>1. StickyLimit(q) = StickyNoCooldownAttempts /\ q.stickyAttemptsUsed = 0
        BY <1>1, <3>2 DEF StickyLimit
      <4>2. QED
        BY <2>1, <2>2, <3>2, <4>1, SchedulerAssumption
    <3>3. QED
      BY <1>7, <1>11, <3>1, <3>2
  <2>5. QED
    BY <1>11, <2>3, <2>4 DEF WithinBudget
<1>22. LeaseKnown(n, snapshots, revision, store', leases')
  <2>1. n.key = q.key /\ n.revision = q.revision /\ n.initialized
    BY <1>7, <1>8, <1>10, <1>11 DEF SameRequest
  <2>2. snapshots[q.revision] = SnapshotOf(q) /\ (q.revision = revision => IsCurrent(q))
    BY DEF SnapshotOf, IsCurrent
  <2>3. QED
    <3>1. /\ n.initialized /\ n.token \in Token /\ leases'[n.token] = l /\ l \in Lease
          /\ Supports(snapshots[n.revision], n.provider, n.key[2])
          /\ l.provider = n.provider /\ l.channel = <<n.key[2], n.key[3]>>
      <4>1. n.initialized /\ n.token = t /\ n.provider = w
        BY <1>11, <2>1
      <4>2. n.token \in Token /\ leases'[n.token] = l
        BY <1>4, <1>17, <4>1
      <4>3. Supports(snapshots[n.revision], n.provider, n.key[2])
        BY <1>6, <2>1, <2>2, <4>1, Zenon
      <4>4. l \in Lease /\ l.provider = n.provider /\ l.channel = <<n.key[2], n.key[3]>>
        BY <1>15, <2>1, <4>1, Zenon
      <4>5. QED
        BY <4>1, <4>2, <4>3, <4>4
    <3>2. /\ Matches(store'[n.provider].scope[l.slot], snapshots[n.revision][n.provider])
          /\ n.revision = revision => l.slot = store'[n.provider].active
      BY <1>11, <1>15, <2>1, <2>2, Zenon
    <3>3. n.migration => n.source # NoSource
      BY <1>11
    <3>4. QED
      BY ONLY <3>1, <3>2, <3>3 DEF LeaseKnown
<1>23. /\ requests \in [Request -> RequestRecord] /\ TokensHeld(requests, leases)
       /\ RequestsKnown(requests, snapshots, revision, store, leases) /\ ~Holding(requests[r])
  BY DEF Inv, RequestInv, Holding
<1>24. ASSUME NEW o \in Request \ {r}
       PROVE  /\ requests[o].status # "idle" =>
                    RequestKnown(requests[o], snapshots, revision) /\ WithinBudget(requests[o])
              /\ Holding(requests[o]) => requests[o].token # t
              /\ Holding(requests[o]) => LeaseKnown(requests[o], snapshots, revision, store', leases')
  <2>1. requests[o].status # "idle" =>
            RequestKnown(requests[o], snapshots, revision) /\ WithinBudget(requests[o])
    BY <1>23 DEF RequestsKnown
  <2>2. ASSUME Holding(requests[o])
        PROVE  requests[o].token # t /\ LeaseKnown(requests[o], snapshots, revision, store', leases')
    <3> DEFINE qo == requests[o]
    <3>1. LeaseKnown(qo, snapshots, revision, store, leases)
      BY <1>23, <2>2 DEF RequestsKnown
    <3> HIDE DEF qo
    <3>2. qo.provider \in Provider /\ qo.token \in Token
      BY <3>1, LeaseProvider
    <3>3. qo.token # t
      <4>1. leases[qo.token] \in Lease
        BY <3>1 DEF LeaseKnown
      <4>2. QED
        BY <1>4, <4>1, LeaseIsReal
    <3>4. leases'[qo.token] = leases[qo.token]
      BY <1>17, <3>2, <3>3
    <3>5. /\ HeldKept(store[qo.provider], store'[qo.provider], leases, qo.provider)
          /\ store'[qo.provider].active = store[qo.provider].active
      BY <1>12, <3>2 DEF Quiet
    <3>6. LeaseKnown(qo, snapshots, revision, store', leases')
      BY <3>1, <3>4, <3>5, LeaseKept
    <3>7. QED
      BY <3>3, <3>6 DEF qo
  <2>3. QED
    BY <2>1, <2>2
<1>25. /\ requests' \in [Request -> RequestRecord] /\ requests'[r] = n
       /\ \A o \in Request \ {r} : requests'[o] = requests[o]
       /\ RequestsKnown(requests', snapshots, revision, store', leases')
  <2>1. \A o \in Request \ {r} :
            /\ requests[o].status # "idle" =>
                    RequestKnown(requests[o], snapshots, revision) /\ WithinBudget(requests[o])
            /\ Holding(requests[o]) => LeaseKnown(requests[o], snapshots, revision, store', leases')
    BY <1>24
  <2>2. requests \in [Request -> RequestRecord] /\ n \in RequestRecord
        /\ requests' = [requests EXCEPT ![r] = n]
    BY <1>2, <1>11, <1>23 DEF n
  <2>3. /\ n.status # "idle" => RequestKnown(n, snapshots, revision) /\ WithinBudget(n)
        /\ Holding(n) => LeaseKnown(n, snapshots, revision, store', leases')
    BY <1>20, <1>21, <1>22
  <2>4. QED
    BY <2>1, <2>2, <2>3, RequestReplaced, ZenonT(40)
<1>26. TokensHeld(requests', leases')
  <2>1. Holding(n) /\ n.token = t
    BY <1>11 DEF Holding
  <2>2. ASSUME NEW u \in Token, leases'[u] # NoLease
        PROVE  \E o \in Request : Holding(requests'[o]) /\ requests'[o].token = u
    <3>1. CASE u = t
      BY <1>25, <2>1, <3>1
    <3>2. CASE u # t
      <4>1. leases[u] # NoLease
        BY <1>17, <2>2, <3>2
      <4>2. PICK o \in Request : Holding(requests[o]) /\ requests[o].token = u
        BY <1>23, <4>1 DEF TokensHeld
      <4>3. o # r
        BY <1>23, <4>2
      <4>4. QED
        BY <1>25, <4>2, <4>3
    <3>3. QED
      BY <3>1, <3>2
  <2>3. ASSUME NEW r1 \in Request, NEW r2 \in Request, Holding(requests'[r1]), Holding(requests'[r2]),
               requests'[r1].token = requests'[r2].token
        PROVE  r1 = r2
    <3>1. CASE r1 = r
      BY <1>24, <1>25, <2>1, <2>3, <3>1
    <3>2. CASE r2 = r
      BY <1>24, <1>25, <2>1, <2>3, <3>2
    <3>3. CASE r1 # r /\ r2 # r
      <4>1. requests'[r1] = requests[r1] /\ requests'[r2] = requests[r2]
        BY <1>25, <3>3
      <4>2. QED
        BY <1>23, <2>3, <4>1 DEF TokensHeld
    <3>4. QED
      BY <3>1, <3>2, <3>3
  <2>4. QED
    BY <2>2, <2>3 DEF TokensHeld
<1>27. RequestInv'
  BY <1>25, <1>26 DEF RequestInv
<1>28. affinity \in AffinityType /\ Indexed(affinity) /\ Remembered(affinity, snapshots, revision)
       /\ BindingsOpen(affinity, store) /\ ActiveCurrent(store, snapshots, revision)
  BY DEF Inv, MemoryInv, StoreInv
<1>29. a \in AffinityType /\ Indexed(a)
  BY <1>1 DEF Keeps
<1>30. IsCurrent(q) => SnapshotOf(q) = snapshots[revision] /\ revision > 0
  BY <1>10, RevisionFacts DEF IsCurrent, SnapshotOf, Inv
<1>31. MemoryInv'
  <2>1. CASE BindsSession(chosen, first)
    <3> DEFINE g == SnapshotOf(q)[w].generation
    <3>1. q.key \in StickyKey /\ IsCurrent(q)
      BY <1>8, <1>9, <1>10, <2>1, TrafficFacts DEF BindsSession, HasSession
    <3>2. affinity' = PutAssignment(a, q.key, w, g, NewVersion)
      BY <1>2, <1>8, <1>9, <2>1 DEF AttemptAffinity
    <3>3. g \in Generation
      BY <1>6, SupportsFacts
    <3>4. Binds(affinity', a, q.key, w, g)
      <4> HIDE DEF g
      <4>1. QED
        BY <1>6, <1>29, <3>1, <3>2, <3>3, FreshValues, PutBinds
    <3>5. Remembered(a, snapshots, revision) /\ BindingsOpen(a, store)
      <4>1. \A p \in Provider : Quiet(store[p], store[p])
        BY QuietSame
      <4>2. QED
        BY <1>1, <1>28, <4>1, KeepsMemory
    <3>6. Open(store'[w], q.key)
      BY <1>15, <3>1, Zenon DEF Open
    <3>7. \A h \in Provider : \A j \in StickyKey :
                store[h].active # NoSlot /\ Open(store[h], j) => Open(store'[h], j)
      BY <1>12, QuietOpen
    <3>8. Supports(snapshots[revision], w, q.key[2]) /\ snapshots[revision][w].generation = g /\ revision > 0
      BY <1>6, <1>30, <3>1
    <3> HIDE DEF g
    <3>9. Remembered(affinity', snapshots, revision) /\ BindingsOpen(affinity', store')
      <4> DEFINE n2 == affinity'
                 st2 == store'
      <4>1. /\ a \in AffinityType /\ q.key \in StickyKey /\ w \in Provider /\ Binds(n2, a, q.key, w, g)
            /\ ActiveCurrent(store, snapshots, revision) /\ Remembered(a, snapshots, revision)
            /\ BindingsOpen(a, store) /\ Open(st2[w], q.key)
        BY <1>6, <1>28, <1>29, <3>1, <3>4, <3>5, <3>6
      <4>2. StaysOpen(store, st2)
        BY <3>7 DEF StaysOpen
      <4> HIDE DEF n2, st2
      <4>3. Remembered(n2, snapshots, revision) /\ BindingsOpen(n2, st2)
        BY <3>8, <4>1, <4>2, BindsMemory
      <4>4. QED
        BY <4>3 DEF n2, st2
    <3>10. QED
      BY <3>4, <3>9 DEF MemoryInv, Binds
  <2>2. CASE ~BindsSession(chosen, first)
    <3>1. Keeps(affinity', a)
      <4>1. CASE /\ SourceMatches(chosen.source, chosen, w) /\ IsCurrent(chosen)
                 /\ IsBound(a.assigned[chosen.key]) /\ a.assigned[chosen.key].version = chosen.source.version
        <5>1. affinity' = TouchAssignment(a, q.key) /\ IsBound(a.assigned[q.key])
          BY <1>2, <1>8, <2>2, <4>1 DEF AttemptAffinity
        <5>2. chosen.source # NoSource
          <6>1. chosen.source.provider = w /\ w # NoProvider
            BY <1>6, <4>1, BoundFacts DEF SourceMatches
          <6>2. QED
            BY <6>1 DEF NoSource
        <5>3. q.key \in StickyKey
          BY <1>7, <1>10, <5>2
        <5>4. QED
          BY <1>29, <5>1, <5>3, TouchKeeps
      <4>2. CASE ~(/\ SourceMatches(chosen.source, chosen, w) /\ IsCurrent(chosen)
                   /\ IsBound(a.assigned[chosen.key]) /\ a.assigned[chosen.key].version = chosen.source.version)
        <5>1. affinity' = a
          BY <1>2, <2>2, <4>2 DEF AttemptAffinity
        <5>2. QED
          BY <1>29, <5>1, KeepsSelf
      <4>3. QED
        BY <4>1, <4>2
    <3>2. Keeps(affinity', affinity)
      BY <1>1, <3>1, KeepsTransitive
    <3>3. Remembered(affinity', snapshots, revision) /\ BindingsOpen(affinity', store')
      BY <1>12, <1>28, <3>2, KeepsMemory
    <3>4. QED
      BY <3>2, <3>3 DEF MemoryInv, Keeps
  <2>3. QED
    BY <2>1, <2>2
<1>32. CursorInv'
  <2>1. CursorInv
    BY DEF Inv
  <2>2. CASE first /\ ~SourceMatches(chosen.source, chosen, w) /\ IsCurrent(chosen) /\ ~probing
    <3> DEFINE ck == <<q.key[2], q.key[3], PriorityOf(q, w)>>
               cs == SetCursors(cursors, {ck}, w)
    <3>1. cursors' = cs
      BY <1>2, <1>8, <1>9, <2>2 DEF AttemptCursors
    <3>2. ck[1] = q.key[2] /\ ck[3] = PriorityOf(q, w)
      OBVIOUS
    <3> HIDE DEF ck
    <3>3. /\ cs \in [CursorKey -> [provider: Provider \cup {NoProvider}, version: CursorVersion]]
          /\ \A c \in CursorKey : /\ c \in {ck} => cs[c].provider = w
                                  /\ c \notin {ck} => cs[c] = cursors[c]
      BY <1>6, <2>1, SetCursorsShape DEF CursorInv
    <3> HIDE DEF cs
    <3>4. Supports(snapshots[revision], w, q.key[2]) /\ revision > 0
          /\ snapshots[revision][w].priority = PriorityOf(q, w)
      BY <1>6, <1>9, <1>30, <2>2 DEF PriorityOf
    <3>5. ASSUME NEW c \in CursorKey PROVE CursorCurrent(c, cs[c], snapshots, revision)
      <4>1. CASE c = ck
        BY <3>2, <3>3, <3>4, <4>1 DEF CursorCurrent
      <4>2. CASE c # ck
        BY <2>1, <3>3, <4>2 DEF CursorInv, CursorsCurrent
      <4>3. QED
        BY <4>1, <4>2
    <3>6. QED
      BY <3>1, <3>3, <3>5 DEF CursorInv, CursorsCurrent
  <2>3. CASE ~(first /\ ~SourceMatches(chosen.source, chosen, w) /\ IsCurrent(chosen) /\ ~probing)
    <3>1. cursors' = cursors
      BY <1>2, <2>3 DEF AttemptCursors
    <3>2. QED
      BY <2>1, <3>1 DEF CursorInv
  <2>4. QED
    BY <2>2, <2>3
<1>33. SnapshotInv' /\ UpdatesTyped(updates')
  BY DEF Inv, SnapshotInv
<1>34. QED
  BY <1>19, <1>27, <1>31, <1>32, <1>33 DEF Inv

LEMMA AcquireStep ==
    ASSUME Inv, NEW r \in Request, Acquire(r)
    PROVE  Inv'
<1> DEFINE first == ~requests[r].initialized
           q == Prepared(r)
           a == PreparedAffinity(r)
<1>1. /\ requests[r].status = "selecting"
      /\ \A p \in Tried(q) : HasSlot(store[p], HealthKeyOf(q, p))
      /\ \/ \E p \in Winners(q) : Select(r, q, a, p, first)
         \/ Winners(q) = {} /\ Unavailable(r, q, a)
      /\ UNCHANGED <<snapshots, revision, updates>>
  BY DEF Acquire, Prepared, PreparedAffinity
<1> HIDE DEF q
<1>2. CASE \E p \in Winners(q) : Select(r, q, a, p, first)
  <2>1. PICK w \in Winners(q) : Select(r, q, a, w, first)
    BY <1>2
  <2>2. q = Prepared(r)
    BY DEF q
  <2>3. QED
    BY <1>1, <2>1, <2>2, SelectStep
<1>3. CASE Winners(q) = {} /\ Unavailable(r, q, a)
  <2>1. q = Prepared(r)
    BY DEF q
  <2>2. QED
    BY <1>1, <1>3, <2>1, UnavailableStep
<1>4. QED
  BY <1>1, <1>2, <1>3

-----------------------------------------------------------------------------
(* Report.                                                                 *)

(* A lease given back leaves the accounts of the other providers.          *)
LEMMA ReturnElsewhere ==
    ASSUME NEW ls \in [Token -> Lease \cup {NoLease}], NEW t \in Token, ls[t] # NoLease,
           NEW p, p # ls[t].provider, NEW ps, Accounted(ps, ls, p),
           NEW ls2, ls2 = [ls EXCEPT ![t] = NoLease]
    PROVE  Accounted(ps, ls2, p)
<1>1. \A u \in Token : ls2[u] = IF u = t THEN NoLease ELSE ls[u]
  OBVIOUS
<1>2. ASSUME NEW s \in Slot
      PROVE  Counted(ps.scope[s], ls2, Out(ls2, p, s))
  <2>1. t \notin Out(ls, p, s)
    BY DEF Out
  <2>2. Out(ls2, p, s) = Out(ls, p, s) /\ \A u \in Out(ls, p, s) : ls2[u] = ls[u]
    BY <1>1, <2>1 DEF Out
  <2>3. Counted(ps.scope[s], ls, Out(ls, p, s)) /\ IsFiniteSet(Out(ls, p, s))
    BY OutFinite DEF Accounted
  <2>4. QED
    BY <2>2, <2>3, CountedFrame
<1>3. QED
  BY <1>2 DEF Accounted

(* The lease that an attempt in flight holds.                              *)
LEMMA HeldLease ==
    ASSUME Inv, NEW r \in Request, NEW q, q = requests[r], Holding(q), NEW l, l = leases[q.token]
    PROVE  /\ q \in RequestRecord /\ q.token \in Token /\ q.provider \in Provider
           /\ RequestKnown(q, snapshots, revision) /\ WithinBudget(q)
           /\ LeaseKnown(q, snapshots, revision, store, leases)
           /\ l \in Lease /\ l # NoLease /\ l.slot \in Slot
           /\ l.provider = q.provider /\ l.channel = <<q.key[2], q.key[3]>>
           /\ Exists(store[q.provider].scope[l.slot].entry[l.channel])
           /\ l.slot \notin FreeSlots(store[q.provider])
<1>1. LeaseKnown(q, snapshots, revision, store, leases) /\ q.status # "idle"
  BY DEF Inv, RequestInv, RequestsKnown, Holding
<1>2. q \in RequestRecord /\ RequestKnown(q, snapshots, revision) /\ WithinBudget(q)
  BY <1>1 DEF Inv, RequestInv, RequestsKnown
<1>3. q.provider \in Provider /\ l.slot \in Slot /\ q.token \in Token
  BY <1>1, LeaseProvider
<1>4. l \in Lease /\ l.provider = q.provider /\ l.channel = <<q.key[2], q.key[3]>>
  BY <1>1 DEF LeaseKnown
<1>5. l # NoLease
  BY <1>4, LeaseIsReal
<1>6. Filed(store[q.provider]) /\ Accounted(store[q.provider], leases, q.provider)
  BY <1>3 DEF Inv, StoreInv, ScopesSound
<1>7. q.token \in Out(leases, q.provider, l.slot)
  BY <1>3, <1>4, <1>5 DEF Out
<1>8. l.slot \notin FreeSlots(store[q.provider])
  BY <1>6, <1>7, FreeSlotUnused
<1>9. l.channel \in Channel
  BY <1>2, <1>4, TrafficFacts DEF RequestKnown
<1>10. Exists(store[q.provider].scope[l.slot].entry[l.channel])
  <2>1. Counted(store[q.provider].scope[l.slot], leases, Out(leases, q.provider, l.slot))
    BY <1>3, <1>6 DEF Accounted
  <2>2. q.token \in OnChannel(leases, Out(leases, q.provider, l.slot), l.channel)
    BY <1>7 DEF OnChannel
  <2>3. QED
    BY <1>9, <2>1, <2>2, Zenon DEF Counted
<1>11. QED
  BY <1>1, <1>2, <1>3, <1>4, <1>5, <1>8, <1>10, Zenon

(* What giving the lease of request r back does to the scopes.             *)
LEMMA ReportStore ==
    ASSUME Inv, NEW r \in Request, NEW q, q = requests[r], Holding(q), NEW l, l = leases[q.token],
           NEW o \in Outcome, NEW obs \in Observation \cup {NoObservation}, ReportHealth(q, o, obs)
    PROVE  /\ leases' \in [Token -> Lease \cup {NoLease}]
           /\ \A u \in Token : leases'[u] = IF u = q.token THEN NoLease ELSE leases[u]
           /\ store' \in [Provider -> ProviderScopes] /\ ScopesSound(store', leases')
           /\ store'[q.provider] = ReportProvider(store[q.provider], l, q.token, o, obs)
           /\ \A p \in Provider \ {q.provider} : store'[p] = store[p]
           /\ \A p \in Provider :
                /\ HeldKept(store[p], store'[p], leases', p) /\ store'[p].active = store[p].active
                /\ store[p].active # NoSlot =>
                        SameKey(store[p].scope[store[p].active], store'[p].scope[store[p].active])
<1> DEFINE t == q.token
           h == q.provider
           new == ReportProvider(store[h], l, t, o, obs)
           ls2 == [leases EXCEPT ![t] = NoLease]
<1>1. /\ t \in Token /\ h \in Provider /\ l \in Lease /\ l # NoLease /\ l.provider = h
      /\ l.slot \notin FreeSlots(store[h])
  BY HeldLease
<1>2. store' = [store EXCEPT ![h] = new] /\ leases' = ls2
  BY <1>1 DEF ReportHealth
<1>3. leases \in [Token -> Lease \cup {NoLease}] /\ store \in [Provider -> ProviderScopes]
      /\ ScopesSound(store, leases)
  BY DEF Inv, StoreInv
<1>4. leases' \in [Token -> Lease \cup {NoLease}]
      /\ \A u \in Token : leases'[u] = IF u = t THEN NoLease ELSE leases[u]
  BY <1>1, <1>2, <1>3
<1>5. leases[t] = l
  OBVIOUS
<1> HIDE DEF new, ls2, t, h
<1>6. store'[h] = new /\ \A p \in Provider \ {h} : store'[p] = store[p]
  BY <1>1, <1>2, <1>3
<1>7. store[h] \in ProviderScopes /\ SoundScopes(store[h]) /\ Filed(store[h])
      /\ Accounted(store[h], leases, h)
  BY <1>1, <1>3 DEF ScopesSound
<1>8. new \in ProviderScopes /\ SoundScopes(new) /\ Filed(new) /\ Accounted(new, ls2, h)
  <2>1. new \in ProviderScopes
    BY <1>1, <1>7, ReportProviderType DEF new
  <2>2. SoundScopes(new)
    BY <1>1, <1>7, ReportSound DEF new
  <2>3. Filed(new)
    BY <1>1, <1>7, ReportFiled DEF new
  <2>4. Accounted(new, ls2, h)
    BY <1>1, <1>3, <1>5, <1>7, ReportAccounted DEF new, ls2
  <2>5. QED
    BY <2>1, <2>2, <2>3, <2>4
<1>9. ASSUME NEW p \in Provider, p # h PROVE Accounted(store[p], ls2, p)
  <2>1. Accounted(store[p], leases, p)
    BY <1>3 DEF ScopesSound
  <2>2. p # leases[t].provider /\ leases[t] # NoLease
    BY <1>1, <1>5, <1>9
  <2>3. ls2 = [leases EXCEPT ![t] = NoLease]
    BY DEF ls2
  <2>4. QED
    BY <1>1, <1>3, <2>1, <2>2, <2>3, ReturnElsewhere
<1>10. store' \in [Provider -> ProviderScopes]
  BY <1>2, <1>3, <1>8
<1>11. ScopesSound(store', leases')
  <2>1. ASSUME NEW p \in Provider
        PROVE  SoundScopes(store'[p]) /\ Filed(store'[p]) /\ Accounted(store'[p], ls2, p)
    <3>1. CASE p = h
      BY <1>6, <1>8, <3>1
    <3>2. CASE p # h
      BY <1>3, <1>6, <1>9, <3>2 DEF ScopesSound
    <3>3. QED
      BY <3>1, <3>2
  <2>2. QED
    BY <1>2, <2>1 DEF ScopesSound
<1>12. ASSUME NEW p \in Provider
       PROVE  /\ HeldKept(store[p], store'[p], leases', p) /\ store'[p].active = store[p].active
              /\ store[p].active # NoSlot =>
                        SameKey(store[p].scope[store[p].active], store'[p].scope[store[p].active])
  <2>1. CASE p = h
    <3>1. /\ HeldKept(store[h], new, ls2, h) /\ new.active = store[h].active
          /\ store[h].active # NoSlot =>
                SameKey(store[h].scope[store[h].active], new.scope[store[h].active])
      BY <1>1, <1>7, <1>8, ReportKeeps DEF new
    <3>2. QED
      BY <1>2, <1>6, <2>1, <3>1
  <2>2. CASE p # h
    BY <1>6, <2>2, QuietSame, SameKeyFacts
  <2>3. QED
    BY <2>1, <2>2
<1>13. QED
  BY <1>4, <1>6, <1>10, <1>11, <1>12 DEF new, t, h

BackToSelecting(q) ==
    [q EXCEPT !.status = "selecting", !.provider = NoProvider, !.token = NoToken,
              !.migration = FALSE, !.advanceCursor = FALSE, !.cursorVersion = 0]

LEMMA SetSelecting ==
    ASSUME NEW q \in RequestRecord, NEW n, n = BackToSelecting(q)
    PROVE  /\ n \in RequestRecord /\ SameRequest(q, n)
           /\ n.initialized = q.initialized /\ n.ordered = q.ordered /\ n.source = q.source
           /\ n.status = "selecting" /\ n.stickyPhase = q.stickyPhase
<1> DEFINE n1 == [q EXCEPT !.status = "selecting", !.provider = NoProvider, !.token = NoToken]
           n2 == [n1 EXCEPT !.migration = FALSE, !.advanceCursor = FALSE]
           n3 == [n2 EXCEPT !.cursorVersion = 0]
<1>1. n1 \in RequestRecord
  BY DEF RequestRecord
<1>2. n2 \in RequestRecord
  <2> HIDE DEF n1
  <2>1. QED
    BY <1>1 DEF RequestRecord
<1>3. n3 \in RequestRecord
  <2> HIDE DEF n2
  <2>1. 0 \in CursorVersion
    BY SchedulerAssumption
  <2>2. QED
    BY <1>2, <2>1 DEF RequestRecord
<1>4. n = n3
  BY DEF RequestRecord, BackToSelecting
<1>5. n.initialized = q.initialized
  BY DEF RequestRecord, BackToSelecting
<1>6. /\ SameRequest(q, n) /\ n.ordered = q.ordered /\ n.source = q.source
      /\ n.status = "selecting" /\ n.stickyPhase = q.stickyPhase
  BY DEF RequestRecord, BackToSelecting, SameRequest
<1> HIDE DEF n3
<1>7. QED
  BY <1>3, <1>4, <1>5, <1>6

(* The request goes on to select again, within its budget, or ends.        *)
LEMMA AfterReportShape ==
    ASSUME NEW q \in RequestRecord, q.initialized, Holding(q), NEW snaps, NEW rev,
           RequestKnown(q, snaps, rev), WithinBudget(q), NEW o, NEW n, n = AfterReport(q, o)
    PROVE  /\ n \in RequestRecord /\ ~Holding(n)
           /\ n.status # "idle" => RequestKnown(n, snaps, rev) /\ WithinBudget(n)
<1>1. CASE q.status = "sent" /\ ShouldFailover(o) /\ HasBudget(q)
  <2>1. n = BackToSelecting(q)
    BY <1>1 DEF AfterReport, BackToSelecting
  <2>2. /\ n \in RequestRecord /\ SameRequest(q, n)
        /\ n.initialized = q.initialized /\ n.ordered = q.ordered /\ n.source = q.source
        /\ n.status = "selecting" /\ n.stickyPhase = q.stickyPhase
    BY <2>1, SetSelecting
  <2>3. ~Holding(n)
    BY <2>2 DEF Holding
  <2>4. n.key = q.key /\ n.revision = q.revision /\ n.attemptsUsed = q.attemptsUsed
        /\ n.stickyAttemptsUsed = q.stickyAttemptsUsed
    BY <2>2 DEF SameRequest
  <2>5. RequestKnown(n, snaps, rev)
    BY <2>2, <2>4 DEF RequestKnown
  <2>6. WithinBudget(n)
    <3>1. AttemptLimit(n) = AttemptLimit(q) /\ StickyLimit(n) = StickyLimit(q)
      BY <2>4 DEF AttemptLimit, StickyLimit
    <3>2. q.attemptsUsed < AttemptLimit(q)
      BY <1>1 DEF HasBudget
    <3>3. QED
      BY <2>2, <2>4, <3>1, <3>2 DEF WithinBudget
  <2>7. QED
    BY <2>2, <2>3, <2>5, <2>6
<1>2. CASE ~(q.status = "sent" /\ ShouldFailover(o) /\ HasBudget(q))
  BY <1>2, NoRequestType DEF AfterReport
<1>3. QED
  BY <1>1, <1>2

LEMMA ReportRequests ==
    ASSUME Inv, NEW r \in Request, NEW q, q = requests[r], Holding(q),
           NEW o \in Outcome, NEW obs \in Observation \cup {NoObservation}, ReportHealth(q, o, obs),
           NEW outcome, requests' = [requests EXCEPT ![r] = AfterReport(q, outcome)],
           UNCHANGED <<snapshots, revision>>
    PROVE  RequestInv'
<1> DEFINE t == q.token
           n == AfterReport(q, outcome)
<1>1. /\ q \in RequestRecord /\ t \in Token /\ q.provider \in Provider
      /\ RequestKnown(q, snapshots, revision) /\ WithinBudget(q) /\ q.initialized
  BY HeldLease DEF LeaseKnown
<1>2. /\ \A u \in Token : leases'[u] = IF u = t THEN NoLease ELSE leases[u]
      /\ \A p \in Provider :
                HeldKept(store[p], store'[p], leases', p) /\ store'[p].active = store[p].active
  BY ReportStore
<1>3. /\ n \in RequestRecord /\ ~Holding(n)
      /\ n.status # "idle" => RequestKnown(n, snapshots, revision) /\ WithinBudget(n)
  BY <1>1, AfterReportShape
<1>4. requests' = [requests EXCEPT ![r] = n]
  OBVIOUS
<1> HIDE DEF n, t
<1>5. /\ requests \in [Request -> RequestRecord] /\ TokensHeld(requests, leases)
      /\ RequestsKnown(requests, snapshots, revision, store, leases)
  BY DEF Inv, RequestInv
<1>6. ASSUME NEW i \in Request \ {r}
      PROVE  /\ requests[i].status # "idle" =>
                    RequestKnown(requests[i], snapshots, revision) /\ WithinBudget(requests[i])
             /\ Holding(requests[i]) => LeaseKnown(requests[i], snapshots, revision, store', leases')
  <2>1. requests[i].status # "idle" =>
            RequestKnown(requests[i], snapshots, revision) /\ WithinBudget(requests[i])
    BY <1>5 DEF RequestsKnown
  <2>2. ASSUME Holding(requests[i])
        PROVE  LeaseKnown(requests[i], snapshots, revision, store', leases')
    <3> DEFINE qi == requests[i]
    <3>1. LeaseKnown(qi, snapshots, revision, store, leases)
      BY <1>5, <2>2 DEF RequestsKnown
    <3>2. qi.token # t
      BY <1>5, <2>2 DEF TokensHeld, t
    <3> HIDE DEF qi
    <3>3. qi.provider \in Provider /\ qi.token \in Token
      BY <3>1, LeaseProvider
    <3>4. leases'[qi.token] = leases[qi.token]
      BY <1>2, <3>2, <3>3
    <3>5. /\ HeldKept(store[qi.provider], store'[qi.provider], leases', qi.provider)
          /\ store'[qi.provider].active = store[qi.provider].active
      BY <1>2, <3>3
    <3>6. LeaseKnown(qi, snapshots, revision, store', leases')
      BY <3>1, <3>4, <3>5, LeaseFrame
    <3>7. QED
      BY <3>6 DEF qi
  <2>3. QED
    BY <2>1, <2>2
<1>7. /\ requests' \in [Request -> RequestRecord] /\ requests'[r] = n
      /\ \A i \in Request \ {r} : requests'[i] = requests[i]
      /\ RequestsKnown(requests', snapshots, revision, store', leases')
  <2>1. \A i \in Request \ {r} :
            /\ requests[i].status # "idle" =>
                    RequestKnown(requests[i], snapshots, revision) /\ WithinBudget(requests[i])
            /\ Holding(requests[i]) => LeaseKnown(requests[i], snapshots, revision, store', leases')
    BY <1>6
  <2>2. QED
    BY <1>3, <1>4, <1>5, <2>1, RequestReplaced
<1>8. TokensHeld(requests', leases')
  <2>1. ASSUME NEW u \in Token, leases'[u] # NoLease
        PROVE  \E i \in Request : Holding(requests'[i]) /\ requests'[i].token = u
    <3>1. u # t /\ leases[u] # NoLease
      BY <1>2, <2>1
    <3>2. PICK i \in Request : Holding(requests[i]) /\ requests[i].token = u
      BY <1>5, <3>1 DEF TokensHeld
    <3>3. i # r
      BY <3>1, <3>2 DEF t
    <3>4. QED
      BY <1>7, <3>2, <3>3
  <2>2. ASSUME NEW r1 \in Request, NEW r2 \in Request, Holding(requests'[r1]), Holding(requests'[r2]),
               requests'[r1].token = requests'[r2].token
        PROVE  r1 = r2
    <3>1. r1 # r /\ r2 # r
      BY <1>3, <1>7, <2>2
    <3>2. requests'[r1] = requests[r1] /\ requests'[r2] = requests[r2]
      BY <1>7, <3>1
    <3>3. QED
      BY <1>5, <2>2, <3>2 DEF TokensHeld
  <2>3. QED
    BY <2>1, <2>2 DEF TokensHeld
<1>9. QED
  BY <1>7, <1>8 DEF RequestInv

LEMMA OutcomeTypes ==
    /\ ClientCanceled \in Outcome /\ ClientCanceled.class = "client_canceled"
    /\ LocalFailure \in Outcome
BY DEF ClientCanceled, LocalFailure, Outcome, FailureClass, NoRetryAfter

(* Outcome o of lease t opens breaker x, whose entry is e.                 *)
Opens(e, x, t, o) == FailsEntry(o, x) /\ EntersCooldown(e, t, IsImmediate(o))

(* An entry of the active scope before and after a report.                 *)
LEMMA ReportedEntry ==
    ASSUME NEW ps \in ProviderScopes, NEW l \in Lease, NEW t \in Token,
           NEW o \in Outcome, NEW obs \in Observation \cup {NoObservation},
           NEW x \in EntryId, ps.active # NoSlot,
           NEW new, new = ReportProvider(ps, l, t, o, obs),
           NEW e, e = ps.scope[ps.active].entry[x], NEW f, f = new.scope[ps.active].entry[x]
    PROVE  /\ f.state = "cooldown" =>
                \/ e.state = "cooldown"
                \/ l.slot = ps.active /\ x \in {Global, l.channel} /\ Opens(e, x, t, o)
           /\ (l.slot = ps.active /\ Live(ps, l) /\ o.class = "none" /\ x \in {Global, l.channel})
                => f.state # "cooldown"
           /\ o.class = "client_canceled" =>
                /\ f.state = "cooldown" => e.state = "cooldown"
                /\ e.consecutiveFailures = 0 => f.consecutiveFailures = 0
BY ReportActive DEF Opens

(* A lease of an older view is only taken back.                            *)
LEMMA ReportStaleStep ==
    ASSUME Inv, NEW r \in Request, NEW q, q = requests[r], Holding(q), ReportStale(q),
           NEW outcome, requests' = [requests EXCEPT ![r] = AfterReport(q, outcome)],
           UNCHANGED <<snapshots, revision>>
    PROVE  Inv'
<1> DEFINE l == leases[q.token]
           o == ClientCanceled
           h == q.provider
<1>1. /\ ReportHealth(q, o, NoObservation) /\ affinity' = Expire(affinity)
      /\ UNCHANGED <<cursors, updates>>
  BY DEF ReportStale
<1>2. o \in Outcome /\ o.class = "client_canceled"
  BY OutcomeTypes
<1>3. q.token \in Token /\ h \in Provider /\ l \in Lease
  BY HeldLease
<1> DEFINE obs == NoObservation
<1>4. obs \in Observation \cup {NoObservation} /\ ReportHealth(q, o, obs)
  BY <1>1
<1> HIDE DEF l, o, h, obs
<1>5. l = leases[q.token]
  BY DEF l
<1>6. /\ leases' \in [Token -> Lease \cup {NoLease}]
      /\ store' \in [Provider -> ProviderScopes] /\ ScopesSound(store', leases')
      /\ store'[h] = ReportProvider(store[h], l, q.token, o, obs)
      /\ \A p \in Provider \ {h} : store'[p] = store[p]
      /\ \A p \in Provider :
            /\ store'[p].active = store[p].active
            /\ store[p].active # NoSlot =>
                    SameKey(store[p].scope[store[p].active], store'[p].scope[store[p].active])
  BY <1>2, <1>4, <1>5, ReportStore DEF h
<1>7. store[h] \in ProviderScopes
  BY <1>3 DEF Inv, StoreInv
<1>8. ASSUME NEW p \in Provider PROVE Quiet(store[p], store'[p])
  <2>1. CASE p = h
    <3>1. ASSUME store[h].active # NoSlot, NEW x \in EntryId
          PROVE  LET e == store[h].scope[store[h].active].entry[x]
                     f == store'[h].scope[store[h].active].entry[x]
                 IN  /\ f.state = "cooldown" => e.state = "cooldown"
                     /\ e.consecutiveFailures = 0 => f.consecutiveFailures = 0
      <4> DEFINE ps == store[h]
                 new == store'[h]
                 t == q.token
                 e == ps.scope[ps.active].entry[x]
                 f == new.scope[ps.active].entry[x]
      <4>1. /\ new = ReportProvider(ps, l, t, o, obs) /\ ps \in ProviderScopes /\ ps.active # NoSlot
            /\ l \in Lease /\ t \in Token /\ o \in Outcome /\ obs \in Observation \cup {NoObservation}
        BY <1>2, <1>3, <1>4, <1>6, <1>7, <3>1
      <4>2. e = ps.scope[ps.active].entry[x] /\ f = new.scope[ps.active].entry[x]
        OBVIOUS
      <4> HIDE DEF ps, new, t, e, f
      <4>3. /\ f.state = "cooldown" => e.state = "cooldown"
            /\ e.consecutiveFailures = 0 => f.consecutiveFailures = 0
        BY <1>2, <4>1, <4>2, ReportedEntry
      <4>4. QED
        BY <4>3 DEF e, f, ps, new
    <3>2. QED
      BY <1>3, <1>6, <2>1, <3>1, ZenonT(40) DEF Quiet
  <2>2. CASE p # h
    BY <1>6, <2>2, QuietSame
  <2>3. QED
    BY <2>1, <2>2
<1>9. StoreInv'
  <2>1. ActiveCurrent(store', snapshots, revision) /\ OffUntouched(store', snapshots, revision)
    BY <1>8, QuietStore DEF Inv, StoreInv
  <2>2. QED
    BY <1>6, <2>1 DEF StoreInv
<1>10. RequestInv'
  BY <1>2, <1>4, ReportRequests
<1>11. affinity \in AffinityType /\ Indexed(affinity) /\ Remembered(affinity, snapshots, revision)
       /\ BindingsOpen(affinity, store) /\ ActiveCurrent(store, snapshots, revision)
  BY DEF Inv, MemoryInv, StoreInv
<1>12. Keeps(affinity', affinity)
  BY <1>1, <1>11, ExpireKeeps
<1>13. Remembered(affinity', snapshots, revision) /\ BindingsOpen(affinity', store')
  BY <1>8, <1>11, <1>12, KeepsMemory
<1>14. MemoryInv'
  BY <1>12, <1>13 DEF MemoryInv, Keeps
<1>15. QED
  BY <1>1, <1>9, <1>10, <1>14 DEF Inv, SnapshotInv, CursorInv

(* The scopes keep their keys, so they stay the ones of the snapshot.      *)
LEMMA SameKeyCurrent ==
    ASSUME NEW st, NEW st2, NEW snaps, NEW rev, ActiveCurrent(st, snaps, rev),
           \A p \in Provider :
                /\ st2[p].active = st[p].active
                /\ st[p].active # NoSlot =>
                        SameKey(st[p].scope[st[p].active], st2[p].scope[st[p].active])
    PROVE  ActiveCurrent(st2, snaps, rev)
BY SameKeyFacts DEF ActiveCurrent, ActiveMatches

(* No binding's breakers open.                                             *)
LEMMA StaysOpenMemory ==
    ASSUME NEW a \in AffinityType, NEW st, NEW st2, NEW snaps, NEW rev, ActiveCurrent(st, snaps, rev),
           Remembered(a, snaps, rev), BindingsOpen(a, st), StaysOpen(st, st2)
    PROVE  BindingsOpen(a, st2)
<1>1. ASSUME NEW k \in StickyKey, IsBound(a.assigned[k])
      PROVE  Open(st2[a.assigned[k].provider], k)
  <2> DEFINE h == a.assigned[k].provider
  <2>1. h \in Provider /\ st[h].active # NoSlot
    BY <1>1, BoundActive
  <2>2. Open(st[h], k)
    BY <1>1 DEF BindingsOpen
  <2> HIDE DEF h
  <2>3. Open(st2[h], k)
    BY <2>1, <2>2 DEF StaysOpen
  <2>4. QED
    BY <2>3 DEF h
<1>2. QED
  BY <1>1 DEF BindingsOpen

(* A breaker that opens when the lease of r is reported is one that the    *)
(* health update says has entered its cooldown.                            *)
LEMMA OpensEntered ==
    ASSUME Inv, NEW r \in Request, NEW q, q = requests[r], Holding(q), NEW l, l = leases[q.token],
           IsCurrent(q), NEW o \in Outcome, NEW obs \in Observation \cup {NoObservation},
           ReportHealth(q, o, obs), NEW x \in EntryId,
           store'[q.provider].scope[store[q.provider].active].entry[x].state = "cooldown",
           store[q.provider].scope[store[q.provider].active].entry[x].state # "cooldown"
    PROVE  /\ x \in {Global, l.channel} /\ FailsEntry(o, x) /\ EnteredCooldown(q, o, x)
<1> DEFINE h == q.provider
           s == store[h].active
           e == store[h].scope[s].entry[x]
           new == store'[h]
<1>1. /\ q.token \in Token /\ h \in Provider /\ l \in Lease /\ l.provider = h /\ l.slot \in Slot
      /\ LeaseKnown(q, snapshots, revision, store, leases)
      /\ Exists(store[h].scope[l.slot].entry[l.channel])
  BY HeldLease, Zenon
<1>2. l.slot = s /\ Matches(store[h].scope[s], SnapshotOf(q)[h])
  BY <1>1, Zenon DEF LeaseKnown, IsCurrent, SnapshotOf
<1>3. s # NoSlot /\ s \in Slot
  BY <1>1, <1>2, ConstantsAssumption, Zenon
<1>4. store[h] \in ProviderScopes /\ SoundScopes(store[h])
  BY <1>1, Zenon DEF Inv, StoreInv, ScopesSound
<1> HIDE DEF s, h
<1>5. /\ x \in {Global, l.channel} /\ FailsEntry(o, x)
      /\ EntersCooldown(e, q.token, IsImmediate(o))
  <2>1. /\ new = ReportProvider(store[h], l, q.token, o, obs)
        /\ new.scope[store[h].active].entry[x].state = "cooldown"
        /\ store[h].scope[store[h].active].entry[x].state # "cooldown" /\ store[h].active # NoSlot
    <3>1. /\ Inv /\ r \in Request /\ q = requests[r] /\ Holding(q) /\ l = leases[q.token]
          /\ o \in Outcome /\ obs \in Observation \cup {NoObservation} /\ ReportHealth(q, o, obs)
      BY Zenon
    <3>2. store'[q.provider] = ReportProvider(store[q.provider], l, q.token, o, obs)
      BY ONLY <3>1, ReportStore
    <3>3. QED
      BY <1>3, <3>2, Zenon DEF s, h
  <2> DEFINE ps == store[h]
             t == q.token
             f == new.scope[ps.active].entry[x]
  <2>2. /\ new = ReportProvider(ps, l, t, o, obs) /\ ps \in ProviderScopes /\ ps.active # NoSlot
        /\ l \in Lease /\ t \in Token /\ o \in Outcome /\ obs \in Observation \cup {NoObservation}
        /\ x \in EntryId
    BY <1>1, <1>4, <2>1, Zenon
  <2>3. e = ps.scope[ps.active].entry[x] /\ f = new.scope[ps.active].entry[x]
    BY Zenon DEF s
  <2>4. f.state = "cooldown" /\ e.state # "cooldown"
    BY <2>1, <2>3, Zenon
  <2> HIDE DEF ps, t, f, e, new
  <2>5. f.state = "cooldown" =>
            \/ e.state = "cooldown"
            \/ l.slot = ps.active /\ x \in {Global, l.channel} /\ Opens(e, x, t, o)
    BY ONLY <2>2, <2>3, ReportedEntry
  <2>6. x \in {Global, l.channel} /\ Opens(e, x, t, o)
    BY <2>4, <2>5, Zenon
  <2>7. QED
    BY <2>6, Zenon DEF t, Opens
<1>6. ~SnapshotOf(q)[h].disableHealth
  <2>1. SUFFICES ASSUME SnapshotOf(q)[h].disableHealth PROVE FALSE
    BY Zenon
  <2>2. Exists(e)
    BY <1>1, <1>2, <1>3, <1>4, <1>5, Zenon DEF SoundScopes, HasGlobal, s
  <2>3. store[h].scope[s].disableHealth
    BY <1>2, <2>1, Zenon DEF Matches
  <2>4. Sound(e, store[h].scope[s].disableHealth)
    BY <1>3, <1>4, Zenon DEF SoundScopes, AllSound, ScopeSound
  <2>5. e.state = "disabled"
    BY <2>2, <2>3, <2>4, Zenon DEF Sound
  <2>6. QED
    BY <1>5, <2>5, Zenon DEF EntersCooldown
<1>7. QED
  BY <1>1, <1>2, <1>5, <1>6, Zenon DEF EnteredCooldown, s, h

(* What a report of a current lease does to the breakers of the bindings.  *)
LEMMA ReportOpen ==
    ASSUME Inv, NEW r \in Request, NEW q, q = requests[r], Holding(q), NEW l, l = leases[q.token],
           IsCurrent(q), NEW o \in Outcome, NEW obs \in Observation \cup {NoObservation},
           ReportHealth(q, o, obs)
    PROVE  /\ o.class = "none" => StaysOpen(store, store')
           /\ o.class = "none" => \A k \in StickyKey : k = q.key => Open(store'[q.provider], k)
           /\ \A p \in Provider : \A k \in StickyKey :
                /\ store[p].active # NoSlot /\ Open(store[p], k)
                /\ ~(p = q.provider /\ k \in SuspendedKeys(q, o))
                => Open(store'[p], k)
<1> DEFINE h == q.provider
           ps == store[h]
           new == store'[h]
           t == q.token
<1>1. /\ t \in Token /\ h \in Provider /\ l \in Lease /\ l.slot \in Slot
      /\ LeaseKnown(q, snapshots, revision, store, leases)
      /\ l.channel = <<q.key[2], q.key[3]>> /\ l.provider = h
      /\ Exists(ps.scope[l.slot].entry[l.channel])
  BY HeldLease, Zenon
<1>2. l.slot = ps.active /\ ps.active # NoSlot /\ ps \in ProviderScopes
  BY <1>1, ConstantsAssumption, Zenon DEF LeaseKnown, IsCurrent, Inv, StoreInv
<1>3. new = ReportProvider(ps, l, t, o, obs) /\ new.active = ps.active
      /\ \A p \in Provider \ {h} : store'[p] = store[p]
  <2>1. /\ store'[q.provider] = ReportProvider(store[q.provider], l, q.token, o, obs)
        /\ \A p \in Provider \ {q.provider} : store'[p] = store[p]
        /\ \A p \in Provider : store'[p].active = store[p].active
    BY ReportStore
  <2>2. QED
    BY <1>1, <2>1, Zenon
<1>4. q.key \in Traffic
  BY HeldLease DEF RequestKnown
<1>5. ASSUME NEW x \in EntryId, new.scope[ps.active].entry[x].state = "cooldown",
             ps.scope[ps.active].entry[x].state # "cooldown"
      PROVE  x \in {Global, l.channel} /\ FailsEntry(o, x) /\ EnteredCooldown(q, o, x)
  <2>1. /\ store'[q.provider].scope[store[q.provider].active].entry[x].state = "cooldown"
        /\ store[q.provider].scope[store[q.provider].active].entry[x].state # "cooldown"
    BY <1>5, Zenon
  <2>2. QED
    BY <2>1, OpensEntered, Zenon
<1>6. ASSUME o.class = "none", NEW x \in EntryId PROVE ~FailsEntry(o, x)
  BY <1>6 DEF FailsEntry, IsGlobalFailure, IsChannelFailure
<1>7. ASSUME NEW p \in Provider, NEW k \in StickyKey, store[p].active # NoSlot, Open(store[p], k),
             ~(p = q.provider /\ k \in SuspendedKeys(q, o))
      PROVE  Open(store'[p], k)
  <2>1. CASE p # h
    BY <1>3, <1>7, <2>1
  <2>2. CASE p = h
    <3>1. k \notin SuspendedKeys(q, o)
      BY <1>7, <2>2
    <3>2. ASSUME NEW x \in {Global, <<k[2], k[3]>>}, new.scope[ps.active].entry[x].state = "cooldown"
          PROVE  FALSE
      <4>1. x \in EntryId
        BY StickyKeyFacts, Zenon
      <4>2. ps.scope[ps.active].entry[x].state # "cooldown"
        BY <1>7, <2>2, Zenon DEF Open
      <4>3. x \in {Global, l.channel} /\ EnteredCooldown(q, o, x)
        BY <1>5, <3>2, <4>1, <4>2, Zenon
      <4>4. CASE x = Global
        BY <3>1, <4>3, <4>4 DEF SuspendedKeys
      <4>5. CASE x # Global
        <5>1. x = leases[q.token].channel /\ k[2] = q.key[2] /\ k[3] = q.key[3]
          <6>1. x = l.channel /\ x = <<k[2], k[3]>>
            BY <4>3, <4>5
          <6>2. <<k[2], k[3]>> = <<q.key[2], q.key[3]>>
            BY <1>1, <6>1, Zenon
          <6>3. QED
            BY <6>1, <6>2
        <5>2. QED
          BY <3>1, <4>3, <5>1 DEF SuspendedKeys
      <4>6. QED
        BY <4>4, <4>5
    <3>3. QED
      BY <1>3, <2>2, <3>2, Zenon DEF Open
  <2>3. QED
    BY <2>1, <2>2
<1>8. ASSUME o.class = "none" PROVE StaysOpen(store, store')
  <2>1. SuspendedKeys(q, o) = {}
    <3>1. ~FailsEntry(o, Global) /\ ~FailsEntry(o, leases[q.token].channel)
      BY <1>8 DEF FailsEntry, IsGlobalFailure, IsChannelFailure
    <3>2. QED
      BY <3>1 DEF SuspendedKeys, EnteredCooldown
  <2>2. QED
    BY <1>7, <2>1 DEF StaysOpen
<1>9. ASSUME o.class = "none", NEW k \in StickyKey, k = q.key PROVE Open(new, k)
  <2>1. ASSUME NEW x \in {Global, <<k[2], k[3]>>} PROVE new.scope[ps.active].entry[x].state # "cooldown"
    <3> DEFINE e == ps.scope[ps.active].entry[x]
               f == new.scope[ps.active].entry[x]
    <3>1. x \in EntryId /\ x \in {Global, l.channel}
      BY <1>1, <1>9, StickyKeyFacts, Zenon
    <3>2. Live(ps, l)
      BY <1>1, <1>2, Zenon DEF Live
    <3>3. /\ new = ReportProvider(ps, l, t, o, obs) /\ ps \in ProviderScopes /\ ps.active # NoSlot
          /\ l \in Lease /\ t \in Token /\ o \in Outcome /\ obs \in Observation \cup {NoObservation}
          /\ x \in EntryId
      BY <1>1, <1>2, <1>3, <3>1, Zenon
    <3>4. e = ps.scope[ps.active].entry[x] /\ f = new.scope[ps.active].entry[x]
      OBVIOUS
    <3>5. l.slot = ps.active /\ o.class = "none"
      BY <1>2, <1>9
    <3> HIDE DEF e, f, ps, new, t
    <3>6. f.state # "cooldown"
      BY ONLY <3>1, <3>2, <3>3, <3>4, <3>5, ReportedEntry
    <3>7. QED
      BY <3>6 DEF f
  <2>2. QED
    BY <1>3, <2>1, Zenon DEF Open
<1>10. QED
  BY <1>7, <1>8, <1>9

(* Affinity after the report of a current lease.                           *)
LEMMA ReportMemory ==
    ASSUME Inv, NEW r \in Request, NEW q, q = requests[r], Holding(q), ~IsStale(q),
           NEW o \in Outcome, NEW obs \in Observation \cup {NoObservation}, ReportHealth(q, o, obs),
           affinity' = ReportAffinity(q, Expire(affinity), o), UNCHANGED <<snapshots, revision>>
    PROVE  MemoryInv'
<1> DEFINE a == Expire(affinity)
           h == q.provider
           g == SnapshotOf(q)[h].generation
<1>1. /\ IsCurrent(q) /\ Supports(snapshots[revision], h, q.key[2])
      /\ snapshots[revision][h].generation = g
  BY DEF IsStale
<1>2. /\ h \in Provider /\ RequestKnown(q, snapshots, revision)
      /\ LeaseKnown(q, snapshots, revision, store, leases)
  BY HeldLease
<1>3. revision > 0 /\ snapshots[revision] \in Snapshot
  BY <1>1, <1>2, RevisionFacts DEF RequestKnown, IsCurrent, Inv
<1>4. g \in Generation
  BY <1>1, <1>3, SupportsFacts
<1>5. affinity \in AffinityType /\ Indexed(affinity) /\ Remembered(affinity, snapshots, revision)
      /\ BindingsOpen(affinity, store) /\ ActiveCurrent(store, snapshots, revision)
  BY DEF Inv, MemoryInv, StoreInv
<1>6. Keeps(a, affinity)
  BY <1>5, ExpireKeeps
<1>7. a \in AffinityType /\ Indexed(a)
  BY <1>6 DEF Keeps
<1> HIDE DEF a
<1>8. Remembered(a, snapshots, revision) /\ BindingsOpen(a, store)
  <2>1. \A p \in Provider : Quiet(store[p], store[p])
    BY QuietSame
  <2>2. QED
    BY <1>5, <1>6, <2>1, KeepsMemory
<1>9. /\ o.class = "none" => StaysOpen(store, store')
      /\ o.class = "none" => \A k \in StickyKey : k = q.key => Open(store'[h], k)
      /\ \A p \in Provider : \A k \in StickyKey :
            /\ store[p].active # NoSlot /\ Open(store[p], k)
            /\ ~(p = h /\ k \in SuspendedKeys(q, o))
            => Open(store'[p], k)
  BY <1>1, ReportOpen
<1>10. affinity' = IF o.class = "none" /\ q.migration
                   THEN MigrateAssignment(a, q.key, q.source, h, g, NewVersion)
                   ELSE SuspendAssignments(a, h, g, SuspendedKeys(q, o))
  BY DEF ReportAffinity, a
<1> HIDE DEF g
<1>11. CASE o.class = "none" /\ q.migration
  <2> DEFINE n == affinity'
             st2 == store'
  <2>1. q.key \in StickyKey
    BY <1>2, <1>11 DEF RequestKnown, LeaseKnown
  <2>2. n = MigrateAssignment(a, q.key, q.source, h, g, NewVersion)
    BY <1>10, <1>11
  <2>3. StaysOpen(store, st2) /\ Open(st2[h], q.key)
    BY <1>9, <1>11, <2>1
  <2>4. /\ a \in AffinityType /\ h \in Provider
        /\ ActiveCurrent(store, snapshots, revision) /\ Remembered(a, snapshots, revision)
        /\ BindingsOpen(a, store) /\ revision > 0
        /\ Supports(snapshots[revision], h, q.key[2]) /\ snapshots[revision][h].generation = g
    BY <1>1, <1>2, <1>3, <1>5, <1>7, <1>8
  <2> HIDE DEF n, st2
  <2>5. n = a \/ Binds(n, a, q.key, h, g)
    BY <1>2, <1>4, <1>7, <2>1, <2>2, FreshValues, MigrateShape
  <2>6. CASE n = a
    <3>1. BindingsOpen(a, st2)
      BY ONLY <2>3, <2>4, StaysOpenMemory
    <3>2. QED
      BY <1>7, <1>8, <2>6, <3>1 DEF MemoryInv, n, st2
  <2>7. CASE Binds(n, a, q.key, h, g)
    <3>1. Remembered(n, snapshots, revision) /\ BindingsOpen(n, st2)
      BY ONLY <2>1, <2>3, <2>4, <2>7, BindsMemory
    <3>2. n \in AffinityType /\ Indexed(n)
      BY <2>7 DEF Binds
    <3>3. QED
      BY <3>1, <3>2 DEF MemoryInv, n, st2
  <2>8. QED
    BY <2>5, <2>6, <2>7
<1>12. CASE ~(o.class = "none" /\ q.migration)
  <2> DEFINE n == affinity'
             K == SuspendedKeys(q, o)
             Gone(k) == k \in K /\ a.assigned[k].provider = h /\ a.assigned[k].generation = g
  <2>1. n = SuspendAssignments(a, h, g, K)
    BY <1>10, <1>12
  <2> HIDE DEF n, K
  <2>2. /\ n \in AffinityType /\ Indexed(n)
        /\ \A k \in StickyKey : n.assigned[k] = IF Gone(k) THEN Unbound ELSE a.assigned[k]
        /\ \A k \in StickyKey : n.pending[k] = IF Gone(k) THEN a.assigned[k] ELSE a.pending[k]
    BY <1>2, <1>7, <2>1, SuspendShape
  <2>3. ASSUME NEW k \in StickyKey
        PROVE  BindingCurrent(k, n.assigned[k], snapshots, revision)
               /\ BindingCurrent(k, n.pending[k], snapshots, revision)
    <3>1. BindingCurrent(k, Unbound, snapshots, revision)
      BY BoundFacts DEF BindingCurrent
    <3>2. QED
      BY <1>8, <2>2, <3>1 DEF Remembered
  <2>4. ASSUME NEW k \in StickyKey, IsBound(n.assigned[k])
        PROVE  Open(store'[n.assigned[k].provider], k)
    <3> DEFINE p == a.assigned[k].provider
    <3>1. ~Gone(k) /\ n.assigned[k] = a.assigned[k]
      BY <2>2, <2>4, BoundFacts
    <3>2. IsBound(a.assigned[k])
      BY <2>4, <3>1
    <3>3. p \in Provider /\ store[p].active # NoSlot
      BY <1>5, <1>7, <1>8, <3>2, BoundActive
    <3>4. Open(store[p], k)
      BY <1>8, <3>2 DEF BindingsOpen
    <3>5. p = h => a.assigned[k].generation = g
      BY <1>1, <1>8, <3>2 DEF Remembered, BindingCurrent
    <3>6. ~(p = h /\ k \in K)
      BY <3>1, <3>5
    <3> HIDE DEF p
    <3>7. Open(store'[p], k)
      BY <1>9, <3>3, <3>4, <3>6 DEF K
    <3>8. QED
      BY <3>1, <3>7 DEF p
  <2>5. Remembered(n, snapshots, revision) /\ BindingsOpen(n, store')
    BY <2>3, <2>4 DEF Remembered, BindingsOpen
  <2>6. QED
    BY <2>2, <2>5 DEF MemoryInv, n
<1>13. QED
  BY <1>11, <1>12

LEMMA ReportCurrentStep ==
    ASSUME Inv, NEW r \in Request, NEW q, q = requests[r], Holding(q), ~IsStale(q),
           NEW outcome \in Outcome, ReportCurrent(q, outcome),
           requests' = [requests EXCEPT ![r] = AfterReport(q, outcome)],
           UNCHANGED <<snapshots, revision>>
    PROVE  Inv'
<1> DEFINE obs == IF outcome.errorPending
                  THEN CHOOSE o \in Observation : o \notin UsedObservations ELSE NoObservation
           c == SnapshotOf(q)[q.provider]
           h == q.provider
<1>1. /\ outcome.errorPending => ~(Observation \subseteq UsedObservations)
      /\ ReportHealth(q, outcome, obs)
      /\ affinity' = ReportAffinity(q, Expire(affinity), outcome)
      /\ cursors' = ReportCursors(q, outcome)
      /\ updates' = IF outcome.errorPending
                    THEN updates \cup
                            {[provider |-> q.provider, generation |-> c.generation,
                              epoch |-> c.epoch, disableHealth |-> c.disableHealth,
                              model |-> q.key[2], requestType |-> q.key[3],
                              observation |-> obs, revision |-> q.revision]}
                    ELSE updates
  BY DEF ReportCurrent
<1>2. obs \in Observation \cup {NoObservation}
  <2>1. CASE outcome.errorPending
    <3>1. \E o \in Observation : o \notin UsedObservations
      BY <1>1, <2>1
    <3>2. QED
      BY <2>1, <3>1
  <2>2. CASE ~outcome.errorPending
    BY <2>2
  <2>3. QED
    BY <2>1, <2>2
<1>3. /\ IsCurrent(q) /\ Supports(snapshots[revision], h, q.key[2])
  BY DEF IsStale
<1>4. h \in Provider /\ RequestKnown(q, snapshots, revision)
  BY HeldLease
<1>5. revision > 0 /\ snapshots[revision] \in Snapshot /\ SnapshotOf(q) = snapshots[revision]
  BY <1>3, <1>4, RevisionFacts DEF RequestKnown, IsCurrent, Inv, SnapshotOf
<1> HIDE DEF obs
<1>6. UpdatesTyped(updates')
  <2>1. UpdatesTyped(updates)
    BY DEF Inv
  <2>2. QED
    BY <1>1, <1>4, <2>1 DEF UpdatesTyped
<1>7. MemoryInv'
  BY <1>1, <1>2, ReportMemory
<1>8. RequestInv'
  BY <1>1, <1>2, ReportRequests
<1>9. StoreInv'
  <2>1. /\ leases' \in [Token -> Lease \cup {NoLease}]
        /\ store' \in [Provider -> ProviderScopes] /\ ScopesSound(store', leases')
        /\ \A p \in Provider \ {h} : store'[p] = store[p]
        /\ \A p \in Provider :
            /\ store'[p].active = store[p].active
            /\ store[p].active # NoSlot =>
                    SameKey(store[p].scope[store[p].active], store'[p].scope[store[p].active])
    <3> DEFINE l == leases[q.token]
    <3>1. /\ Inv /\ r \in Request /\ q = requests[r] /\ Holding(q) /\ l = leases[q.token]
          /\ outcome \in Outcome /\ obs \in Observation \cup {NoObservation}
          /\ ReportHealth(q, outcome, obs)
      BY <1>1, <1>2
    <3> HIDE DEF l
    <3>2. QED
      BY ONLY <3>1, ReportStore
  <2>2. ActiveCurrent(store, snapshots, revision) /\ OffUntouched(store, snapshots, revision)
    BY DEF Inv, StoreInv
  <2>3. ActiveCurrent(store', snapshots, revision)
    BY ONLY <2>1, <2>2, SameKeyCurrent
  <2>4. OffUntouched(store', snapshots, revision)
    <3>1. snapshots[revision][h].enabled
      BY <1>3 DEF Supports, StaticActive
    <3>2. QED
      BY <2>1, <2>2, <3>1 DEF OffUntouched
  <2>5. QED
    BY <2>1, <2>3, <2>4 DEF StoreInv
<1>10. CursorInv'
  <2> DEFINE ck == <<q.key[2], q.key[3], PriorityOf(q, h)>>
  <2>1. CursorInv
    BY DEF Inv
  <2>2. ck[1] = q.key[2] /\ ck[3] = PriorityOf(q, h)
    OBVIOUS
  <2>3. snapshots[revision][h].priority = PriorityOf(q, h)
    BY <1>5 DEF PriorityOf
  <2>4. \/ cursors' = SetCursors(cursors, {ck}, h)
        \/ cursors' = SetCursors(cursors, ClearedCursors(q, outcome), NoProvider)
    BY <1>1 DEF ReportCursors
  <2> HIDE DEF ck
  <2>5. CASE cursors' = SetCursors(cursors, {ck}, h)
    <3> DEFINE cs == SetCursors(cursors, {ck}, h)
    <3>1. /\ cs \in [CursorKey -> [provider: Provider \cup {NoProvider}, version: CursorVersion]]
          /\ \A i \in CursorKey : /\ i \in {ck} => cs[i].provider = h
                                  /\ i \notin {ck} => cs[i] = cursors[i]
      BY <1>4, <2>1, SetCursorsShape DEF CursorInv
    <3> HIDE DEF cs
    <3>2. ASSUME NEW i \in CursorKey PROVE CursorCurrent(i, cs[i], snapshots, revision)
      <4>1. CASE i = ck
        BY <1>3, <1>5, <2>2, <2>3, <3>1, <4>1 DEF CursorCurrent
      <4>2. CASE i # ck
        BY <2>1, <3>1, <4>2 DEF CursorInv, CursorsCurrent
      <4>3. QED
        BY <4>1, <4>2
    <3>3. cursors' = cs
      BY <2>5 DEF cs
    <3>4. QED
      BY <3>1, <3>2, <3>3 DEF CursorInv, CursorsCurrent
  <2>6. CASE cursors' = SetCursors(cursors, ClearedCursors(q, outcome), NoProvider)
    <3> DEFINE K == ClearedCursors(q, outcome)
               cs == SetCursors(cursors, K, NoProvider)
    <3> HIDE DEF K
    <3>1. /\ cs \in [CursorKey -> [provider: Provider \cup {NoProvider}, version: CursorVersion]]
          /\ \A i \in CursorKey : /\ i \in K => cs[i].provider = NoProvider
                                  /\ i \notin K => cs[i] = cursors[i]
      BY <2>1, SetCursorsShape DEF CursorInv
    <3>2. cursors' = cs
      BY <2>6 DEF K
    <3> HIDE DEF cs
    <3>3. ASSUME NEW i \in CursorKey PROVE CursorCurrent(i, cs[i], snapshots, revision)
      <4>1. CASE i \in K
        BY <3>1, <4>1 DEF CursorCurrent
      <4>2. CASE i \notin K
        BY <2>1, <3>1, <4>2 DEF CursorInv, CursorsCurrent
      <4>3. QED
        BY <4>1, <4>2
    <3>4. QED
      BY <3>1, <3>2, <3>3 DEF CursorInv, CursorsCurrent
  <2>7. QED
    BY <2>4, <2>5, <2>6
<1>11. SnapshotInv'
  BY DEF Inv, SnapshotInv
<1>12. QED
  BY <1>6, <1>7, <1>8, <1>9, <1>10, <1>11 DEF Inv

LEMMA ReportStep ==
    ASSUME Inv, NEW r \in Request, Holding(requests[r]), NEW outcome \in Outcome, Report(r, outcome)
    PROVE  Inv'
<1> DEFINE q == requests[r]
<1>1. /\ requests' = [requests EXCEPT ![r] = AfterReport(q, outcome)]
      /\ UNCHANGED <<snapshots, revision>>
      /\ IF IsStale(q) THEN ReportStale(q) ELSE ReportCurrent(q, outcome)
  BY DEF Report
<1>2. q = requests[r] /\ Holding(q)
  OBVIOUS
<1> HIDE DEF q
<1>3. CASE IsStale(q)
  BY <1>1, <1>2, <1>3, ReportStaleStep
<1>4. CASE ~IsStale(q)
  BY <1>1, <1>2, <1>4, ReportCurrentStep
<1>5. QED
  BY <1>3, <1>4

LEMMA FinishAttemptStep ==
    ASSUME Inv, NEW r \in Request, FinishAttempt(r)
    PROVE  Inv'
<1>1. PICK outcome \in Outcome : Report(r, outcome) /\ Holding(requests[r])
  <2>1. CASE requests[r].status = "sent" /\ \E outcome \in Outcomes : Report(r, outcome)
    BY <2>1, SchedulerAssumption DEF Holding
  <2>2. CASE requests[r].status = "leased"
             /\ \E outcome \in {ClientCanceled, LocalFailure} : Report(r, outcome)
    BY <2>2, OutcomeTypes DEF Holding
  <2>3. QED
    BY <2>1, <2>2 DEF FinishAttempt
<1>2. QED
  BY <1>1, ReportStep

-----------------------------------------------------------------------------
(* The invariant holds initially and every step keeps it.                  *)

LEMMA NoScopesFacts ==
    ASSUME NEW ls, \A t \in Token : ls[t] = NoLease, NEW p
    PROVE  /\ NoScopes \in ProviderScopes /\ SoundScopes(NoScopes) /\ Filed(NoScopes)
           /\ Accounted(NoScopes, ls, p)
<1>1. NoScopes \in ProviderScopes
  <2>1. [s \in Slot |-> FreeScope] \in [Slot -> Scope] /\ <<>> \in Seq(Slot)
    BY FreeScopeType
  <2>2. QED
    BY <2>1 DEF NoScopes, ProviderScopes
<1>2. SoundScopes(NoScopes)
  BY FreshScopesSound DEF NoScopes, SoundScopes, AllSound, HasGlobal
<1>3. Filed(NoScopes)
  BY DEF Filed, NoScopes, FreeSlots
<1>4. \A s \in Slot : Out(ls, p, s) = {}
  BY DEF Out
<1>5. Accounted(NoScopes, ls, p)
  BY <1>4, FreshCounted DEF Accounted, NoScopes
<1>6. QED
  BY <1>1, <1>2, <1>3, <1>5

LEMMA NoAffinityFacts == NoAffinity \in AffinityType /\ Indexed(NoAffinity)
<1> DEFINE f == [k \in StickyKey |-> Unbound]
           e == <<>>
           b == [p \in Provider |-> {}]
<1>1. f \in [StickyKey -> Binding \cup {Unbound}] /\ e \in Seq(StickyKey)
      /\ b \in [Provider -> SUBSET StickyKey]
  OBVIOUS
<1>2. /\ NoAffinity = [assigned |-> f, lru |-> e, byProvider |-> b, pending |-> f]
      /\ \A k \in StickyKey : f[k] = Unbound
      /\ \A p \in Provider : b[p] = {}
      /\ DOMAIN e = {} /\ Len(e) = 0
  BY DEF NoAffinity
<1> HIDE DEF f, e, b
<1>3. NoAffinity \in AffinityType
  BY <1>1, <1>2, AffinityOf
<1>4. /\ NoAffinity.assigned = f /\ NoAffinity.lru = e
      /\ NoAffinity.byProvider = b /\ NoAffinity.pending = f
  BY <1>2
<1>5. AssignedKeys(NoAffinity) = {}
  BY <1>2, <1>4, BoundFacts DEF AssignedKeys
<1>6. Elements(e) = {}
  BY <1>2 DEF Elements
<1>7. \A p \in Provider : {k \in StickyKey : f[k].provider = p} = {}
  BY <1>2, BoundFacts
<1>8. Indexed(NoAffinity)
  <2>1. 0 <= StickyCapacity
    BY AffinityAssumption
  <2>2. QED
    BY <1>2, <1>4, <1>5, <1>6, <1>7, <2>1, BoundFacts DEF Indexed
<1>9. QED
  BY <1>3, <1>8

LEMMA InitInv == ASSUME Init PROVE Inv
<1>1. /\ store = [p \in Provider |-> NoScopes] /\ leases = [t \in Token |-> NoLease]
      /\ snapshots = <<>> /\ revision = 0 /\ affinity = NoAffinity
      /\ cursors = [ck \in CursorKey |-> NoCursor]
      /\ requests = [r \in Request |-> NoRequest] /\ updates = {}
  BY DEF Init
<1>2. /\ \A p \in Provider : store[p] = NoScopes
      /\ \A t \in Token : leases[t] = NoLease
  BY <1>1
<1>3. StoreInv
  <2>1. \A p \in Provider : /\ NoScopes \in ProviderScopes /\ SoundScopes(NoScopes) /\ Filed(NoScopes)
                            /\ Accounted(NoScopes, leases, p)
    BY <1>2, NoScopesFacts
  <2>2. store \in [Provider -> ProviderScopes] /\ leases \in [Token -> Lease \cup {NoLease}]
    BY <1>1, <2>1
  <2>3. ScopesSound(store, leases)
    BY <1>2, <2>1 DEF ScopesSound
  <2>4. \A p \in Provider : store[p].active = NoSlot
    BY <1>2 DEF NoScopes
  <2>5. ActiveCurrent(store, snapshots, revision) /\ OffUntouched(store, snapshots, revision)
    BY <1>1, <2>4 DEF ActiveCurrent, OffUntouched
  <2>6. QED
    BY <2>2, <2>3, <2>5 DEF StoreInv
<1>4. SnapshotInv
  <2>1. snapshots \in Seq(Snapshot) /\ Len(snapshots) = 0 /\ DOMAIN snapshots = {} /\ MaxRevision \in Nat
    BY <1>1, SchedulerAssumption
  <2>2. QED
    BY <1>1, <2>1 DEF SnapshotInv, EpochsOrdered
<1>5. RequestInv
  <2>1. NoRequest \in RequestRecord /\ NoRequest.status = "idle" /\ ~Holding(NoRequest)
    BY NoRequestType
  <2>2. \A r \in Request : requests[r] = NoRequest
    BY <1>1
  <2>3. requests \in [Request -> RequestRecord]
    BY <1>1, <2>1
  <2>4. RequestsKnown(requests, snapshots, revision, store, leases)
    BY <2>1, <2>2 DEF RequestsKnown
  <2>5. TokensHeld(requests, leases)
    BY <1>2, <2>1, <2>2 DEF TokensHeld
  <2>6. QED
    BY <2>3, <2>4, <2>5 DEF RequestInv
<1>6. MemoryInv
  <2>1. \A k \in StickyKey : ~IsBound(affinity.assigned[k]) /\ ~IsBound(affinity.pending[k])
    BY <1>1, BoundFacts DEF NoAffinity
  <2>2. QED
    BY <1>1, <2>1, NoAffinityFacts DEF MemoryInv, Remembered, BindingCurrent, BindingsOpen
<1>7. CursorInv
  <2>1. 0 \in CursorVersion
    BY SchedulerAssumption
  <2>2. \A ck \in CursorKey : cursors[ck] = NoCursor
    BY <1>1
  <2>3. NoCursor \in [provider: Provider \cup {NoProvider}, version: CursorVersion]
        /\ NoCursor.provider = NoProvider
    BY <2>1 DEF NoCursor
  <2>4. cursors \in [CursorKey -> [provider: Provider \cup {NoProvider}, version: CursorVersion]]
    BY <1>1, <2>3
  <2>5. QED
    BY <2>2, <2>3, <2>4 DEF CursorInv, CursorsCurrent, CursorCurrent
<1>8. UpdatesTyped(updates)
  BY <1>1 DEF UpdatesTyped
<1>9. QED
  BY <1>3, <1>4, <1>5, <1>6, <1>7, <1>8 DEF Inv

LEMMA NextInv == ASSUME Inv, [Next]_vars PROVE Inv'
<1>1. CASE UNCHANGED vars
  BY <1>1 DEF vars, Inv, StoreInv, SnapshotInv, RequestInv, MemoryInv, CursorInv
<1>2. ASSUME NEW cfg \in Config, Publish(cfg) PROVE Inv'
  BY <1>2, PublishStep
<1>3. ASSUME NEW rev \in 1..Len(snapshots), Reconcile(rev) PROVE Inv'
  BY <1>3, ReconcileStep
<1>4. ASSUME NEW r \in Request, NEW key \in Traffic, Begin(r, key) PROVE Inv'
  BY <1>4, BeginStep
<1>5. ASSUME NEW r \in Request, Acquire(r) PROVE Inv'
  BY <1>5, AcquireStep
<1>6. ASSUME NEW r \in Request, StartAttempt(r) PROVE Inv'
  BY <1>6, StartAttemptStep
<1>7. ASSUME NEW r \in Request, FinishAttempt(r) PROVE Inv'
  BY <1>7, FinishAttemptStep
<1>8. ASSUME NEW r \in Request, Cancel(r) PROVE Inv'
  BY <1>8, CancelStep
<1>9. ASSUME NEW u \in updates, NEW incomplete \in BOOLEAN, UpdateError(u, incomplete) PROVE Inv'
  BY <1>9, UpdateErrorStep
<1>10. CASE Tick
  BY <1>10, TickStep
<1>11. QED
  BY <1>1, <1>2, <1>3, <1>4, <1>5, <1>6, <1>7, <1>8, <1>9, <1>10 DEF Next, RequestStep

LEMMA SpecInv == Spec => []Inv
<1>1. Init => Inv
  BY InitInv
<1>2. Inv /\ [Next]_vars => Inv'
  BY NextInv
<1>3. QED
  BY <1>1, <1>2, PTL DEF Spec

-----------------------------------------------------------------------------
(* The invariants of the scheduler.                                        *)

(* Whatever requests, edits and reports come in which order, the           *)
(* scheduler's state keeps the shape its structs declare, and no request   *)
(* starts more upstream calls than AttemptPolicy allows, nor more          *)
(* continuous ones to its bound provider (StartAttempt, HasBudget).        *)
THEOREM SchedulerTyped == Spec => []TypeOK
<1>1. Inv => TypeOK
  BY DEF Inv, StoreInv, SnapshotInv, RequestInv, MemoryInv, CursorInv, TypeOK
<1>2. QED
  BY <1>1, SpecInv, PTL

(* Every health lease is held by exactly one attempt in flight: Acquire    *)
(* never hands one out twice, and neither a failover nor a report to a     *)
(* scheduler that has moved on to another snapshot loses one.              *)
THEOREM LeasesAreHeld == Spec => []LeasesHeldByAttempts
<1>1. ASSUME Inv PROVE LeasesHeldByAttempts
  <2>1. ASSUME NEW r \in Request, Holding(requests[r])
        PROVE  /\ requests[r].token \in Token /\ leases[requests[r].token] # NoLease
               /\ leases[requests[r].token].provider = requests[r].provider
    BY <1>1, <2>1, HeldLease
  <2>2. TokensHeld(requests, leases)
    BY <1>1 DEF Inv, RequestInv
  <2>3. LiveTokens = {requests[r].token : r \in {r \in Request : Holding(requests[r])}}
    <3>1. ASSUME NEW t \in LiveTokens
          PROVE  t \in {requests[r].token : r \in {r \in Request : Holding(requests[r])}}
      <4>1. PICK r \in Request : Holding(requests[r]) /\ requests[r].token = t
        BY <2>2 DEF TokensHeld, LiveTokens
      <4>2. QED
        BY <4>1
    <3>2. ASSUME NEW r \in Request, Holding(requests[r])
          PROVE  requests[r].token \in LiveTokens
      BY <2>1, <3>2 DEF LiveTokens
    <3>3. QED
      BY <3>1, <3>2
  <2>4. QED
    BY <2>1, <2>2, <2>3 DEF LeasesHeldByAttempts, TokensHeld
<1>2. QED
  BY <1>1, SpecInv, PTL

(* The assignment map, the LRU list and the index by provider of           *)
(* selector.go always describe the same bindings, within the capacity and  *)
(* in the order of use, and no session is bound and waiting for a          *)
(* migration at once.                                                      *)
THEOREM AffinityIsIndexed == Spec => []AffinityIndexed
<1>1. ASSUME Inv PROVE AffinityIndexed
  <2> DEFINE a == affinity
  <2>1. a \in AffinityType /\ Indexed(a)
    BY <1>1 DEF Inv, MemoryInv
  <2>2. a.lru \in Seq(StickyKey)
    BY <2>1, AffinityFields
  <2>3. /\ Elements(a.lru) = AssignedKeys(a)
        /\ \A i, j \in DOMAIN a.lru : a.lru[i] = a.lru[j] => i = j
    BY <2>1 DEF Indexed
  <2>4. Len(a.lru) = Cardinality(AssignedKeys(a))
    BY <2>2, <2>3, LenIsCardinality
  <2>5. QED
    BY <2>1, <2>4 DEF Indexed, AffinityIndexed
<1>2. QED
  BY <1>1, SpecInv, PTL

(* After every Reconcile, selection and report, what the selector          *)
(* remembers is offered by the snapshot last reconciled: bindings and      *)
(* pending migrations in their current generation, cursors in their tier.  *)
THEOREM MemoryIsCurrent == Spec => []MemoryCurrent
<1>1. ASSUME Inv PROVE MemoryCurrent
  <2>1. Remembered(affinity, snapshots, revision) /\ CursorsCurrent(cursors, snapshots, revision)
    BY <1>1 DEF Inv, MemoryInv, CursorInv
  <2>2. ASSUME NEW k \in StickyKey, NEW b \in {affinity.assigned[k], affinity.pending[k]}, IsBound(b)
        PROVE  /\ Supports(snapshots[revision], b.provider, k[2])
               /\ snapshots[revision][b.provider].generation = b.generation
    BY <2>1, <2>2 DEF Remembered, BindingCurrent
  <2>3. ASSUME NEW ck \in CursorKey, cursors[ck].provider # NoProvider
        PROVE  /\ Supports(snapshots[revision], cursors[ck].provider, ck[1])
               /\ snapshots[revision][cursors[ck].provider].priority = ck[3]
    BY <2>1, <2>3 DEF CursorsCurrent, CursorCurrent
  <2>4. QED
    BY <2>2, <2>3 DEF MemoryCurrent
<1>2. QED
  BY <1>1, SpecInv, PTL

(* No session is ever bound to a provider whose breaker is open for it:    *)
(* the report that opens a breaker suspends every binding it covers        *)
(* (removeProviderAssignmentsLocked, removeChannelAssignmentsLocked), and  *)
(* no late success, expiry, edit or new selection brings one back.         *)
THEOREM BindingsNeverCool == Spec => []StickyNeverCooling
<1>1. ASSUME Inv PROVE StickyNeverCooling
  <2>1. /\ affinity \in AffinityType /\ Remembered(affinity, snapshots, revision)
        /\ BindingsOpen(affinity, store) /\ ActiveCurrent(store, snapshots, revision)
    BY <1>1 DEF Inv, MemoryInv, StoreInv
  <2>2. ASSUME NEW k \in StickyKey, IsBound(affinity.assigned[k])
        PROVE  LET ps == store[affinity.assigned[k].provider]
               IN  /\ ps.active # NoSlot
                   /\ ps.scope[ps.active].generation = affinity.assigned[k].generation
                   /\ \A x \in {Global, <<k[2], k[3]>>} : ps.scope[ps.active].entry[x].state # "cooldown"
    <3> DEFINE p == affinity.assigned[k].provider
               ps == store[p]
    <3>1. ps.active # NoSlot /\ ActiveMatches(ps, snapshots[revision][p])
      BY <2>1, <2>2, BoundActive
    <3>2. snapshots[revision][p].generation = affinity.assigned[k].generation
      BY <2>1, <2>2 DEF Remembered, BindingCurrent
    <3>3. Open(ps, k)
      BY <2>1, <2>2 DEF BindingsOpen
    <3>4. QED
      BY <3>1, <3>2, <3>3, Zenon DEF ActiveMatches, Matches, Open
  <2>3. QED
    BY <2>2, Zenon DEF StickyNeverCooling, AssignedKeys
<1>2. QED
  BY <1>1, SpecInv, PTL

-----------------------------------------------------------------------------
(* The action properties of the scheduler.                                 *)

(* A step changes one request at most, and Publish, Reconcile, UpdateError *)
(* and Tick change none.                                                   *)
LEMMA StepOfRequest ==
    ASSUME Inv, [Next]_vars, NEW r \in Request, requests'[r] # requests[r]
    PROVE  \/ \E key \in Traffic : Begin(r, key)
           \/ Acquire(r)
           \/ StartAttempt(r)
           \/ FinishAttempt(r)
           \/ Cancel(r)
<1>1. requests \in [Request -> RequestRecord]
  BY DEF Inv, RequestInv
<1>2. CASE UNCHANGED vars
  BY <1>2 DEF vars
<1>3. ASSUME NEW cfg \in Config, Publish(cfg) PROVE FALSE
  BY <1>3 DEF Publish
<1>4. ASSUME NEW rev \in 1..Len(snapshots), Reconcile(rev) PROVE FALSE
  BY <1>4 DEF Reconcile
<1>5. ASSUME NEW o \in Request, NEW key \in Traffic, Begin(o, key) PROVE Begin(r, key)
  <2>1. CASE o = r
    BY <1>5, <2>1
  <2>2. CASE o # r
    BY <1>1, <1>5, <2>2 DEF Begin
  <2>3. QED
    BY <2>1, <2>2
<1>6. ASSUME NEW o \in Request, Acquire(o) PROVE o = r
  <2>1. \E n : requests' = [requests EXCEPT ![o] = n]
    BY <1>6 DEF Acquire, Select, Unavailable
  <2>2. QED
    BY <1>1, <2>1
<1>7. ASSUME NEW o \in Request, StartAttempt(o) PROVE o = r
  <2>1. \E n : requests' = [requests EXCEPT ![o] = n]
    BY <1>7 DEF StartAttempt
  <2>2. QED
    BY <1>1, <2>1
<1>8. ASSUME NEW o \in Request, FinishAttempt(o) PROVE o = r
  <2>1. \E n : requests' = [requests EXCEPT ![o] = n]
    BY <1>8 DEF FinishAttempt, Report
  <2>2. QED
    BY <1>1, <2>1
<1>9. ASSUME NEW o \in Request, Cancel(o) PROVE o = r
  BY <1>1, <1>9 DEF Cancel
<1>10. ASSUME NEW u \in updates, NEW incomplete \in BOOLEAN, UpdateError(u, incomplete) PROVE FALSE
  BY <1>10 DEF UpdateError
<1>11. CASE Tick
  BY <1>11 DEF Tick
<1>12. CASE \E o \in Request : RequestStep(o) \/ Cancel(o)
  BY <1>6, <1>7, <1>8, <1>9, <1>12 DEF RequestStep
<1>13. QED
  BY <1>2, <1>3, <1>4, <1>5, <1>10, <1>11, <1>12 DEF Next

(* Only the report of a request gives its lease back.                      *)
LEMMA ReportsNowReport ==
    ASSUME Inv, [Next]_vars, NEW r \in Request, ReportsNow(r)
    PROVE  \E outcome \in Outcome : Report(r, outcome)
<1>1. Holding(requests[r]) /\ requests'[r].token # requests[r].token
  BY DEF ReportsNow
<1>2. requests[r] \in RequestRecord /\ requests \in [Request -> RequestRecord]
  BY DEF Inv, RequestInv
<1>3. ASSUME NEW key \in Traffic, Begin(r, key) PROVE FALSE
  BY <1>1, <1>3, NoRequestType DEF Begin
<1>4. ~Acquire(r) /\ ~Cancel(r)
  BY <1>1 DEF Acquire, Cancel, Holding
<1>5. ~StartAttempt(r)
  <2>1. SUFFICES ASSUME StartAttempt(r) PROVE FALSE
    OBVIOUS
  <2> DEFINE q == requests[r]
             used == IF q.stickyPhase = "active" THEN q.stickyAttemptsUsed + 1
                     ELSE q.stickyAttemptsUsed
             ph == IF q.stickyPhase = "active" /\ used >= StickyLimit(q)
                   THEN "ended" ELSE q.stickyPhase
             n == [q EXCEPT !.status = "sent", !.attemptsUsed = q.attemptsUsed + 1,
                            !.stickyAttemptsUsed = used, !.stickyPhase = ph]
  <2>2. requests' = [requests EXCEPT ![r] = n]
    BY <2>1 DEF StartAttempt
  <2>3. requests'[r] = n
    BY <1>2, <2>2
  <2> HIDE DEF used, ph
  <2>4. n.token = q.token
    BY <1>2 DEF RequestRecord
  <2>5. QED
    BY <1>1, <2>3, <2>4
<1>6. FinishAttempt(r)
  BY <1>1, <1>3, <1>4, <1>5, StepOfRequest
<1>7. QED
  BY <1>6, OutcomeTypes, SchedulerAssumption DEF FinishAttempt

LEMMA KeepsProvider ==
    ASSUME NEW n, NEW a, Keeps(n, a), NEW k \in StickyKey, IsBound(n.assigned[k])
    PROVE  n.assigned[k].provider = a.assigned[k].provider
BY FromFacts DEF Keeps

(* The binding that a report moves to another provider is one that the     *)
(* request saw and that had not expired.                                   *)
LEMMA ReportRebinds ==
    ASSUME Inv, NEW r \in Request, NEW q, q = requests[r], Holding(q), NEW outcome \in Outcome,
           Report(r, outcome), NEW k \in StickyKey, IsBound(affinity'.assigned[k]),
           affinity'.assigned[k].provider # affinity.assigned[k].provider
    PROVE  /\ k = q.key
           /\ \/ SameSource(affinity.assigned[k], q.source)
              \/ SameSource(affinity.pending[k], q.source)
           /\ affinity.assigned[k].idle < StickyTTL
           /\ affinity.pending[k].idle < StickyTTL
<1> DEFINE a == Expire(affinity)
           h == q.provider
           g == SnapshotOf(q)[h].generation
<1>1. affinity \in AffinityType /\ Indexed(affinity)
  BY DEF Inv, MemoryInv
<1>2. Keeps(a, affinity)
  BY <1>1, ExpireKeeps
<1>3. a \in AffinityType /\ Indexed(a)
  BY <1>2 DEF Keeps
<1>4. /\ a.assigned[k] = IF k \in Expired(affinity) THEN Unbound ELSE affinity.assigned[k]
      /\ a.pending[k] = IF affinity.pending[k].idle >= StickyTTL THEN Unbound ELSE affinity.pending[k]
  BY <1>1, ExpireShape
<1>5. IsBound(a.assigned[k]) => affinity.assigned[k].idle < StickyTTL
  BY <1>1, ExpireFresh
<1> HIDE DEF a
<1>6. affinity' # a
  BY <1>2, KeepsProvider
<1>7. ~IsStale(q)
  <2>1. ASSUME IsStale(q) PROVE affinity' = a
    BY <2>1 DEF Report, ReportStale, a
  <2>2. QED
    BY <1>6, <2>1
<1>8. affinity' = ReportAffinity(q, a, outcome)
  BY <1>7 DEF Report, ReportCurrent, a
<1>9. outcome.class = "none" /\ q.migration
  <2>1. SUFFICES ASSUME ~(outcome.class = "none" /\ q.migration) PROVE FALSE
    OBVIOUS
  <2> DEFINE K == SuspendedKeys(q, outcome)
             Gone(j) == j \in K /\ a.assigned[j].provider = h /\ a.assigned[j].generation = g
  <2>2. affinity' = SuspendAssignments(a, h, g, K)
    BY <1>8, <2>1, Zenon DEF ReportAffinity
  <2>3. h \in Provider
    BY HeldLease
  <2> DEFINE n == affinity'
  <2>4. n = SuspendAssignments(a, h, g, K)
    BY <2>2
  <2> HIDE DEF K, n, g
  <2>5. \A j \in StickyKey : n.assigned[j] = IF Gone(j) THEN Unbound ELSE a.assigned[j]
    BY <1>3, <2>3, <2>4, SuspendShape
  <2>6. n.assigned[k] = a.assigned[k]
    BY <2>5, BoundFacts DEF n
  <2>7. QED
    BY <1>2, <2>6, KeepsProvider DEF n
<1>10. affinity' = MigrateAssignment(a, q.key, q.source, h, g, NewVersion)
  BY <1>8, <1>9 DEF ReportAffinity
<1>11. q.key \in StickyKey /\ h \in Provider
  BY <1>9, HeldLease DEF RequestKnown, LeaseKnown
<1>12. g \in Generation
  <2>1. /\ Supports(snapshots[q.revision], h, q.key[2]) /\ q.revision \in 1..revision
    BY HeldLease DEF RequestKnown, LeaseKnown
  <2>2. snapshots[q.revision] \in Snapshot
    BY <2>1, RevisionFacts DEF Inv
  <2>3. QED
    BY <2>1, <2>2, SupportsFacts DEF SnapshotOf
<1>13. NewVersion \in Version
  BY FreshValues
<1> DEFINE n == affinity'
<1>14. n = MigrateAssignment(a, q.key, q.source, h, g, NewVersion) /\ n # a
  BY <1>6, <1>10, Zenon
<1> HIDE DEF n, g, h
<1>15. /\ Binds(n, a, q.key, h, g)
       /\ \/ IsBound(a.assigned[q.key]) /\ SameSource(a.assigned[q.key], q.source)
          \/ IsBound(a.pending[q.key]) /\ SameSource(a.pending[q.key], q.source)
  BY <1>3, <1>11, <1>12, <1>13, <1>14, MigrateShape
<1>16. k = q.key
  <2>1. SUFFICES ASSUME k # q.key PROVE FALSE
    OBVIOUS
  <2>2. From(n.assigned[k], a.assigned[k]) /\ IsBound(n.assigned[k])
    BY <1>15, <2>1 DEF Binds, n
  <2>3. n.assigned[k].provider = a.assigned[k].provider /\ IsBound(a.assigned[k])
    BY <2>2, FromFacts
  <2>4. a.assigned[k].provider = affinity.assigned[k].provider
    BY <1>2, <2>3, KeepsProvider
  <2>5. QED
    BY <2>3, <2>4 DEF n
<1>17. /\ affinity.assigned[k] \in Binding \cup {Unbound} /\ affinity.pending[k] \in Binding \cup {Unbound}
       /\ ~(IsBound(affinity.assigned[k]) /\ IsBound(affinity.pending[k]))
  BY <1>1, AffinityFields DEF Indexed
<1>18. Unbound.idle < StickyTTL /\ StickyTTL \in Nat
  BY BoundFacts, AffinityAssumption
<1>19. CASE IsBound(a.assigned[k]) /\ SameSource(a.assigned[k], q.source)
  <2>1. a.assigned[k] = affinity.assigned[k]
    BY <1>4, <1>19, BoundFacts
  <2>2. affinity.pending[k] = Unbound
    BY <1>17, <1>19, <2>1, UnboundUnique
  <2>3. QED
    BY <1>5, <1>16, <1>18, <1>19, <2>1, <2>2
<1>20. CASE IsBound(a.pending[k]) /\ SameSource(a.pending[k], q.source)
  <2>1. a.pending[k] = affinity.pending[k] /\ ~(affinity.pending[k].idle >= StickyTTL)
    BY <1>4, <1>20, BoundFacts
  <2>2. affinity.assigned[k] = Unbound
    BY <1>17, <1>20, <2>1, UnboundUnique
  <2>3. affinity.pending[k].idle \in Nat
    BY <1>17, <1>18, BoundFacts
  <2>4. QED
    BY <1>16, <1>18, <1>20, <2>1, <2>2, <2>3
<1>21. QED
  BY <1>15, <1>16, <1>19, <1>20

(* A late fallback result never takes a session away from a newer binding  *)
(* and never revives one that expired, was evicted or was reconciled away  *)
(* (migrateAssignmentLocked).                                              *)
THEOREM LateFallbacksYield == Spec => LateFallbackYields
<1>1. ASSUME Inv, [Next]_vars, NEW r \in Request, ReportsNow(r), NEW k \in StickyKey,
             IsBound(affinity'.assigned[k]),
             affinity'.assigned[k].provider # affinity.assigned[k].provider
      PROVE  /\ k = requests[r].key
             /\ \/ SameSource(affinity.assigned[k], requests[r].source)
                \/ SameSource(affinity.pending[k], requests[r].source)
             /\ affinity.assigned[k].idle < StickyTTL
             /\ affinity.pending[k].idle < StickyTTL
  <2>1. PICK outcome \in Outcome : Report(r, outcome)
    BY <1>1, ReportsNowReport
  <2>2. Holding(requests[r])
    BY <1>1 DEF ReportsNow
  <2>3. QED
    BY <1>1, <2>1, <2>2, ReportRebinds
<1>2. Inv /\ [Next]_vars =>
        [\A r \in Request : ReportsNow(r) =>
            \A k \in StickyKey :
                (/\ IsBound(affinity'.assigned[k])
                 /\ affinity'.assigned[k].provider # affinity.assigned[k].provider)
                => /\ k = requests[r].key
                   /\ \/ SameSource(affinity.assigned[k], requests[r].source)
                      \/ SameSource(affinity.pending[k], requests[r].source)
                   /\ affinity.assigned[k].idle < StickyTTL
                   /\ affinity.pending[k].idle < StickyTTL]_vars
  BY <1>1
<1>3. QED
  BY <1>2, SpecInv, PTL DEF Spec, LateFallbackYields

(* In a tier that is reached and falls through, every provider is asked.   *)
LEMMA FallenTierTried ==
    ASSUME Inv, NEW q, Ready(q), \A p \in Tried(q) : HasSlot(store[p], HealthKeyOf(q, p)),
           NEW n \in Priority, IsReached(q, n), FallsThrough(q, n),
           NEW h \in Elements(q.ordered[n])
    PROVE  h \in Tried(q)
<1> DEFINE scan == ScanOrder(q, n)
           Asked == {scan[i] : i \in {i \in DOMAIN scan :
                            \A j \in 1..(i - 1) : ~DecisionFor(q, scan[j]).available}}
<1>1. Asked \subseteq Tried(q)
  BY DEF Tried
<1>2. q.ordered[n] \in Seq(Provider)
  BY RequestFields DEF Ready
<1>3. /\ scan \in Seq(Provider) /\ Elements(scan) \subseteq Elements(q.ordered[n])
      /\ ~RetriesSticky(q, n) => Elements(scan) = Elements(q.ordered[n])
  BY <1>2, ScanElements
<1>4. ~RetriesSticky(q, n)
  <2>1. SUFFICES ASSUME RetriesSticky(q, n) PROVE FALSE
    OBVIOUS
  <2> DEFINE s == q.source.provider
             k == HealthKeyOf(q, s)
  <2>2. /\ scan = <<s>> /\ s \in Elements(q.ordered[n]) /\ SnapshotOf(q)[s].disableHealth
    BY <2>1 DEF ScanOrder, RetriesSticky
  <2>3. s \in Asked
    BY <2>2
  <2>4. s \in Tried(q)
    BY <1>1, <2>3
  <2> HIDE DEF s
  <2>5. s \in Provider /\ k \in HealthKey /\ k.disableHealth
    BY <2>2, <2>4, TriedFacts
  <2>6. store[s] \in ProviderScopes /\ SoundScopes(store[s]) /\ HasSlot(store[s], k)
    BY <2>4, <2>5 DEF Inv, StoreInv, ScopesSound
  <2> HIDE DEF k
  <2>7. Decision(store[s], k).available
    BY <2>5, <2>6, DisabledAvailable
  <2>8. QED
    BY <2>2, <2>7 DEF FallsThrough, DecisionFor, k
<1>5. Elements(scan) = Elements(q.ordered[n])
  BY <1>3, <1>4
<1>6. PICK i \in DOMAIN scan : scan[i] = h
  BY <1>5 DEF Elements
<1>7. \A j \in 1..(i - 1) : ~DecisionFor(q, scan[j]).available
  <2>1. ASSUME NEW j \in 1..(i - 1) PROVE scan[j] \in Elements(scan)
    <3>1. DOMAIN scan = 1..Len(scan) /\ Len(scan) \in Nat
      BY <1>3
    <3>2. i \in 1..Len(scan)
      BY <1>6, <3>1
    <3>3. j \in 1..Len(scan)
      BY <3>1, <3>2
    <3>4. QED
      BY <3>1, <3>3 DEF Elements
  <2>2. QED
    BY <1>5, <2>1 DEF FallsThrough
<1> HIDE DEF scan
<1>8. h \in Asked
  BY <1>6, <1>7
<1>9. QED
  BY <1>1, <1>8

(* Select takes a provider of a tier above which all are cooling down.     *)
LEMMA SelectsBelowCooling ==
    ASSUME Inv, NEW r \in Request, requests[r].status = "selecting", NEW q, q = Prepared(r),
           \A p \in Tried(q) : HasSlot(store[p], HealthKeyOf(q, p)), NEW w \in Winners(q),
           NEW h \in Provider, Supports(SnapshotOf(q), h, q.key[2]), PriorityOf(q, h) > PriorityOf(q, w)
    PROVE  CoolsDown(h, HealthKeyOf(q, h))
<1> DEFINE n == PriorityOf(q, h)
           k == HealthKeyOf(q, h)
<1>1. Ready(q)
  BY PreparedFacts
<1>2. w \in Tried(q)
  BY DEF Winners
<1>3. PriorityOf(q, w) \in Priority /\ IsReached(q, PriorityOf(q, w)) /\ SnapshotOf(q) \in Snapshot
  BY <1>1, <1>2, TriedFacts
<1>4. n \in Priority /\ Priority \subseteq Nat
  BY <1>3, SupportsFacts, SchedulerAssumption DEF PriorityOf
<1>5. FallsThrough(q, n)
  BY <1>3, <1>4 DEF IsReached
<1>6. IsReached(q, n)
  <2>1. ASSUME NEW m \in Priority, m > n PROVE m > PriorityOf(q, w)
    <3> DEFINE v == PriorityOf(q, w)
    <3>1. m \in Nat /\ n \in Nat /\ v \in Nat /\ n > v /\ m > n
      BY <1>3, <1>4, <2>1
    <3> HIDE DEF n, v
    <3>2. m > v
      BY <3>1
    <3>3. QED
      BY <3>2 DEF v
  <2>2. QED
    BY <1>3, <2>1 DEF IsReached
<1>7. h \in Elements(q.ordered[n])
  <2>1. h \in Offered(SnapshotOf(q), q.key[2], n)
    BY DEF Offered, PriorityOf
  <2>2. QED
    BY <1>1, <1>4, <2>1 DEF Ready
<1>8. h \in Tried(q)
  BY <1>1, <1>4, <1>5, <1>6, <1>7, FallenTierTried
<1>9. k \in HealthKey /\ HasSlot(store[h], k) /\ store[h] \in ProviderScopes
  BY <1>1, <1>8, TriedFacts DEF Inv, StoreInv
<1>10. ~Decision(store[h], k).available /\ Decision(store[h], k).cooling
  BY <1>5, <1>7 DEF FallsThrough, DecisionFor
<1> HIDE DEF k
<1>11. \E s \in {store[h].active} \cup RetiredSlots(store[h]) :
            /\ s # NoSlot /\ Matches(store[h].scope[s], k)
            /\ \E x \in KeyEntries(k) : Cooling(store[h].scope[s].entry[x])
  BY <1>9, <1>10, CoolingDecision
<1>12. QED
  BY <1>11 DEF CoolsDown, k

(* A request is leased by Acquire alone.                                   *)
LEMMA LeasedByAcquire ==
    ASSUME Inv, [Next]_vars, NEW r \in Request, requests[r].status = "selecting",
           requests'[r].status = "leased"
    PROVE  Acquire(r)
<1>1. requests'[r] # requests[r]
  OBVIOUS
<1>2. requests \in [Request -> RequestRecord]
  BY DEF Inv, RequestInv
<1>3. ASSUME NEW key \in Traffic, Begin(r, key) PROVE FALSE
  BY <1>3, NoRequestType DEF Begin
<1>4. ~StartAttempt(r) /\ ~FinishAttempt(r)
  BY DEF StartAttempt, FinishAttempt
<1>5. ~Cancel(r)
  BY <1>2, NoRequestType DEF Cancel
<1>6. QED
  BY <1>1, <1>3, <1>4, <1>5, StepOfRequest

LEMMA SelectedTier ==
    ASSUME Inv, NEW r \in Request, NEW q, q = requests[r], Acquire(r),
           requests'[r].status = "leased", NEW p, p = requests'[r].provider,
           NEW h \in Provider, Supports(SnapshotOf(q), h, q.key[2]), PriorityOf(q, h) > PriorityOf(q, p)
    PROVE  CoolsDown(h, HealthKeyOf(q, h))
<1> DEFINE first == ~requests[r].initialized
           n == Prepared(r)
           a == PreparedAffinity(r)
<1>1. /\ requests[r].status = "selecting"
      /\ \A i \in Tried(n) : HasSlot(store[i], HealthKeyOf(n, i))
      /\ \/ \E w \in Winners(n) : Select(r, n, a, w, first)
         \/ Winners(n) = {} /\ Unavailable(r, n, a)
  BY DEF Acquire, Prepared, PreparedAffinity
<1>2. requests \in [Request -> RequestRecord]
  BY DEF Inv, RequestInv
<1> HIDE DEF n
<1>3. PICK w \in Winners(n) : Select(r, n, a, w, first)
  <2>1. ~Unavailable(r, n, a)
    BY <1>2, NoRequestType DEF Unavailable
  <2>2. QED
    BY <1>1, <2>1
<1>4. Ready(n) /\ SameRequest(q, n)
  BY <1>1, PreparedFacts DEF n
<1>5. n.key = q.key /\ n.revision = q.revision
  BY <1>4 DEF SameRequest
<1>6. /\ SnapshotOf(n) = SnapshotOf(q)
      /\ \A i : HealthKeyOf(n, i) = HealthKeyOf(q, i) /\ PriorityOf(n, i) = PriorityOf(q, i)
  BY <1>5 DEF SnapshotOf, HealthKeyOf, PriorityOf
<1>7. p = w
  <2> DEFINE t == CHOOSE t \in Token : t \notin LiveTokens
             probing == ProbesFor(store[w], HealthKeyOf(n, w)) # {}
             chosen == RecordSelection(n, w, first)
             m == AttemptLease(chosen, w, first, t, probing)
  <2>1. requests' = [requests EXCEPT ![r] = m]
    BY <1>3 DEF Select
  <2>2. requests'[r] = m
    BY <1>2, <2>1
  <2>3. chosen \in RequestRecord
    <3>1. w \in Provider /\ n \in RequestRecord
      BY <1>4, TriedFacts DEF Winners, Ready
    <3>2. QED
      BY <3>1, RecordShape
  <2> HIDE DEF t, probing, chosen
  <2>4. m.provider = w
    BY <2>3 DEF AttemptLease, RequestRecord
  <2>5. QED
    BY <2>2, <2>4
<1>8. CoolsDown(h, HealthKeyOf(n, h))
  <2>1. n = Prepared(r)
    BY DEF n
  <2>2. Supports(SnapshotOf(n), h, n.key[2]) /\ PriorityOf(n, h) > PriorityOf(n, w)
    BY <1>5, <1>6, <1>7
  <2>3. QED
    BY <1>1, <2>1, <2>2, SelectsBelowCooling
<1>9. QED
  BY <1>6, <1>8

(* A request only falls to a lower tier when every provider of the higher  *)
(* tiers that serves its model is cooling down (selectInTierLocked).       *)
THEOREM TiersAreRespected == Spec => TiersRespected
<1>1. ASSUME Inv, [Next]_vars, NEW r \in Request, requests[r].status = "selecting",
             requests'[r].status = "leased", NEW h \in Provider,
             Supports(SnapshotOf(requests[r]), h, requests[r].key[2]),
             PriorityOf(requests[r], h) > PriorityOf(requests[r], requests'[r].provider)
      PROVE  CoolsDown(h, HealthKeyOf(requests[r], h))
  <2> DEFINE q == requests[r]
             p == requests'[r].provider
  <2>1. Acquire(r)
    BY <1>1, LeasedByAcquire
  <2>2. /\ Inv /\ r \in Request /\ q = requests[r] /\ requests'[r].status = "leased"
        /\ p = requests'[r].provider /\ h \in Provider /\ Supports(SnapshotOf(q), h, q.key[2])
        /\ PriorityOf(q, h) > PriorityOf(q, p)
    BY <1>1
  <2> HIDE DEF q, p
  <2>3. CoolsDown(h, HealthKeyOf(q, h))
    BY ONLY <2>1, <2>2, SelectedTier
  <2>4. QED
    BY <2>3 DEF q
<1>2. Inv /\ [Next]_vars =>
        [\A r \in Request :
            (requests[r].status = "selecting" /\ requests'[r].status = "leased") =>
                LET q == requests[r]
                    p == requests'[r].provider
                IN  \A h \in Provider :
                        (Supports(SnapshotOf(q), h, q.key[2]) /\ PriorityOf(q, h) > PriorityOf(q, p))
                            => CoolsDown(h, HealthKeyOf(q, h))]_vars
  BY <1>1
<1>3. QED
  BY <1>2, SpecInv, PTL DEF Spec, TiersRespected

-----------------------------------------------------------------------------
(* What a period in which a provider is off leaves behind.                 *)

(* Within one health epoch a provider stays on, or stays off.              *)
LEMMA PeriodSteady ==
    ASSUME Inv, NEW rev \in 1..Len(snapshots), rev > revision, NEW p, SamePeriod(p, rev),
           p \in DOMAIN snapshots[rev], NEW i, i \in revision..rev
    PROVE  /\ p \in DOMAIN snapshots[i]
           /\ snapshots[i][p].enabled = snapshots[revision][p].enabled
           /\ snapshots[rev][p].enabled = snapshots[revision][p].enabled
<1>1. revision \in Nat /\ Len(snapshots) \in Nat /\ revision <= Len(snapshots) /\ revision > 0
  BY RevisionFacts DEF Inv, SamePeriod
<1>2. DOMAIN snapshots = 1..Len(snapshots)
  BY DEF Inv, SnapshotInv
<1>3. revision \in DOMAIN snapshots /\ rev \in DOMAIN snapshots /\ revision <= rev
      /\ rev \in revision..rev
  BY <1>1, <1>2
<1>4. p \in DOMAIN snapshots[revision] \cap DOMAIN snapshots[rev]
      /\ snapshots[revision][p].epoch = snapshots[rev][p].epoch
  BY DEF SamePeriod
<1>5. EpochsOrdered(snapshots)
  BY DEF Inv, SnapshotInv
<1>6. QED
  BY <1>3, <1>4, <1>5 DEF EpochsOrdered

LEMMA PeriodForgets ==
    ASSUME Inv, NEW rev \in 1..Len(snapshots), Reconcile(rev), NEW p \in Provider,
           NEW i, i \in revision..rev, ~(p \in DOMAIN snapshots[i] /\ snapshots[i][p].enabled)
    PROVE  /\ \A k \in StickyKey : /\ affinity'.assigned[k].provider # p
                                   /\ affinity'.pending[k].provider # p
           /\ store'[p].active # NoSlot => Untouched(store'[p])
<1>1. revision' = rev /\ rev > revision /\ snapshots' = snapshots
  BY DEF Reconcile
<1>2. SamePeriod(p, rev) /\ p \in DOMAIN snapshots[rev] =>
        ~snapshots[revision][p].enabled /\ ~snapshots[rev][p].enabled
  BY <1>1, PeriodSteady
<1>3. IsBound([provider |-> p]) /\ p # NoProvider
  BY BoundFacts DEF IsBound
<1>4. Remembered(affinity', snapshots, rev)
  BY <1>1, ReconcileMemory DEF MemoryInv
<1>5. ASSUME NEW k \in StickyKey, NEW b, b \in {affinity'.assigned[k], affinity'.pending[k]},
             b.provider = p
      PROVE  FALSE
  <2>1. IsBound(b)
    BY <1>3, <1>5 DEF IsBound
  <2>2. SamePeriod(p, rev)
    BY <1>5, <2>1, ReconcileMemory
  <2>3. BindingCurrent(k, b, snapshots, rev)
    BY <1>4, <1>5 DEF Remembered
  <2>4. Supports(snapshots[rev], p, k[2])
    BY <1>5, <2>1, <2>3 DEF BindingCurrent
  <2>5. p \in DOMAIN snapshots[rev] /\ snapshots[rev][p].enabled
    BY <2>4 DEF Supports, StaticActive
  <2>6. QED
    BY <1>2, <2>2, <2>5
<1>6. ASSUME store'[p].active # NoSlot PROVE Untouched(store'[p])
  <2>1. p \in DOMAIN snapshots[rev]
    BY <1>6, ReconcileProviderFacts
  <2>2. CASE ~SamePeriod(p, rev)
    BY <2>1, <2>2, ReconcileProviderFacts
  <2>3. CASE SamePeriod(p, rev)
    <3>1. ~snapshots[rev][p].enabled
      BY <1>2, <2>1, <2>3
    <3>2. OffUntouched(store', snapshots, rev)
      BY <1>1, ReconcileStore DEF StoreInv
    <3>3. QED
      BY <1>6, <3>1, <3>2 DEF OffUntouched
  <2>4. QED
    BY <2>2, <2>3
<1>7. QED
  BY <1>5, <1>6

(* The revision moves when a snapshot is reconciled.                       *)
LEMMA RevisionMoves ==
    ASSUME [Next]_vars, revision' # revision
    PROVE  \E rev \in 1..Len(snapshots) : Reconcile(rev)
<1>1. ~(UNCHANGED vars)
  BY DEF vars
<1>2. ASSUME NEW cfg \in Config, Publish(cfg) PROVE FALSE
  BY <1>2 DEF Publish
<1>3. ASSUME NEW r \in Request, NEW key \in Traffic, Begin(r, key) PROVE FALSE
  BY <1>3 DEF Begin
<1>4. ASSUME NEW r \in Request, RequestStep(r) \/ Cancel(r) PROVE FALSE
  <2>1. ~Acquire(r)
    BY DEF Acquire, Select, Unavailable
  <2>2. ~StartAttempt(r) /\ ~FinishAttempt(r) /\ ~Cancel(r)
    BY DEF StartAttempt, FinishAttempt, Report, Cancel
  <2>3. QED
    BY <1>4, <2>1, <2>2 DEF RequestStep
<1>5. ASSUME NEW u \in updates, NEW incomplete \in BOOLEAN, UpdateError(u, incomplete) PROVE FALSE
  BY <1>5 DEF UpdateError
<1>6. ~Tick
  BY DEF Tick
<1>7. QED
  BY <1>1, <1>2, <1>3, <1>4, <1>5, <1>6 DEF Next

(* A provider that was off, or absent, in a snapshot the scheduler moves   *)
(* past comes back with nothing: no session is bound or moving to it, and  *)
(* its breakers count no failure, also when the snapshots in between were  *)
(* skipped (Scheduler.Reconcile, health.Store.Reconcile).                  *)
THEOREM DisabledPeriodsForget == Spec => DisabledPeriodForgets
<1>1. ASSUME Inv, [Next]_vars, NEW p \in Provider, revision' # revision,
             NEW i \in 1..Len(snapshots), i \in revision..revision',
             ~(p \in DOMAIN snapshots[i] /\ snapshots[i][p].enabled)
      PROVE  /\ \A k \in StickyKey : /\ affinity'.assigned[k].provider # p
                                     /\ affinity'.pending[k].provider # p
             /\ store'[p].active # NoSlot =>
                    \A x \in EntryId :
                        store'[p].scope[store'[p].active].entry[x].consecutiveFailures = 0
  <2>1. PICK rev \in 1..Len(snapshots) : Reconcile(rev)
    BY <1>1, RevisionMoves
  <2>2. revision' = rev
    BY <2>1 DEF Reconcile
  <2>3. i \in revision..rev
    BY <1>1, <2>2
  <2>4. QED
    BY <1>1, <2>1, <2>3, PeriodForgets DEF Untouched
<1>2. Inv /\ [Next]_vars =>
        [\A p \in Provider :
            (\E i \in 1..Len(snapshots) :
                i \in revision..revision' /\ ~(p \in DOMAIN snapshots[i] /\ snapshots[i][p].enabled))
            => /\ revision' # revision => \A k \in StickyKey :
                    /\ affinity'.assigned[k].provider # p
                    /\ affinity'.pending[k].provider # p
               /\ (revision' # revision /\ store'[p].active # NoSlot) =>
                    \A x \in EntryId :
                        store'[p].scope[store'[p].active].entry[x].consecutiveFailures = 0]_vars
  BY <1>1
<1>3. QED
  BY <1>2, SpecInv, PTL DEF Spec, DisabledPeriodForgets

=============================================================================
