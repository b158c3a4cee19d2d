--------------------------- MODULE RoundTrip_proofs ---------------------------
(***************************************************************************)
(* What holds of the round trip of RoundTrip.tla for any requests, texts   *)
(* of any length, any hits and any bounds: first the vault's expiries, then*)
(* what the redaction and restore of Redaction.tla do to any list of hits, *)
(* and with it the invariant of the round trip.                            *)
(***************************************************************************)
EXTENDS RoundTrip, FiniteSetTheorems, SequenceTheorems, TLAPS

(* Entries are filed under requests and expire at most TTL from now, which *)
(* is what the sweep of a put rests on.                                    *)
ExpiriesOK ==
  /\ clock \in 0..MaxTime
  /\ DOMAIN vault \subseteq Requests
  /\ \A id \in DOMAIN vault : vault[id].expires \in 0..(clock + TTL)

(* Whatever a put leaves in the vault, its own entry and those it kept,    *)
(* expires within TTL, and in memory has not expired.                      *)
LEMMA PutKeepsLive ==
  ASSUME ExpiriesOK, NEW id, NEW mapping, NEW k \in DOMAIN Put(id, mapping)
  PROVE  /\ k = id \/ k \in DOMAIN vault
         /\ Put(id, mapping)[k].expires \in 0..(clock + TTL)
         /\ store = "memory" => Put(id, mapping)[k].expires >= clock
<1> USE RoundTripAssumption DEF RoundTripAssumption
<1>1. CASE k = id
  BY <1>1 DEF Put, With, ExpiriesOK
<1>2. CASE k # id
  <2>1. k \in DOMAIN vault /\ (store = "memory" => ~Stale(k))
    BY <1>2 DEF Put, With, Collected
  <2>2. Put(id, mapping)[k] = vault[k]
    BY <1>2, <2>1 DEF Put, With, Collected
  <2> QED
    BY <2>1, <2>2 DEF Stale, ExpiriesOK
<1> QED
  BY <1>1, <1>2

(* What is dropped by get and by delete leaves the rest as it was.         *)
LEMMA WithoutKeeps ==
  ASSUME NEW id
  PROVE  /\ DOMAIN Without(id) = DOMAIN vault \ {id}
         /\ \A k \in DOMAIN Without(id) : Without(id)[k] = vault[k]
BY DEF Without, Restrict

(* Init: the vault is empty.                                               *)
LEMMA ExpiriesInit == Init => ExpiriesOK
<1> USE RoundTripAssumption DEF RoundTripAssumption
<1>1. DOMAIN <<>> = {}
  OBVIOUS
<1> QED
  BY <1>1 DEF Init, ExpiriesOK

(* What a step does to the vault: nothing, all entries or one of them      *)
(* dropped, or a put.                                                      *)
LEMMA VaultSteps ==
  ASSUME [Next]_vars
  PROVE  \/ vault' = vault /\ clock' \in {clock, clock + 1}
         \/ vault' = <<>> /\ clock' = clock
         \/ clock' = clock /\ \E r \in Requests : vault' = Without(r)
         \/ clock' = clock /\ \E r \in Requests : \E mapping : vault' = Put(r, mapping)
<1>1. CASE \E r \in Requests : Sanitize(r)
  BY <1>1 DEF Sanitize
<1>2. CASE \E r \in Requests : Unredact(r)
  BY <1>2 DEF Unredact
<1>3. CASE \E r \in Requests : Delete(r)
  BY <1>3 DEF Delete
<1>4. CASE TimePasses
  BY <1>4 DEF TimePasses
<1>5. CASE Restart
  BY <1>5 DEF Restart, AfterRestart
<1>6. CASE UNCHANGED vars
  BY <1>6 DEF vars
<1> QED
  BY <1>1, <1>2, <1>3, <1>4, <1>5, <1>6 DEF Next

(* Whatever a step does, entries stay filed under requests and within TTL. *)
LEMMA ExpiriesNext == ExpiriesOK /\ [Next]_vars => ExpiriesOK'
<1> SUFFICES ASSUME ExpiriesOK, [Next]_vars
             PROVE  ExpiriesOK'
  OBVIOUS
<1> USE RoundTripAssumption DEF RoundTripAssumption
<1>0. clock' \in 0..MaxTime
  BY DEF ExpiriesOK, Next, Sanitize, Unredact, Delete, TimePasses, Restart, vars
<1>1. CASE vault' = vault /\ clock' \in {clock, clock + 1}
  BY <1>0, <1>1 DEF ExpiriesOK
<1>2. ASSUME clock' = clock, NEW r \in Requests, vault' = Without(r)
      PROVE  ExpiriesOK'
  BY <1>0, <1>2, WithoutKeeps DEF ExpiriesOK
<1>3. ASSUME clock' = clock, NEW r \in Requests, NEW mapping, vault' = Put(r, mapping)
      PROVE  ExpiriesOK'
  <2>1. DOMAIN vault' \subseteq Requests
    BY <1>3, PutKeepsLive DEF ExpiriesOK
  <2>2. \A id \in DOMAIN vault' : vault'[id].expires \in 0..(clock + TTL)
    BY <1>3, PutKeepsLive
  <2> QED
    BY <1>0, <1>3, <2>1, <2>2 DEF ExpiriesOK
<1>4. CASE vault' = <<>> /\ clock' = clock
  <2>1. DOMAIN <<>> = {}
    OBVIOUS
  <2> QED
    BY <1>0, <1>4, <2>1 DEF ExpiriesOK
<1> QED
  BY <1>1, <1>2, <1>3, <1>4, VaultSteps

(* Entries are filed under requests and expire within TTL, always.         *)
THEOREM Expiries == Spec => []ExpiriesOK
<1>1. Init => ExpiriesOK
  BY ExpiriesInit
<1>2. ExpiriesOK /\ [Next]_vars => ExpiriesOK'
  BY ExpiriesNext
<1> QED
  BY <1>1, <1>2, PTL DEF Spec

(* Personal data does not pile up in memory: once a request has stored its *)
(* mapping no entry is left that had expired by then (local/vault.py:31,   *)
(* 50-55).                                                                 *)
THEOREM Swept == Spec => PutSweepsStale
<1> DEFINE Sweep == \A r \in Requests :
                      store = "memory" /\ r \in DOMAIN vault' /\ r \notin DOMAIN vault =>
                        \A id \in DOMAIN vault' : vault'[id].expires >= clock
<1>1. ExpiriesOK /\ [Next]_vars => [Sweep]_vars
  <2> SUFFICES ASSUME ExpiriesOK, [Next]_vars,
                      NEW r \in Requests, store = "memory",
                      r \in DOMAIN vault', r \notin DOMAIN vault
               PROVE  \A id \in DOMAIN vault' : vault'[id].expires >= clock
    OBVIOUS
  <2>1. PICK q \in Requests : \E mapping : vault' = Put(q, mapping)
    <3>1. DOMAIN <<>> = {}
      OBVIOUS
    <3> QED
      BY <3>1, VaultSteps, WithoutKeeps
  <2>2. PICK mapping : vault' = Put(q, mapping)
    BY <2>1
  <2> QED
    BY <2>2, PutKeepsLive
<1> QED
  BY <1>1, Expiries, PTL DEF Spec, PutSweepsStale

-----------------------------------------------------------------------------
(* Induction, for sets: what the library states of predicates is out of    *)
(* the provers' reach, a well-founded order of finite sets is not.         *)

(* A set of naturals has a least member: the intervals below its members   *)
(* are finite sets, of which one is minimal.                               *)
LEMMA Least ==
  ASSUME NEW T, T \subseteq Nat, T # {}
  PROVE  \E m \in T : \A n \in T : m <= n
<1> DEFINE R == StrictSubsetOrdering(Nat)
           F == {0..n : n \in T}
<1>1. F \subseteq FiniteSubsetsOf(Nat) /\ F # {}
  <2>1. \A n \in Nat : IsFiniteSet(0..n) /\ 0..n \subseteq Nat
    BY FS_Interval
  <2> QED
    BY <2>1 DEF FiniteSubsetsOf
<1>2. \E x \in F : \A y \in F : ~ (<<y, x>> \in R)
  <2> HIDE DEF R, F
  <2>1. IsWellFoundedOn(R, FiniteSubsetsOf(Nat))
    BY FS_StrictSubsetOrderingWellFounded DEF R
  <2> QED BY <1>1, <2>1, WFMin
<1>3. PICK m \in T : \A n \in T : <<0..n, 0..m>> \notin R
  BY <1>2
<1>4. ASSUME NEW n \in T, n < m PROVE FALSE
  <2>1. 0..n \subseteq Nat /\ 0..m \subseteq Nat /\ 0..n \subseteq 0..m
    BY <1>4
  <2>2. m \in 0..m /\ m \notin 0..n
    BY <1>4
  <2> QED
    BY <1>3, <2>1, <2>2 DEF StrictSubsetOrdering
<1> QED
  BY <1>3, <1>4

(* Induction over the naturals and over the sequences, for sets.           *)
LEMMA NatSteps ==
  ASSUME NEW S, 0 \in S, \A n \in Nat : n \in S => n + 1 \in S
  PROVE  Nat \subseteq S
<1> SUFFICES ASSUME Nat \ S # {} PROVE FALSE
  OBVIOUS
<1>1. PICK m \in Nat \ S : \A n \in Nat \ S : m <= n
  BY Least
<1>2. m # 0 /\ m - 1 \in Nat /\ m - 1 \notin Nat \ S
  BY <1>1
<1>3. (m - 1) + 1 = m
  BY <1>1
<1> QED BY <1>1, <1>2, <1>3

(* A set with the empty sequence that is closed under Append has them all. *)
LEMMA SeqSteps ==
  ASSUME NEW D, NEW S, <<>> \in S, \A s \in Seq(D), d \in D : s \in S => Append(s, d) \in S
  PROVE  Seq(D) \subseteq S
<1> DEFINE N == {n \in Nat : \A s \in Seq(D) : Len(s) = n => s \in S}
<1>1. 0 \in N
  BY EmptySeq
<1>2. ASSUME NEW n \in Nat, n \in N PROVE n + 1 \in N
  <2> SUFFICES ASSUME NEW s \in Seq(D), Len(s) = n + 1 PROVE s \in S
    OBVIOUS
  <2>1. s # <<>>
    BY EmptySeq
  <2>2. PICK t \in Seq(D), d \in D : s = Append(t, d)
    BY <2>1, SequenceEmptyOrAppend
  <2>3. Len(t) = n
    BY <2>2, AppendProperties, LenProperties
  <2> QED
    BY <1>2, <2>2, <2>3
<1>3. Nat \subseteq N
  <2> HIDE DEF N
  <2> QED BY <1>1, <1>2, NatSteps
<1> QED
  BY <1>3, LenProperties

(* A recursion over 1..n whose step is a function has a solution.          *)
IsStep(step, n, D) == step \in [(1..n) \X D -> D]
Iterate(f, D, d, n, step) ==
  f \in [0..n -> D] /\ f[0] = d /\ \A k \in 1..n : f[k] = step[<<k, f[k - 1]>>]

(* From a step that is a function a recursion over 1..n can be built.      *)
LEMMA Iterates ==
  ASSUME NEW D, NEW d \in D, NEW n \in Nat, NEW step, IsStep(step, n, D)
  PROVE  \E f : Iterate(f, D, d, n, step)
<1> USE DEF IsStep
<1> DEFINE Solves(f, m) == f[0] = d /\ \A k \in 1..m : f[k] = step[<<k, f[k - 1]>>]
           S == {m \in Nat : m <= n => \E f \in [0..m -> D] : Solves(f, m)}
<1>1. 0 \in S
  <2> DEFINE f == [k \in 0..0 |-> d]
  <2>1. f \in [0..0 -> D] /\ Solves(f, 0)
    OBVIOUS
  <2> QED BY <2>1
<1>2. ASSUME NEW m \in Nat, m \in S PROVE m + 1 \in S
  <2> SUFFICES ASSUME m + 1 <= n PROVE \E f \in [0..(m + 1) -> D] : Solves(f, m + 1)
    OBVIOUS
  <2>1. PICK f \in [0..m -> D] : Solves(f, m)
    BY <1>2
  <2> DEFINE e == step[<<m + 1, f[m]>>]
             g == [k \in 0..(m + 1) |-> IF k = m + 1 THEN e ELSE f[k]]
  <2>2. e \in D
    OBVIOUS
  <2>3. g \in [0..(m + 1) -> D]
    <3> HIDE DEF e
    <3>1. \A k \in 0..(m + 1) : k # m + 1 => k \in 0..m
      OBVIOUS
    <3> QED BY <2>2, <3>1
  <2>4. g[m + 1] = e /\ \A k \in 0..m : g[k] = f[k]
    OBVIOUS
  <2>5. Solves(g, m + 1)
    <3> HIDE DEF g
    <3>1. g[0] = d
      BY <2>1, <2>4
    <3>2. ASSUME NEW k \in 1..(m + 1) PROVE g[k] = step[<<k, g[k - 1]>>]
      <4>1. CASE k = m + 1
        <5>1. k - 1 = m /\ m \in 0..m
          BY <4>1
        <5> QED BY <4>1, <5>1, <2>4
      <4>2. CASE k # m + 1
        <5>1. k \in 1..m /\ k \in 0..m /\ k - 1 \in 0..m
          BY <4>2
        <5> QED BY <5>1, <2>1, <2>4
      <4> QED BY <4>1, <4>2
    <3> QED BY <3>1, <3>2
  <2> QED BY <2>3, <2>5
<1>3. n \in S
  <2> HIDE DEF S
  <2> QED BY <1>1, <1>2, NatSteps
<1> QED BY <1>3 DEF Iterate

(* FlattenSeq adds one piece after the other.                              *)
LEMMA FlattenSteps ==
  ASSUME NEW D, NEW pieces \in Seq(Seq(D))
  PROVE  \E f \in [0..Len(pieces) -> Seq(D)] :
           /\ f[0] = <<>>
           /\ \A k \in 1..Len(pieces) : f[k] = f[k - 1] \o pieces[k]
           /\ FlattenSeq(pieces) = f[Len(pieces)]
<1> DEFINE n == Len(pieces)
           step == [p \in (1..n) \X Seq(D) |-> p[2] \o pieces[p[1]]]
<1>1. n \in Nat /\ \A k \in 1..n : pieces[k] \in Seq(D)
  BY LenProperties
<1>2. step \in [(1..n) \X Seq(D) -> Seq(D)]
  BY <1>1, ConcatProperties
<1>3. PICK f : Iterate(f, Seq(D), <<>>, n, step)
  <2>1. <<>> \in Seq(D) /\ n \in Nat /\ IsStep(step, n, Seq(D))
    BY <1>1, <1>2, EmptySeq DEF IsStep
  <2> HIDE DEF step, n
  <2> QED BY <2>1, Iterates
<1>3a. f \in [0..n -> Seq(D)] /\ f[0] = <<>> /\ \A k \in 1..n : f[k] = step[<<k, f[k - 1]>>]
  BY <1>3 DEF Iterate
<1>4. \A k \in 1..n : f[k] = f[k - 1] \o pieces[k]
  <2>1. \A k \in 1..n : k - 1 \in 0..n
    BY <1>1
  <2> QED BY <1>3a, <2>1
<1>5. CASE n = 0
  BY <1>3a, <1>4, <1>5, EmptySeq DEF FlattenSeq
<1>6. CASE n # 0
  <2> DEFINE flatten[i \in 1..Len(pieces)] == IF i = 1 THEN pieces[i] ELSE flatten[i - 1] \o pieces[i]
             g == [i \in 1..Len(pieces) |-> f[i]]
  <2>1. g = [i \in 1..Len(pieces) |-> IF i = 1 THEN pieces[i] ELSE g[i - 1] \o pieces[i]]
    <3> SUFFICES ASSUME NEW i \in 1..Len(pieces)
                 PROVE  f[i] = IF i = 1 THEN pieces[i] ELSE g[i - 1] \o pieces[i]
      OBVIOUS
    <3>1. i \in 1..n /\ f[i] = f[i - 1] \o pieces[i] /\ pieces[i] \in Seq(D)
      BY <1>1, <1>4
    <3>2. CASE i = 1
      <4>1. f[i - 1] = <<>>
        BY <1>3a, <3>2
      <4> HIDE DEF n, g
      <4> QED BY <3>1, <3>2, <4>1, ConcatEmptySeq
    <3>3. CASE i # 1
      <4>1. i - 1 \in 1..Len(pieces)
        BY <1>1, <3>3
      <4> QED BY <3>1, <3>3, <4>1
    <3> QED BY <3>2, <3>3
  <2>2. flatten = [i \in 1..Len(pieces) |-> IF i = 1 THEN pieces[i] ELSE flatten[i - 1] \o pieces[i]]
    <3> HIDE DEF g, n
    <3> QED BY <2>1
  <2>3. FlattenSeq(pieces) = flatten[n]
    BY <1>6 DEF FlattenSeq
  <2> HIDE DEF flatten
  <2> DEFINE S == {i \in Nat : i + 1 \in 1..n => flatten[i + 1] = f[i + 1]}
  <2>4. 0 \in S
    <3>1. 1 \in 1..n
      BY <1>1, <1>6
    <3>2. f[1] = f[0] \o pieces[1] /\ pieces[1] \in Seq(D) /\ f[0] = <<>>
      <4>1. 1 - 1 = 0
        OBVIOUS
      <4> QED BY <1>1, <1>3a, <1>4, <3>1, <4>1
    <3>3. flatten[1] = pieces[1]
      BY <2>2, <3>1
    <3> QED BY <3>2, <3>3, ConcatEmptySeq
  <2>5. ASSUME NEW i \in Nat, i \in S PROVE i + 1 \in S
    <3> SUFFICES ASSUME (i + 1) + 1 \in 1..n PROVE flatten[(i + 1) + 1] = f[(i + 1) + 1]
      OBVIOUS
    <3>1. i + 1 \in 1..n /\ ((i + 1) + 1) - 1 = i + 1 /\ (i + 1) + 1 # 1
      BY <1>1
    <3>2. flatten[i + 1] = f[i + 1]
      BY <2>5, <3>1
    <3>3. flatten[(i + 1) + 1] = flatten[i + 1] \o pieces[(i + 1) + 1]
      BY <2>2, <3>1
    <3>4. f[(i + 1) + 1] = f[i + 1] \o pieces[(i + 1) + 1]
      BY <1>4, <3>1
    <3> QED BY <3>2, <3>3, <3>4
  <2>6. flatten[n] = f[n]
    <3>1. n - 1 \in Nat /\ (n - 1) + 1 \in 1..n /\ (n - 1) + 1 = n
      BY <1>1, <1>6
    <3>2. n - 1 \in S
      <4> HIDE DEF S
      <4> QED BY <2>4, <2>5, <3>1, NatSteps
    <3> QED BY <3>1, <3>2
  <2> QED BY <1>3a, <1>4, <2>3, <2>6
<1> QED BY <1>3a, <1>4, <1>5, <1>6

-----------------------------------------------------------------------------
(* The sorts. *)

StrictWeak(less, n) ==
  \A i, j, k \in 1..n : <<i, j>> \in less =>
    <<j, i>> \notin less /\ (<<i, k>> \in less \/ <<k, j>> \in less)

(* The places of s in the order of less: each place is taken once.         *)
Arranges(p, n, less) ==
  /\ p \in [1..n -> 1..n]
  /\ \A i \in 1..n : \E k \in 1..n : p[k] = i
  /\ \A k, l \in 1..n : k < l => p[k] # p[l] /\ <<p[l], p[k]>> \notin less

(* Each position has a rank of its own, the number of those ahead of it,   *)
(* so the ranks are 0..n-1 and a sort is a permutation of the positions.   *)
LEMMA SortArranges ==
  ASSUME NEW D, NEW s \in Seq(D), NEW less, StrictWeak(less, Len(s))
  PROVE  \E p : Arranges(p, Len(s), less) /\ StableSort(s, less) = [k \in 1..Len(s) |-> s[p[k]]]
<1> DEFINE n == Len(s)
           Before(i, j) == <<i, j>> \in less \/ (<<j, i>> \notin less /\ i < j)
           rank(i) == Cardinality(Ahead(s, less, i))
           p == [k \in 1..n |-> CHOOSE i \in 1..n : rank(i) = k - 1]
<1>1. n \in Nat /\ DOMAIN s = 1..n
  BY LenProperties
<1>2. \A i, j \in 1..n : i # j => (Before(i, j) \/ Before(j, i)) /\ ~(Before(i, j) /\ Before(j, i))
  <2> SUFFICES ASSUME NEW i \in 1..n, NEW j \in 1..n, i # j
               PROVE  (Before(i, j) \/ Before(j, i)) /\ ~(Before(i, j) /\ Before(j, i))
    OBVIOUS
  <2>1. ~(<<i, j>> \in less /\ <<j, i>> \in less)
    BY DEF StrictWeak
  <2>2. i < j \/ j < i
    BY <1>1
  <2>3. ~(i < j /\ j < i)
    BY <1>1
  <2> QED BY <2>1, <2>2, <2>3
<1>3. \A i, j, k \in 1..n : Before(i, j) /\ Before(j, k) => Before(i, k)
  BY <1>1 DEF StrictWeak
<1>4. \A i \in 1..n : ~Before(i, i)
  BY <1>1 DEF StrictWeak
<1>5. \A i \in 1..n : Ahead(s, less, i) = {j \in 1..n : Before(j, i)}
  BY <1>1 DEF Ahead
<1> HIDE DEF Before, n
<1>6. IsFiniteSet(1..n) /\ Cardinality(1..n) = n
  <2>1. Cardinality(1..n) = IF 1 > n THEN 0 ELSE n - 1 + 1
    BY <1>1, FS_Interval
  <2> QED BY <1>1, <2>1, FS_Interval
<1>7. \A i \in 1..n : IsFiniteSet(Ahead(s, less, i)) /\ rank(i) \in 0..(n - 1)
  <2> SUFFICES ASSUME NEW i \in 1..n
               PROVE  IsFiniteSet(Ahead(s, less, i)) /\ rank(i) \in 0..(n - 1)
    OBVIOUS
  <2>1. Ahead(s, less, i) \subseteq (1..n) \ {i}
    BY <1>4, <1>5
  <2>2. IsFiniteSet((1..n) \ {i}) /\ Cardinality((1..n) \ {i}) = n - 1
    BY <1>6, FS_RemoveElement
  <2>3. IsFiniteSet(Ahead(s, less, i)) /\ Cardinality(Ahead(s, less, i)) <= n - 1
    BY <2>1, <2>2, FS_Subset
  <2>4. Cardinality(Ahead(s, less, i)) \in Nat
    BY <2>3, FS_CardinalityType
  <2> QED BY <1>1, <2>3, <2>4
<1>8. ASSUME NEW i \in 1..n, NEW j \in 1..n, Before(i, j) PROVE rank(i) < rank(j)
  <2>1. Ahead(s, less, i) \subseteq Ahead(s, less, j)
    BY <1>3, <1>5, <1>8
  <2>2. Ahead(s, less, i) # Ahead(s, less, j)
    BY <1>4, <1>5, <1>8
  <2>3. rank(i) <= rank(j) /\ rank(i) # rank(j)
    BY <1>7, <2>1, <2>2, FS_Subset
  <2> HIDE DEF rank
  <2> QED BY <1>1, <1>7, <2>3
<1> HIDE DEF rank
<1>9. \A i, j \in 1..n : rank(i) = rank(j) => i = j
  <2> SUFFICES ASSUME NEW i \in 1..n, NEW j \in 1..n, Before(i, j) PROVE rank(i) # rank(j)
    BY <1>2
  <2> QED BY <1>1, <1>7, <1>8
<1>10. \A k \in 1..n : \E i \in 1..n : rank(i) = k - 1
  <2> DEFINE f == [i \in 1..n |-> rank(i) + 1]
  <2>1. f \in [1..n -> 1..n]
    BY <1>1, <1>7
  <2>2. f \in Injection(1..n, 1..n)
    <3>1. \A i, j \in 1..n : f[i] = f[j] => i = j
      BY <1>1, <1>7, <1>9
    <3> QED BY <2>1, <3>1 DEF Injection, IsInjective
  <2>3. f \in Surjection(1..n, 1..n)
    <3> HIDE DEF f
    <3> QED BY <2>2, <1>6, FS_Injection
  <2>4. \A k \in 1..n : \E i \in 1..n : f[i] = k
    <3> HIDE DEF f
    <3> QED BY <2>3 DEF Surjection
  <2> SUFFICES ASSUME NEW k \in 1..n PROVE \E i \in 1..n : rank(i) = k - 1
    OBVIOUS
  <2>5. PICK i \in 1..n : f[i] = k
    BY <2>4
  <2>6. rank(i) + 1 = k /\ rank(i) \in 0..(n - 1)
    BY <1>7, <2>5
  <2> QED BY <1>1, <2>6
<1>11. \A k \in 1..n : p[k] \in 1..n /\ rank(p[k]) = k - 1
  BY <1>10
<1>12. p \in [1..n -> 1..n]
  BY <1>11
<1>13. StableSort(s, less) = [k \in 1..n |-> s[p[k]]]
  BY <1>1 DEF StableSort, rank
<1> HIDE DEF p
<1>14. \A i \in 1..n : \E k \in 1..n : p[k] = i
  <2> SUFFICES ASSUME NEW i \in 1..n PROVE p[rank(i) + 1] = i /\ rank(i) + 1 \in 1..n
    OBVIOUS
  <2>1. rank(i) + 1 \in 1..n /\ (rank(i) + 1) - 1 = rank(i)
    BY <1>1, <1>7
  <2> QED BY <1>9, <1>11, <2>1
<1>15. ASSUME NEW k \in 1..n, NEW l \in 1..n, k < l PROVE p[k] # p[l] /\ <<p[l], p[k]>> \notin less
  <2>1. rank(p[k]) < rank(p[l]) /\ p[k] \in 1..n /\ p[l] \in 1..n
    BY <1>1, <1>11, <1>15
  <2>2. ~Before(p[l], p[k])
    BY <1>1, <1>7, <1>8, <2>1
  <2> QED BY <1>1, <1>7, <2>1, <2>2 DEF Before
<1> QED BY <1>12, <1>13, <1>14, <1>15 DEF Arranges, n

(* A sort gives the same elements, each place once.                        *)
Permutes(r, s) ==
  /\ Len(r) = Len(s)
  /\ \A k \in 1..Len(r) : \E i \in 1..Len(s) : r[k] = s[i]
  /\ \A i \in 1..Len(s) : \E k \in 1..Len(r) : r[k] = s[i]
  /\ \A k, l \in 1..Len(r) : k < l =>
       \E i, j \in 1..Len(s) : i # j /\ r[k] = s[i] /\ r[l] = s[j]
Respects(r, s, less) ==
  \A k, l \in 1..Len(s) : k < l =>
    \E i, j \in 1..Len(s) : r[k] = s[i] /\ r[l] = s[j] /\ <<j, i>> \notin less

(* A sort loses nothing, repeats nothing and puts nothing after what it    *)
(* comes before (list.sort, as redaction.py:71, 115-120 and 127 use it).   *)
LEMMA SortPermutes ==
  ASSUME NEW D, NEW s \in Seq(D), NEW less, StrictWeak(less, Len(s))
  PROVE  /\ StableSort(s, less) \in Seq(D) /\ Permutes(StableSort(s, less), s)
         /\ Respects(StableSort(s, less), s, less)
<1> DEFINE n == Len(s)
           r == StableSort(s, less)
<1>1. n \in Nat /\ \A i \in 1..n : s[i] \in D
  BY LenProperties
<1>2. PICK p : Arranges(p, n, less) /\ r = [k \in 1..n |-> s[p[k]]]
  BY SortArranges
<1> HIDE DEF n, r
<1>3. \A k \in 1..n : p[k] \in 1..n /\ r[k] = s[p[k]]
  BY <1>2 DEF Arranges
<1>4. r \in Seq(D) /\ Len(r) = n
  <2>1. r \in [1..n -> D]
    BY <1>1, <1>2, <1>3
  <2> QED BY <1>1, <2>1, SeqDef
<1>5. \A k, l \in 1..n : k < l =>
        /\ p[k] \in 1..n /\ p[l] \in 1..n /\ r[k] = s[p[k]] /\ r[l] = s[p[l]]
        /\ p[k] # p[l] /\ <<p[l], p[k]>> \notin less
  BY <1>2, <1>3 DEF Arranges
<1>6. \A k \in 1..n : \E i \in 1..n : r[k] = s[i]
  BY <1>3
<1>7. \A i \in 1..n : \E k \in 1..n : r[k] = s[i]
  BY <1>2, <1>3 DEF Arranges
<1>8. ASSUME NEW k \in 1..n, NEW l \in 1..n, k < l
      PROVE  /\ \E i, j \in 1..n : i # j /\ r[k] = s[i] /\ r[l] = s[j]
             /\ \E i, j \in 1..n : r[k] = s[i] /\ r[l] = s[j] /\ <<j, i>> \notin less
  <2>1. /\ p[k] \in 1..n /\ p[l] \in 1..n /\ r[k] = s[p[k]] /\ r[l] = s[p[l]]
        /\ p[k] # p[l] /\ <<p[l], p[k]>> \notin less
    BY <1>5, <1>8
  <2> QED BY <2>1
<1>9. Permutes(r, s) /\ Respects(r, s, less)
  <2>1. Len(r) = Len(s) /\ Len(s) = n
    BY <1>4 DEF n
  <2>2. Permutes(r, s)
    BY <1>6, <1>7, <1>8, <2>1 DEF Permutes
  <2>3. Respects(r, s, less)
    BY <1>8 DEF Respects, n
  <2> QED BY <2>2, <2>3
<1> QED BY <1>4, <1>9 DEF r

(* A hit of any detector.                                                  *)
IsHit(m) == m.from \in Nat /\ m.to \in Nat /\ m.from < m.to /\ m.score \in Int

(* Sorted by start, the hits start in order.                               *)
LEMMA ByStartSorts ==
  ASSUME NEW D, \A m \in D : IsHit(m), NEW s \in Seq(D)
  PROVE  /\ ByStart(s) \in Seq(D) /\ Permutes(ByStart(s), s)
         /\ \A k, l \in 1..Len(s) : k < l => ByStart(s)[k].from <= ByStart(s)[l].from
<1> DEFINE less == {p \in (DOMAIN s) \X (DOMAIN s) : StartsBefore(s[p[1]], s[p[2]])}
<1>1. DOMAIN s = 1..Len(s) /\ \A i \in 1..Len(s) : s[i] \in D
  BY LenProperties
<1>2. \A i, j \in 1..Len(s) : <<i, j>> \in less <=> s[i].from < s[j].from
  BY <1>1 DEF StartsBefore
<1>3. \A i \in 1..Len(s) : s[i].from \in Int
  BY <1>1 DEF IsHit
<1> HIDE DEF less
<1>4. StrictWeak(less, Len(s))
  BY <1>2, <1>3 DEF StrictWeak
<1>5. ByStart(s) = StableSort(s, less)
  BY DEF ByStart, less
<1>6. ByStart(s) \in Seq(D) /\ Permutes(ByStart(s), s) /\ Respects(ByStart(s), s, less)
  BY <1>4, <1>5, SortPermutes
<1>7. \A k, l \in 1..Len(s) : k < l => ByStart(s)[k].from <= ByStart(s)[l].from
  <2> SUFFICES ASSUME NEW k \in 1..Len(s), NEW l \in 1..Len(s), k < l
               PROVE  ByStart(s)[k].from <= ByStart(s)[l].from
    OBVIOUS
  <2>1. PICK i, j \in 1..Len(s) : /\ ByStart(s)[k] = s[i] /\ ByStart(s)[l] = s[j]
                                 /\ <<j, i>> \notin less
    BY <1>6 DEF Respects
  <2>2. ~(s[j].from < s[i].from) /\ s[i].from \in Int /\ s[j].from \in Int
    BY <1>2, <1>3, <2>1
  <2> QED BY <2>1, <2>2
<1> QED BY <1>6, <1>7

(* Sorted by rank, none outranks one that is before it.                    *)
LEMMA ByRankSorts ==
  ASSUME NEW D, \A m \in D : IsHit(m), NEW s \in Seq(D)
  PROVE  /\ ByRank(s) \in Seq(D) /\ Permutes(ByRank(s), s)
         /\ \A k, l \in 1..Len(s) : k < l => ~Outranks(ByRank(s)[l], ByRank(s)[k])
<1> DEFINE less == {p \in (DOMAIN s) \X (DOMAIN s) : Outranks(s[p[1]], s[p[2]])}
<1>1. DOMAIN s = 1..Len(s) /\ \A i \in 1..Len(s) : s[i] \in D
  BY LenProperties
<1>2. \A i, j \in 1..Len(s) : <<i, j>> \in less <=> Outranks(s[i], s[j])
  BY <1>1
<1>3. \A m, a, b \in D : Outranks(m, a) => ~Outranks(a, m) /\ (Outranks(m, b) \/ Outranks(b, a))
  <2> SUFFICES ASSUME NEW m \in D, NEW a \in D, NEW b \in D, Outranks(m, a)
               PROVE  ~Outranks(a, m) /\ (Outranks(m, b) \/ Outranks(b, a))
    OBVIOUS
  <2>1. \A x \in {m, a, b} : x.score \in Int /\ x.from \in Int /\ SpanLength(x) \in Int
    BY DEF IsHit, SpanLength
  <2>2. ~Outranks(a, m)
    BY <2>1 DEF Outranks, StartsBefore
  <2>3. Outranks(m, b) \/ Outranks(b, a)
    BY <2>1 DEF Outranks, StartsBefore
  <2> QED BY <2>2, <2>3
<1> HIDE DEF less
<1>4. StrictWeak(less, Len(s))
  BY <1>1, <1>2, <1>3 DEF StrictWeak
<1>5. ByRank(s) = StableSort(s, less)
  BY DEF ByRank, less
<1>6. ByRank(s) \in Seq(D) /\ Permutes(ByRank(s), s) /\ Respects(ByRank(s), s, less)
  BY <1>4, <1>5, SortPermutes
<1>7. \A k, l \in 1..Len(s) : k < l => ~Outranks(ByRank(s)[l], ByRank(s)[k])
  BY <1>2, <1>6 DEF Respects
<1> QED BY <1>6, <1>7

(* Hits in their order, of which none reaches into the next.               *)
Separate(kept) == \A i, j \in 1..Len(kept) : i < j => kept[i].to <= kept[j].from
NoOverlap(list) == \A i, j \in 1..Len(list) : i < j => ~Overlaps(list[i], list[j])

(* Hits that do not overlap, sorted by start, end before the next begins.  *)
LEMMA SortSeparates ==
  ASSUME NEW D, \A m \in D : IsHit(m), NEW s \in Seq(D), NoOverlap(s)
  PROVE  Separate(ByStart(s))
<1> DEFINE r == ByStart(s)
<1>1. /\ r \in Seq(D) /\ Permutes(r, s)
      /\ \A k, l \in 1..Len(s) : k < l => r[k].from <= r[l].from
  BY ByStartSorts
<1>2. \A k \in 1..Len(r) : r[k] \in D
  BY <1>1, LenProperties
<1>3. Len(s) \in Nat
  BY LenProperties
<1> HIDE DEF r
<1> SUFFICES ASSUME NEW k \in 1..Len(r), NEW l \in 1..Len(r), k < l PROVE r[k].to <= r[l].from
  BY DEF Separate, r
<1>4. PICK i, j \in 1..Len(s) : i # j /\ r[k] = s[i] /\ r[l] = s[j]
  BY <1>1 DEF Permutes
<1>5. i < j \/ j < i
  BY <1>3, <1>4
<1>6. ~Overlaps(r[k], r[l])
  BY <1>4, <1>5 DEF NoOverlap, Overlaps
<1>7. r[k].from <= r[l].from
  BY <1>1 DEF Permutes
<1>8. /\ r[k].from \in Nat /\ r[k].to \in Nat /\ r[k].from < r[k].to
      /\ r[l].from \in Nat /\ r[l].to \in Nat /\ r[l].from < r[l].to
  BY <1>2 DEF IsHit
<1>9. ~(r[k].from < r[l].to /\ r[l].from < r[k].to)
  BY <1>6 DEF Overlaps
<1> QED BY <1>7, <1>8, <1>9

-----------------------------------------------------------------------------
(* The filters. *)

(* What a filter has kept of the first k of the list: some of them, and of *)
(* what it dropped each overlaps one that it kept and that came before.    *)
Filters(kept, list, k) ==
  /\ \A i \in 1..Len(kept) : \E j \in 1..k : kept[i] = list[j]
  /\ NoOverlap(kept)
  /\ \A i \in 1..k : \E a \in 1..Len(kept) :
       \/ kept[a] = list[i]
       \/ Overlaps(kept[a], list[i]) /\ \E j \in 1..k : j < i /\ kept[a] = list[j]

(* A filter may drop a hit that overlaps one it has kept.                  *)
LEMMA FilterDrops ==
  ASSUME NEW D, NEW list \in Seq(D), NEW kept \in Seq(D), NEW k \in Nat, k + 1 \in 1..Len(list),
         Filters(kept, list, k), \E a \in 1..Len(kept) : Overlaps(kept[a], list[k + 1])
  PROVE  Filters(kept, list, k + 1)
<1>1. PICK a \in 1..Len(kept) : Overlaps(kept[a], list[k + 1])
  OBVIOUS
<1>2. PICK j \in 1..k : kept[a] = list[j]
  BY DEF Filters
<1>3. \A i \in 1..k : i \in 1..(k + 1)
  OBVIOUS
<1>4. j \in 1..(k + 1) /\ j < k + 1
  OBVIOUS
<1>5. ASSUME NEW i \in 1..(k + 1)
      PROVE  \E b \in 1..Len(kept) :
               \/ kept[b] = list[i]
               \/ Overlaps(kept[b], list[i]) /\ \E h \in 1..(k + 1) : h < i /\ kept[b] = list[h]
  <2>1. CASE i = k + 1
    BY <1>1, <1>2, <1>4, <2>1
  <2>2. CASE i \in 1..k
    BY <1>3, <2>2 DEF Filters
  <2> QED BY <2>1, <2>2
<1> QED BY <1>3, <1>5 DEF Filters

(* A filter may keep a hit that overlaps none it has kept.                 *)
LEMMA FilterKeeps ==
  ASSUME NEW D, NEW list \in Seq(D), NEW kept \in Seq(D), NEW k \in Nat, k + 1 \in 1..Len(list),
         Filters(kept, list, k), \A a \in 1..Len(kept) : ~Overlaps(kept[a], list[k + 1])
  PROVE  Append(kept, list[k + 1]) \in Seq(D) /\ Filters(Append(kept, list[k + 1]), list, k + 1)
<1> DEFINE n == Len(kept)
           more == Append(kept, list[k + 1])
<1>1. list[k + 1] \in D /\ n \in Nat
  BY LenProperties
<1>2. /\ more \in Seq(D) /\ Len(more) = n + 1 /\ more[n + 1] = list[k + 1]
      /\ \A i \in 1..n : more[i] = kept[i]
  BY <1>1, AppendProperties
<1> HIDE DEF more, n
<1>3. \A i \in 1..(n + 1) : i \in 1..n \/ i = n + 1
  BY <1>1
<1>4. /\ \A i \in 1..n : \E j \in 1..k : kept[i] = list[j]
      /\ \A i, j \in 1..n : i < j => ~Overlaps(kept[i], kept[j])
      /\ \A i \in 1..n : ~Overlaps(kept[i], list[k + 1])
      /\ \A i \in 1..k : \E a \in 1..n :
           \/ kept[a] = list[i]
           \/ Overlaps(kept[a], list[i]) /\ \E j \in 1..k : j < i /\ kept[a] = list[j]
  BY DEF Filters, NoOverlap, n
<1>5. ASSUME NEW i \in 1..(n + 1) PROVE \E j \in 1..(k + 1) : more[i] = list[j]
  <2>1. \A j \in 1..k : j \in 1..(k + 1)
    OBVIOUS
  <2>2. CASE i \in 1..n
    <3>1. PICK j \in 1..k : kept[i] = list[j]
      BY <1>4, <2>2
    <3> QED BY <1>2, <2>1, <2>2, <3>1
  <2>3. CASE i = n + 1
    BY <1>2, <2>3
  <2> QED BY <1>3, <2>2, <2>3
<1>6. ASSUME NEW i \in 1..(n + 1), NEW j \in 1..(n + 1), i < j PROVE ~Overlaps(more[i], more[j])
  <2>1. i \in 1..n
    BY <1>1, <1>6
  <2> QED BY <1>2, <1>3, <1>4, <1>6, <2>1
<1>7. ASSUME NEW i \in 1..(k + 1)
      PROVE  \E b \in 1..(n + 1) :
               \/ more[b] = list[i]
               \/ Overlaps(more[b], list[i]) /\ \E h \in 1..(k + 1) : h < i /\ more[b] = list[h]
  <2>1. CASE i = k + 1
    BY <1>1, <1>2, <2>1
  <2>2. CASE i \in 1..k
    <3>1. PICK a \in 1..n : \/ kept[a] = list[i]
                            \/ Overlaps(kept[a], list[i]) /\ \E j \in 1..k : j < i /\ kept[a] = list[j]
      BY <1>4, <2>2
    <3>2. a \in 1..(n + 1) /\ more[a] = kept[a] /\ \A j \in 1..k : j \in 1..(k + 1)
      BY <1>1, <1>2
    <3> QED BY <3>1, <3>2
  <2>3. i = k + 1 \/ i \in 1..k
    OBVIOUS
  <2> HIDE DEF n
  <2> QED BY <2>1, <2>2, <2>3
<1>8. Filters(more, list, k + 1)
  BY <1>2, <1>5, <1>6, <1>7 DEF Filters, NoOverlap
<1> QED BY <1>2, <1>8 DEF more

(* _dedupe_overlapping filters.                                            *)
LEMMA AcceptedFilters ==
  ASSUME NEW D, \A m \in D : IsHit(m), NEW list \in Seq(D)
  PROVE  Accepted(list) \in Seq(D) /\ Filters(Accepted(list), list, Len(list))
<1> DEFINE n == Len(list)
           Next1(seq, k) == IF \E a \in Range(seq) : Overlaps(list[k], a) THEN seq
                            ELSE Append(seq, list[k])
           step == [p \in (1..n) \X Seq(D) |-> Next1(p[2], p[1])]
           accepted[k \in 0..Len(list)] ==
             IF k = 0 THEN <<>>
             ELSE IF \E a \in Range(accepted[k - 1]) : Overlaps(list[k], a) THEN accepted[k - 1]
             ELSE Append(accepted[k - 1], list[k])
<1>1. n \in Nat /\ \A k \in 1..n : list[k] \in D
  BY LenProperties
<1>2. \A k \in 1..n : \A seq \in Seq(D) : Next1(seq, k) \in Seq(D)
  BY <1>1, AppendProperties
<1> HIDE DEF Next1
<1>3. PICK g : Iterate(g, Seq(D), <<>>, n, step)
  <2>1. <<>> \in Seq(D) /\ n \in Nat /\ IsStep(step, n, Seq(D))
    BY <1>1, <1>2, EmptySeq DEF IsStep
  <2> HIDE DEF step, n
  <2> QED BY <2>1, Iterates
<1>4. g \in [0..n -> Seq(D)] /\ g[0] = <<>> /\ \A k \in 1..n : g[k] = step[<<k, g[k - 1]>>]
  BY <1>3 DEF Iterate
<1>5. \A k \in 1..n : k - 1 \in 0..n /\ g[k - 1] \in Seq(D) /\ g[k] = Next1(g[k - 1], k)
  <2>1. \A k \in 1..n : k - 1 \in 0..n
    BY <1>1
  <2> QED BY <1>4, <2>1
<1>6. g = [k \in 0..n |-> IF k = 0 THEN <<>> ELSE Next1(g[k - 1], k)]
  <2> HIDE DEF step
  <2>1. g = [k \in 0..n |-> g[k]]
    BY <1>4
  <2>2. ASSUME NEW k \in 0..n PROVE g[k] = IF k = 0 THEN <<>> ELSE Next1(g[k - 1], k)
    <3>1. CASE k = 0
      BY <1>4, <3>1
    <3>2. CASE k # 0
      <4>1. k \in 1..n
        BY <1>1, <3>2
      <4>2. g[k] = Next1(g[k - 1], k)
        BY <1>5, <4>1
      <4> QED BY <3>2, <4>2
    <3> QED BY <3>1, <3>2
  <2> HIDE DEF n
  <2>3. [k \in 0..n |-> g[k]] = [k \in 0..n |-> IF k = 0 THEN <<>> ELSE Next1(g[k - 1], k)]
    BY <2>2, ZenonT(40)
  <2> QED BY <2>1, <2>3, Zenon
<1>7. accepted = [k \in 0..n |-> IF k = 0 THEN <<>> ELSE Next1(accepted[k - 1], k)]
  BY <1>6 DEF Next1
<1>8. Accepted(list) = accepted[n]
  BY DEF Accepted
<1> HIDE DEF accepted, step
<1>9. accepted[0] = <<>> /\ \A k \in 1..n : accepted[k] = Next1(accepted[k - 1], k)
  <2>1. 0 \in 0..n /\ \A k \in 1..n : k \in 0..n /\ k # 0
    BY <1>1
  <2> HIDE DEF n
  <2> QED BY <1>7, <2>1
<1> DEFINE S == {k \in Nat : k <= n => accepted[k] \in Seq(D) /\ Filters(accepted[k], list, k)}
<1>10. 0 \in S
  <2>1. Len(<<>>) = 0 /\ <<>> \in Seq(D)
    BY EmptySeq
  <2>2. Filters(<<>>, list, 0)
    BY <2>1 DEF Filters, NoOverlap
  <2> QED BY <1>9, <2>1, <2>2
<1>11. ASSUME NEW k \in Nat, k \in S PROVE k + 1 \in S
  <2> SUFFICES ASSUME k + 1 <= n
               PROVE  accepted[k + 1] \in Seq(D) /\ Filters(accepted[k + 1], list, k + 1)
    OBVIOUS
  <2>1. k + 1 \in 1..n /\ k <= n /\ (k + 1) - 1 = k
    BY <1>1
  <2>2. accepted[k] \in Seq(D) /\ Filters(accepted[k], list, k)
    BY <1>11, <2>1
  <2>3. accepted[k + 1] = Next1(accepted[k], k + 1)
    BY <1>9, <2>1
  <2>4. (\E a \in Range(accepted[k]) : Overlaps(list[k + 1], a))
          <=> \E a \in 1..Len(accepted[k]) : Overlaps(accepted[k][a], list[k + 1])
    <3>1. Range(accepted[k]) = {accepted[k][a] : a \in 1..Len(accepted[k])}
      BY <2>2, RangeEquality
    <3> QED BY <3>1 DEF Overlaps
  <2> HIDE DEF S
  <2>5. CASE \E a \in 1..Len(accepted[k]) : Overlaps(accepted[k][a], list[k + 1])
    BY <2>1, <2>2, <2>3, <2>4, <2>5, FilterDrops DEF Next1
  <2>6. CASE \A a \in 1..Len(accepted[k]) : ~Overlaps(accepted[k][a], list[k + 1])
    BY <2>1, <2>2, <2>3, <2>4, <2>6, FilterKeeps DEF Next1
  <2> QED BY <2>5, <2>6
<1>12. n \in S
  <2> HIDE DEF S, n
  <2> QED BY <1>1, <1>10, <1>11, NatSteps
<1> QED BY <1>8, <1>12

(* _reversible_redact, whose list is in the order of the text, filters in  *)
(* that order.                                                             *)
LEMMA NotBehindFilters ==
  ASSUME NEW D, \A m \in D : IsHit(m), NEW list \in Seq(D),
         \A i, j \in 1..Len(list) : i < j => list[i].from <= list[j].from
  PROVE  /\ NotBehind(list) \in Seq(D) /\ Filters(NotBehind(list), list, Len(list))
         /\ Separate(NotBehind(list))
<1> DEFINE n == Len(list)
           Next1(seq, k) == IF seq # <<>> /\ list[k].from < Last(seq).to THEN seq
                            ELSE Append(seq, list[k])
           step == [p \in (1..n) \X Seq(D) |-> Next1(p[2], p[1])]
           kept[k \in 0..Len(list)] ==
             IF k = 0 THEN <<>>
             ELSE IF kept[k - 1] # <<>> /\ list[k].from < Last(kept[k - 1]).to THEN kept[k - 1]
             ELSE Append(kept[k - 1], list[k])
<1>1. n \in Nat /\ \A k \in 1..n : list[k] \in D
  BY LenProperties
<1>2. \A k \in 1..n : \A seq \in Seq(D) : Next1(seq, k) \in Seq(D)
  BY <1>1, AppendProperties
<1> HIDE DEF Next1
<1>3. PICK g : Iterate(g, Seq(D), <<>>, n, step)
  <2>1. <<>> \in Seq(D) /\ n \in Nat /\ IsStep(step, n, Seq(D))
    BY <1>1, <1>2, EmptySeq DEF IsStep
  <2> HIDE DEF step, n
  <2> QED BY <2>1, Iterates
<1>4. g \in [0..n -> Seq(D)] /\ g[0] = <<>> /\ \A k \in 1..n : g[k] = step[<<k, g[k - 1]>>]
  BY <1>3 DEF Iterate
<1>5. \A k \in 1..n : k - 1 \in 0..n /\ g[k - 1] \in Seq(D) /\ g[k] = Next1(g[k - 1], k)
  <2>1. \A k \in 1..n : k - 1 \in 0..n
    BY <1>1
  <2> QED BY <1>4, <2>1
<1>6. g = [k \in 0..n |-> IF k = 0 THEN <<>> ELSE Next1(g[k - 1], k)]
  <2> HIDE DEF step
  <2>1. g = [k \in 0..n |-> g[k]]
    BY <1>4
  <2>2. ASSUME NEW k \in 0..n PROVE g[k] = IF k = 0 THEN <<>> ELSE Next1(g[k - 1], k)
    <3>1. CASE k = 0
      BY <1>4, <3>1
    <3>2. CASE k # 0
      <4>1. k \in 1..n
        BY <1>1, <3>2
      <4>2. g[k] = Next1(g[k - 1], k)
        BY <1>5, <4>1
      <4> QED BY <3>2, <4>2
    <3> QED BY <3>1, <3>2
  <2> HIDE DEF n
  <2>3. [k \in 0..n |-> g[k]] = [k \in 0..n |-> IF k = 0 THEN <<>> ELSE Next1(g[k - 1], k)]
    BY <2>2, ZenonT(40)
  <2> QED BY <2>1, <2>3, Zenon
<1>7. kept = [k \in 0..n |-> IF k = 0 THEN <<>> ELSE Next1(kept[k - 1], k)]
  BY <1>6 DEF Next1
<1>8. NotBehind(list) = kept[n]
  BY DEF NotBehind
<1> HIDE DEF kept, step
<1>9. kept[0] = <<>> /\ \A k \in 1..n : kept[k] = Next1(kept[k - 1], k)
  <2>1. 0 \in 0..n /\ \A k \in 1..n : k \in 0..n /\ k # 0
    BY <1>1
  <2> HIDE DEF n
  <2> QED BY <1>7, <2>1
<1> DEFINE S == {k \in Nat : k <= n => kept[k] \in Seq(D) /\ Filters(kept[k], list, k) /\ Separate(kept[k])}
<1>10. 0 \in S
  <2>1. Len(<<>>) = 0 /\ <<>> \in Seq(D)
    BY EmptySeq
  <2>2. Filters(<<>>, list, 0) /\ Separate(<<>>)
    BY <2>1 DEF Filters, NoOverlap, Separate
  <2> QED BY <1>9, <2>1, <2>2
<1>11. ASSUME NEW k \in Nat, k \in S PROVE k + 1 \in S
  <2> DEFINE seq == kept[k]
             m == list[k + 1]
  <2> SUFFICES ASSUME k + 1 <= n
               PROVE  kept[k + 1] \in Seq(D) /\ Filters(kept[k + 1], list, k + 1) /\ Separate(kept[k + 1])
    OBVIOUS
  <2>1. k + 1 \in 1..n /\ k <= n /\ (k + 1) - 1 = k
    BY <1>1
  <2>2. seq \in Seq(D) /\ Filters(seq, list, k) /\ Separate(seq)
    BY <1>11, <2>1
  <2>3. kept[k + 1] = Next1(seq, k + 1)
    BY <1>9, <2>1
  <2> HIDE DEF S, seq
  <2>4. Len(seq) \in Nat /\ \A a \in 1..Len(seq) : IsHit(seq[a])
    BY <2>2, LenProperties
  <2>5. IsHit(m)
    BY <1>1, <2>1
  <2>6. \A a \in 1..Len(seq) : seq[a].from <= m.from
    <3> SUFFICES ASSUME NEW a \in 1..Len(seq) PROVE seq[a].from <= m.from
      OBVIOUS
    <3>1. PICK j \in 1..k : seq[a] = list[j]
      BY <2>2 DEF Filters
    <3>2. j \in 1..n /\ j < k + 1
      BY <1>1, <2>1
    <3> QED BY <2>1, <3>1, <3>2
  <2>7. \A a \in 1..Len(seq) : Overlaps(seq[a], m) <=> m.from < seq[a].to
    BY <2>4, <2>5, <2>6 DEF Overlaps, IsHit
  <2>8. CASE seq # <<>> /\ m.from < Last(seq).to
    <3>1. Len(seq) \in 1..Len(seq) /\ Last(seq) = seq[Len(seq)]
      BY <2>2, <2>8, EmptySeq DEF Last
    <3>2. \E a \in 1..Len(seq) : Overlaps(seq[a], m)
      BY <2>7, <2>8, <3>1
    <3>3. kept[k + 1] = seq
      BY <2>3, <2>8 DEF Next1
    <3> QED BY <2>1, <2>2, <3>2, <3>3, FilterDrops
  <2>9. CASE ~(seq # <<>> /\ m.from < Last(seq).to)
    <3>1. \A a \in 1..Len(seq) : seq[a].to <= m.from
      <4> SUFFICES ASSUME NEW a \in 1..Len(seq) PROVE seq[a].to <= m.from
        OBVIOUS
      <4>1. Len(seq) \in 1..Len(seq) /\ seq # <<>> /\ Last(seq) = seq[Len(seq)]
        BY <2>4, EmptySeq DEF Last
      <4>2. seq[Len(seq)].to <= m.from
        BY <2>4, <2>5, <2>9, <4>1 DEF IsHit
      <4>3. a = Len(seq) \/ seq[a].to <= seq[Len(seq)].from
        BY <2>2, <2>4, <4>1 DEF Separate
      <4>4. IsHit(seq[a]) /\ IsHit(seq[Len(seq)])
        BY <2>4, <4>1
      <4>5. CASE a = Len(seq)
        BY <4>2, <4>5
      <4>6. CASE seq[a].to <= seq[Len(seq)].from
        <5>1. seq[a].to \in Int /\ m.from \in Int
          BY <2>5, <4>4 DEF IsHit
        <5>2. /\ seq[Len(seq)].from \in Int /\ seq[Len(seq)].to \in Int
              /\ seq[Len(seq)].from <= seq[Len(seq)].to
          BY <4>4 DEF IsHit
        <5> HIDE DEF m
        <5> QED BY <4>2, <4>6, <5>1, <5>2
      <4> QED BY <4>3, <4>5, <4>6
    <3>2. \A a \in 1..Len(seq) : ~Overlaps(seq[a], m)
      BY <2>4, <2>5, <2>7, <3>1 DEF IsHit
    <3>3. kept[k + 1] = Append(seq, m)
      BY <2>3, <2>9 DEF Next1
    <3>4. Append(seq, m) \in Seq(D) /\ Filters(Append(seq, m), list, k + 1)
      BY <2>1, <2>2, <3>2, FilterKeeps
    <3>5. Separate(Append(seq, m))
      <4>1. /\ Len(Append(seq, m)) = Len(seq) + 1 /\ Append(seq, m)[Len(seq) + 1] = m
            /\ \A i \in 1..Len(seq) : Append(seq, m)[i] = seq[i]
        <5>1. m \in D
          BY <1>1, <2>1
        <5> QED BY <2>2, <5>1, AppendProperties
      <4> SUFFICES ASSUME NEW i \in 1..(Len(seq) + 1), NEW j \in 1..(Len(seq) + 1), i < j
                   PROVE  Append(seq, m)[i].to <= Append(seq, m)[j].from
        BY <4>1 DEF Separate
      <4>2. i \in 1..Len(seq) /\ (j \in 1..Len(seq) \/ j = Len(seq) + 1)
        BY <2>4
      <4> QED BY <2>2, <3>1, <4>1, <4>2 DEF Separate
    <3> QED BY <3>3, <3>4, <3>5
  <2> QED BY <2>8, <2>9
<1>12. n \in S
  <2> HIDE DEF S, n
  <2> QED BY <1>1, <1>10, <1>11, NatSteps
<1> QED BY <1>8, <1>12

-----------------------------------------------------------------------------
(* What every style keeps: separate hits, in the order of the text, that   *)
(* answer for each of the others.                                          *)
AnswersFor(kept, hits, style) ==
  \A i \in 1..Len(hits) : \E a \in 1..Len(kept) :
    /\ kept[a] = hits[i] \/ Overlaps(kept[a], hits[i])
    /\ ComesFirst(kept[a], hits[i], style)
KeptWell(kept, hits, style) ==
  /\ \A a \in 1..Len(kept) : \E i \in 1..Len(hits) : kept[a] = hits[i]
  /\ Separate(kept)
  /\ AnswersFor(kept, hits, style)

(* _dedupe_overlapping (redaction.py:108-128): the kept hits are separate, *)
(* and each of the others overlaps a kept one that it does not outrank.    *)
LEMMA DedupeKeepsWell ==
  ASSUME NEW D, \A m \in D : IsHit(m), NEW hits \in Seq(D), NEW style, style # "presidio"
  PROVE  DedupeOverlapping(hits) \in Seq(D) /\ KeptWell(DedupeOverlapping(hits), hits, style)
<1> DEFINE list == ByRank(hits)
           accepted == Accepted(list)
           kept == ByStart(accepted)
<1>1. /\ list \in Seq(D) /\ Permutes(list, hits)
      /\ \A k, l \in 1..Len(hits) : k < l => ~Outranks(list[l], list[k])
  BY ByRankSorts
<1> HIDE DEF list
<1>2. accepted \in Seq(D) /\ Filters(accepted, list, Len(list))
  BY <1>1, AcceptedFilters
<1> HIDE DEF accepted
<1>3. kept \in Seq(D) /\ Permutes(kept, accepted)
  BY <1>2, ByStartSorts
<1>4. Separate(kept)
  BY <1>2, SortSeparates DEF Filters
<1>5. DedupeOverlapping(hits) = kept
  BY DEF DedupeOverlapping, kept, accepted, list
<1> HIDE DEF kept
<1>6. ASSUME NEW a \in 1..Len(kept) PROVE \E i \in 1..Len(hits) : kept[a] = hits[i]
  <2>1. PICK b \in 1..Len(accepted) : kept[a] = accepted[b]
    BY <1>3 DEF Permutes
  <2>2. PICK k \in 1..Len(list) : accepted[b] = list[k]
    BY <1>2 DEF Filters
  <2>3. PICK i \in 1..Len(hits) : list[k] = hits[i]
    BY <1>1 DEF Permutes
  <2> QED BY <2>1, <2>2, <2>3
<1>7. ASSUME NEW i \in 1..Len(hits)
      PROVE  \E a \in 1..Len(kept) : /\ kept[a] = hits[i] \/ Overlaps(kept[a], hits[i])
                                     /\ ComesFirst(kept[a], hits[i], style)
  <2>1. PICK k \in 1..Len(list) : list[k] = hits[i]
    BY <1>1 DEF Permutes
  <2>2. PICK b \in 1..Len(accepted) :
          \/ accepted[b] = list[k]
          \/ Overlaps(accepted[b], list[k]) /\ \E j \in 1..Len(list) : j < k /\ accepted[b] = list[j]
    BY <1>2 DEF Filters
  <2>3. PICK a \in 1..Len(kept) : kept[a] = accepted[b]
    BY <1>3 DEF Permutes
  <2>4. ~Outranks(hits[i], accepted[b])
    <3>1. CASE accepted[b] = list[k]
      <4>1. IsHit(hits[i])
        BY LenProperties
      <4> QED BY <2>1, <3>1, <4>1 DEF Outranks, SpanLength, StartsBefore, IsHit
    <3>2. ASSUME NEW j \in 1..Len(list), j < k, accepted[b] = list[j] PROVE ~Outranks(hits[i], accepted[b])
      <4>1. Len(list) = Len(hits)
        BY <1>1 DEF Permutes
      <4> QED BY <1>1, <2>1, <3>2, <4>1
    <3> QED BY <2>2, <3>1, <3>2
  <2> QED BY <2>1, <2>2, <2>3, <2>4 DEF ComesFirst
<1> QED BY <1>3, <1>4, <1>5, <1>6, <1>7 DEF KeptWell, AnswersFor

(* _reversible_redact (presidio_backend.py:112-121): each of the hits it   *)
(* drops overlaps a kept one that starts no later.                         *)
LEMMA FirstKeepsWell ==
  ASSUME NEW D, \A m \in D : IsHit(m), NEW hits \in Seq(D)
  PROVE  KeepFirst(hits) \in Seq(D) /\ KeptWell(KeepFirst(hits), hits, "presidio")
<1> DEFINE list == ByStart(hits)
           kept == NotBehind(list)
<1>1. /\ list \in Seq(D) /\ Permutes(list, hits)
      /\ \A k, l \in 1..Len(hits) : k < l => list[k].from <= list[l].from
  BY ByStartSorts
<1> HIDE DEF list
<1>2. Len(list) = Len(hits) /\ \A k \in 1..Len(list) : IsHit(list[k])
  BY <1>1, LenProperties DEF Permutes
<1>3. kept \in Seq(D) /\ Filters(kept, list, Len(list)) /\ Separate(kept)
  BY <1>1, <1>2, NotBehindFilters
<1>4. KeepFirst(hits) = kept
  BY DEF KeepFirst, kept, list
<1> HIDE DEF kept
<1>5. ASSUME NEW a \in 1..Len(kept) PROVE \E i \in 1..Len(hits) : kept[a] = hits[i]
  <2>1. PICK k \in 1..Len(list) : kept[a] = list[k]
    BY <1>3 DEF Filters
  <2>2. PICK i \in 1..Len(hits) : list[k] = hits[i]
    BY <1>1 DEF Permutes
  <2> QED BY <2>1, <2>2
<1>6. ASSUME NEW i \in 1..Len(hits)
      PROVE  \E a \in 1..Len(kept) : /\ kept[a] = hits[i] \/ Overlaps(kept[a], hits[i])
                                     /\ ComesFirst(kept[a], hits[i], "presidio")
  <2>1. PICK k \in 1..Len(list) : list[k] = hits[i]
    BY <1>1 DEF Permutes
  <2>2. PICK a \in 1..Len(kept) :
          \/ kept[a] = list[k]
          \/ Overlaps(kept[a], list[k]) /\ \E j \in 1..Len(list) : j < k /\ kept[a] = list[j]
    BY <1>3 DEF Filters
  <2>3. ~StartsBefore(hits[i], kept[a])
    <3>1. CASE kept[a] = list[k]
      BY <1>2, <2>1, <3>1 DEF StartsBefore, IsHit
    <3>2. ASSUME NEW j \in 1..Len(list), j < k, kept[a] = list[j] PROVE ~StartsBefore(hits[i], kept[a])
      <4>1. list[j].from <= list[k].from /\ IsHit(list[j]) /\ IsHit(list[k])
        BY <1>1, <1>2, <3>2
      <4> QED BY <2>1, <3>2, <4>1 DEF StartsBefore, IsHit
    <3> QED BY <2>2, <3>1, <3>2
  <2> QED BY <2>1, <2>2, <2>3 DEF ComesFirst
<1> QED BY <1>3, <1>4, <1>5, <1>6 DEF KeptWell, AnswersFor

(* So in every style; spaCy's entities do not overlap to begin with.       *)
LEMMA KeepsWell ==
  ASSUME NEW D, \A m \in D : IsHit(m), NEW hits \in Seq(D),
         NEW style \in {"numbered", "labeled", "presidio", "spacy"},
         style = "spacy" => NoOverlap(hits)
  PROVE  Kept(hits, style) \in Seq(D) /\ KeptWell(Kept(hits, style), hits, style)
<1>1. CASE style = "presidio"
  BY <1>1, FirstKeepsWell DEF Kept
<1>2. CASE style \in {"numbered", "labeled"}
  <2>1. Kept(hits, style) = DedupeOverlapping(hits) /\ style # "presidio"
    BY <1>2 DEF Kept
  <2> QED BY <2>1, DedupeKeepsWell
<1>3. CASE style = "spacy"
  <2> DEFINE kept == ByStart(hits)
  <2>1. Kept(hits, style) = kept
    BY <1>3 DEF Kept
  <2>2. kept \in Seq(D) /\ Permutes(kept, hits) /\ Separate(kept)
    BY <1>3, ByStartSorts, SortSeparates
  <2> HIDE DEF kept
  <2>3. \A a \in 1..Len(kept) : \E i \in 1..Len(hits) : kept[a] = hits[i]
    BY <2>2 DEF Permutes
  <2>4. AnswersFor(kept, hits, style)
    <3> SUFFICES ASSUME NEW i \in 1..Len(hits)
                 PROVE  \E a \in 1..Len(kept) : kept[a] = hits[i] /\ ComesFirst(kept[a], hits[i], style)
      BY DEF AnswersFor
    <3>1. PICK a \in 1..Len(kept) : kept[a] = hits[i]
      BY <2>2 DEF Permutes
    <3>2. IsHit(hits[i])
      BY LenProperties
    <3> QED BY <1>3, <3>1, <3>2 DEF ComesFirst, Outranks, SpanLength, StartsBefore, IsHit
  <2> QED BY <2>1, <2>2, <2>3, <2>4 DEF KeptWell
<1> QED BY <1>1, <1>2, <1>3

-----------------------------------------------------------------------------
(* restore. *)

(* One piece more is put at the end.                                       *)
LEMMA FlattenAppend ==
  ASSUME NEW D, NEW pieces \in Seq(Seq(D)), NEW piece \in Seq(D)
  PROVE  /\ FlattenSeq(pieces) \in Seq(D)
         /\ FlattenSeq(Append(pieces, piece)) = FlattenSeq(pieces) \o piece
<1> DEFINE n == Len(pieces)
           more == Append(pieces, piece)
<1>1. n \in Nat
  BY LenProperties
<1>2. /\ more \in Seq(Seq(D)) /\ Len(more) = n + 1 /\ more[n + 1] = piece
      /\ \A k \in 1..n : more[k] = pieces[k]
  BY AppendProperties
<1> HIDE DEF more
<1>3. PICK f \in [0..n -> Seq(D)] :
        /\ f[0] = <<>> /\ \A k \in 1..n : f[k] = f[k - 1] \o pieces[k]
        /\ FlattenSeq(pieces) = f[n]
  BY FlattenSteps
<1>4. PICK g \in [0..(n + 1) -> Seq(D)] :
        /\ g[0] = <<>> /\ \A k \in 1..(n + 1) : g[k] = g[k - 1] \o more[k]
        /\ FlattenSeq(more) = g[n + 1]
  <2>1. \E g \in [0..Len(more) -> Seq(D)] :
          /\ g[0] = <<>> /\ \A k \in 1..Len(more) : g[k] = g[k - 1] \o more[k]
          /\ FlattenSeq(more) = g[Len(more)]
    BY <1>2, FlattenSteps
  <2> QED BY <1>2, <2>1
<1> HIDE DEF n
<1> DEFINE S == {k \in Nat : k <= n => f[k] = g[k]}
<1>5. 0 \in S
  BY <1>3, <1>4
<1>6. ASSUME NEW k \in Nat, k \in S PROVE k + 1 \in S
  <2> SUFFICES ASSUME k + 1 <= n PROVE f[k + 1] = g[k + 1]
    OBVIOUS
  <2>1. k + 1 \in 1..n /\ k + 1 \in 1..(n + 1) /\ (k + 1) - 1 = k /\ k <= n
    BY <1>1
  <2>2. f[k] = g[k] /\ more[k + 1] = pieces[k + 1]
    BY <1>2, <1>6, <2>1
  <2> QED BY <1>3, <1>4, <2>1, <2>2
<1>7. n \in S
  <2> HIDE DEF S
  <2> QED BY <1>1, <1>5, <1>6, NatSteps
<1>8. f[n] = g[n] /\ f[n] \in Seq(D)
  BY <1>1, <1>7
<1>9. g[n + 1] = g[n] \o piece
  <2>1. n + 1 \in 1..(n + 1) /\ (n + 1) - 1 = n
    BY <1>1
  <2> QED BY <1>2, <1>4, <2>1
<1> QED BY <1>3, <1>4, <1>8, <1>9 DEF more

(* restore of nothing is nothing.                                          *)
LEMMA RestoreEmpty ==
  ASSUME NEW mapping
  PROVE  Restore(<<>>, mapping) = <<>>
<1>1. FlattenSeq(<<>>) = <<>>
  BY EmptySeq DEF FlattenSeq
<1>2. [j \in DOMAIN <<>> |-> Original(mapping, <<>>[j])] = <<>>
  OBVIOUS
<1>3. Restore(<<>>, mapping) = FlattenSeq([j \in DOMAIN <<>> |-> Original(mapping, <<>>[j])])
  BY DEF Restore
<1> QED BY <1>1, <1>2, <1>3

(* A mapping from which every token of A reads as a text over C.           *)
Reads(mapping, A, C) == \A t \in A : Original(mapping, t) \in Seq(C)

(* restore goes token by token.                                            *)
LEMMA RestoreAppend ==
  ASSUME NEW A, NEW C, NEW mapping, Reads(mapping, A, C), NEW s \in Seq(A), NEW t \in A
  PROVE  /\ Restore(s, mapping) \in Seq(C)
         /\ Restore(Append(s, t), mapping) = Restore(s, mapping) \o Original(mapping, t)
<1> DEFINE Pieces(u) == [j \in DOMAIN u |-> Original(mapping, u[j])]
<1>1. /\ Append(s, t) \in Seq(A) /\ Len(Append(s, t)) = Len(s) + 1
      /\ \A i \in 1..Len(s) : Append(s, t)[i] = s[i] /\ s[i] \in A
      /\ Append(s, t)[Len(s) + 1] = t
  BY AppendProperties, LenProperties
<1>2. DOMAIN s = 1..Len(s) /\ DOMAIN Append(s, t) = 1..(Len(s) + 1) /\ Len(s) \in Nat
  BY <1>1, LenProperties
<1>3. Pieces(s) \in Seq(Seq(C)) /\ Len(Pieces(s)) = Len(s)
  <2>1. Pieces(s) \in [1..Len(s) -> Seq(C)]
    BY <1>1, <1>2 DEF Reads
  <2> HIDE DEF Pieces
  <2> QED BY <1>2, <2>1, SeqDef
<1>4. Pieces(Append(s, t)) = Append(Pieces(s), Original(mapping, t))
  <2>1. Original(mapping, t) \in Seq(C)
    BY DEF Reads
  <2>2. /\ Append(Pieces(s), Original(mapping, t)) \in Seq(Seq(C))
        /\ Len(Append(Pieces(s), Original(mapping, t))) = Len(s) + 1
        /\ \A i \in 1..Len(s) : Append(Pieces(s), Original(mapping, t))[i] = Pieces(s)[i]
        /\ Append(Pieces(s), Original(mapping, t))[Len(s) + 1] = Original(mapping, t)
    <3> HIDE DEF Pieces
    <3> QED BY <1>3, <2>1, AppendProperties
  <2>3. Pieces(Append(s, t)) \in Seq(Seq(C)) /\ Len(Pieces(Append(s, t))) = Len(s) + 1
    <3>1. Pieces(Append(s, t)) \in [1..(Len(s) + 1) -> Seq(C)]
      <4>1. \A i \in 1..(Len(s) + 1) : i \in 1..Len(s) \/ i = Len(s) + 1
        BY <1>2
      <4> QED BY <1>1, <1>2, <2>1, <4>1 DEF Reads
    <3> HIDE DEF Pieces
    <3> QED BY <1>2, <3>1, SeqDef
  <2>4. \A i \in 1..(Len(s) + 1) : Pieces(Append(s, t))[i] = Append(Pieces(s), Original(mapping, t))[i]
    <3> SUFFICES ASSUME NEW i \in 1..(Len(s) + 1)
                 PROVE  Pieces(Append(s, t))[i] = Append(Pieces(s), Original(mapping, t))[i]
      OBVIOUS
    <3>1. CASE i \in 1..Len(s)
      BY <1>1, <1>2, <2>2, <3>1
    <3>2. CASE i = Len(s) + 1
      BY <1>1, <1>2, <2>2, <3>2
    <3> QED BY <1>2, <3>1, <3>2
  <2> HIDE DEF Pieces
  <2> QED BY <2>2, <2>3, <2>4, SeqEqual
<1>5. Restore(s, mapping) = FlattenSeq(Pieces(s))
      /\ Restore(Append(s, t), mapping) = FlattenSeq(Pieces(Append(s, t)))
  BY DEF Restore
<1> HIDE DEF Pieces
<1> QED
  <2>1. Original(mapping, t) \in Seq(C)
    BY DEF Reads
  <2> QED BY <1>3, <1>4, <1>5, <2>1, FlattenAppend

(* A text put together from two restores to what they restore to. *)
LEMMA RestoreConcat ==
  ASSUME NEW A, NEW C, NEW mapping, Reads(mapping, A, C), NEW s \in Seq(A), NEW t \in Seq(A)
  PROVE  /\ Restore(s \o t, mapping) = Restore(s, mapping) \o Restore(t, mapping)
         /\ Restore(s, mapping) \in Seq(C) /\ Restore(t, mapping) \in Seq(C)
<1> DEFINE S == {u \in Seq(A) : /\ Restore(s \o u, mapping) = Restore(s, mapping) \o Restore(u, mapping)
                                /\ Restore(u, mapping) \in Seq(C)}
<1>1. Restore(s, mapping) \in Seq(C)
  <2> HIDE DEF S
  <2>1. CASE s # <<>>
    <3>1. PICK u \in Seq(A), d \in A : s = Append(u, d)
      BY <2>1, SequenceEmptyOrAppend
    <3>2. /\ Restore(u, mapping) \in Seq(C) /\ Original(mapping, d) \in Seq(C)
          /\ Restore(s, mapping) = Restore(u, mapping) \o Original(mapping, d)
      <4>1. Original(mapping, d) \in Seq(C)
        BY DEF Reads
      <4> QED BY <3>1, <4>1, RestoreAppend
    <3> QED BY <3>2, ConcatProperties
  <2>2. CASE s = <<>>
    BY <2>2, RestoreEmpty, EmptySeq
  <2> QED BY <2>1, <2>2
<1>2. <<>> \in S
  <2>1. s \o <<>> = s /\ Restore(s, mapping) \o <<>> = Restore(s, mapping) /\ <<>> \in Seq(A) /\ <<>> \in Seq(C)
    BY <1>1, ConcatEmptySeq, EmptySeq
  <2> QED BY <2>1, RestoreEmpty
<1>3. \A u \in Seq(A), d \in A : u \in S => Append(u, d) \in S
  <2> SUFFICES ASSUME NEW u \in Seq(A), NEW d \in A, u \in S PROVE Append(u, d) \in S
    OBVIOUS
  <2>1. /\ Append(u, d) \in Seq(A) /\ s \o u \in Seq(A)
        /\ s \o Append(u, d) = Append(s \o u, d)
    <3>1. /\ Append(u, d) \in Seq(A) /\ s \o u \in Seq(A) /\ <<d>> \in Seq(A)
          /\ Append(u, d) = u \o <<d>> /\ Append(s \o u, d) = (s \o u) \o <<d>>
      BY AppendProperties, ConcatProperties, AppendIsConcat
    <3>2. (s \o u) \o <<d>> = s \o (u \o <<d>>)
      <4> HIDE DEF S
      <4> QED BY <3>1, ConcatAssociative
    <3> QED BY <3>1, <3>2
  <2> DEFINE o == Original(mapping, d)
             ru == Restore(u, mapping)
             rs == Restore(s, mapping)
  <2>2. o \in Seq(C) /\ ru \in Seq(C) /\ rs \in Seq(C)
    BY <1>1 DEF Reads
  <2>5. Restore(s \o u, mapping) = rs \o ru
    OBVIOUS
  <2> HIDE DEF S
  <2>3. Restore(Append(u, d), mapping) = ru \o o
    BY RestoreAppend
  <2>4. Restore(Append(s \o u, d), mapping) = Restore(s \o u, mapping) \o o
    <3>1. \A w \in Seq(A) : Restore(Append(w, d), mapping) = Restore(w, mapping) \o o
      BY RestoreAppend
    <3> HIDE DEF o
    <3> QED BY <2>1, <3>1
  <2> HIDE DEF o, ru, rs
  <2>6. (rs \o ru) \o o = rs \o (ru \o o) /\ ru \o o \in Seq(C)
    BY <2>2, ConcatAssociative, ConcatProperties
  <2> QED BY <2>1, <2>3, <2>4, <2>5, <2>6 DEF rs, S
<1>4. t \in S
  <2> HIDE DEF S
  <2> QED BY <1>2, <1>3, SeqSteps
<1> QED BY <1>1, <1>4

(* What no entry stands for is left as it is. *)
LEMMA RestoreFixes ==
  ASSUME NEW B, NEW mapping, \A b \in B : Original(mapping, b) = <<b>>, NEW s \in Seq(B)
  PROVE  Restore(s, mapping) = s
<1> DEFINE S == {u \in Seq(B) : Restore(u, mapping) = u}
<1>1. Reads(mapping, B, B)
  <2>1. \A b \in B : <<b>> \in Seq(B)
    OBVIOUS
  <2> QED BY <2>1 DEF Reads
<1>1a. \A u \in Seq(B), d \in B :
         Restore(Append(u, d), mapping) = Restore(u, mapping) \o Original(mapping, d)
  <2> SUFFICES ASSUME NEW u \in Seq(B), NEW d \in B
               PROVE  Restore(Append(u, d), mapping) = Restore(u, mapping) \o Original(mapping, d)
    OBVIOUS
  <2> HIDE DEF S
  <2> QED BY <1>1, RestoreAppend
<1>2. <<>> \in S
  BY RestoreEmpty, EmptySeq
<1>3. \A u \in Seq(B), d \in B : u \in S => Append(u, d) \in S
  <2> SUFFICES ASSUME NEW u \in Seq(B), NEW d \in B, Restore(u, mapping) = u
               PROVE  Append(u, d) \in Seq(B) /\ Restore(Append(u, d), mapping) = Append(u, d)
    OBVIOUS
  <2>1. Restore(Append(u, d), mapping) = Restore(u, mapping) \o Original(mapping, d)
    <3> HIDE DEF S
    <3> QED BY <1>1a
  <2> QED BY <2>1, AppendProperties, AppendIsConcat
<1>4. s \in S
  <2> HIDE DEF S
  <2> QED BY <1>2, <1>3, SeqSteps
<1> QED BY <1>4

(* In another order every character comes back as often: the same range    *)
(* and the same length.                                                    *)
LEMMA RestoreReverse ==
  ASSUME NEW A, NEW C, NEW mapping, Reads(mapping, A, C), NEW s \in Seq(A)
  PROVE  /\ Range(Restore(Reverse(s), mapping)) = Range(Restore(s, mapping))
         /\ Len(Restore(Reverse(s), mapping)) = Len(Restore(s, mapping))
<1> DEFINE back(u) == Restore(Reverse(u), mapping)
           there(u) == Restore(u, mapping)
           S == {u \in Seq(A) : /\ Reverse(u) \in Seq(A)
                                /\ Range(back(u)) = Range(there(u))
                                /\ Len(back(u)) = Len(there(u))}
<1>0. \A x, y \in Seq(A) : /\ Restore(x \o y, mapping) = Restore(x, mapping) \o Restore(y, mapping)
                            /\ Restore(x, mapping) \in Seq(C)
  <2> HIDE DEF S
  <2> QED BY RestoreConcat
<1>1. <<>> \in S
  <2>1. Len(<<>>) = 0
    OBVIOUS
  <2>2. Reverse(<<>>) = <<>>
    BY <2>1 DEF Reverse
  <2> QED BY <2>2, EmptySeq
<1>2. \A u \in Seq(A), d \in A : u \in S => Append(u, d) \in S
  <2> SUFFICES ASSUME NEW u \in Seq(A), NEW d \in A, u \in S PROVE Append(u, d) \in S
    OBVIOUS
  <2> DEFINE o == Original(mapping, d)
             v == Reverse(u)
  <2>1. /\ <<d>> \in Seq(A) /\ v \in Seq(A) /\ Append(u, d) \in Seq(A) /\ o \in Seq(C)
        /\ Append(u, d) = u \o <<d>>
    BY AppendProperties, AppendIsConcat DEF Reads
  <2>2. Reverse(Append(u, d)) = <<d>> \o v
    <3> DEFINE n == Len(u)
               w == Append(u, d)
    <3>1. /\ n \in Nat /\ Len(w) = n + 1 /\ w[n + 1] = d
          /\ \A i \in 1..n : w[i] = u[i] /\ u[i] \in A
      BY AppendProperties, LenProperties
    <3> HIDE DEF n, w
    <3>2. Reverse(w) = [i \in 1..(n + 1) |-> w[((n + 1) - i) + 1]]
      BY <3>1 DEF Reverse
    <3>3. v = [i \in 1..n |-> u[(n - i) + 1]]
      BY DEF Reverse, n
    <3>4. Len(v) = n
      <4>1. \A i \in 1..n : (n - i) + 1 \in 1..n
        BY <3>1
      <4>2. v \in [1..n -> A]
        BY <3>1, <3>3, <4>1
      <4> HIDE DEF v
      <4> QED BY <3>1, <4>2, <2>1, LenProperties
    <3> HIDE DEF v
    <3>5. \A i \in 1..(n + 1) : w[((n + 1) - i) + 1] = IF i = 1 THEN d ELSE v[i - 1]
      <4> SUFFICES ASSUME NEW i \in 1..(n + 1)
                   PROVE  w[((n + 1) - i) + 1] = IF i = 1 THEN d ELSE v[i - 1]
        OBVIOUS
      <4>1. CASE i = 1
        <5>1. ((n + 1) - i) + 1 = n + 1
          BY <3>1, <4>1
        <5> QED BY <3>1, <4>1, <5>1
      <4>2. CASE i # 1
        <5>1. /\ ((n + 1) - i) + 1 \in 1..n /\ i - 1 \in 1..n
              /\ ((n + 1) - i) + 1 = (n - (i - 1)) + 1
          BY <3>1, <4>2
        <5>2. v[i - 1] = u[(n - (i - 1)) + 1]
          BY <3>3, <5>1
        <5>3. w[((n + 1) - i) + 1] = u[((n + 1) - i) + 1]
          BY <3>1, <5>1
        <5> QED BY <4>2, <5>1, <5>2, <5>3
      <4> QED BY <4>1, <4>2
    <3> DEFINE x == <<d>> \o v
    <3>6. /\ x \in Seq(A) /\ Len(x) = n + 1
          /\ \A i \in 1..(n + 1) : x[i] = IF i = 1 THEN d ELSE v[i - 1]
      <4>1. /\ x \in Seq(A) /\ Len(x) = Len(<<d>>) + Len(v)
            /\ \A i \in 1..(Len(<<d>>) + Len(v)) :
                 x[i] = IF i <= Len(<<d>>) THEN <<d>>[i] ELSE v[i - Len(<<d>>)]
        BY <2>1, ConcatProperties
      <4>2. Len(<<d>>) = 1 /\ <<d>>[1] = d
        OBVIOUS
      <4> HIDE DEF x
      <4> QED BY <3>1, <3>4, <4>1, <4>2
    <3> HIDE DEF x
    <3>7. Reverse(w) = x
      <4>1. DOMAIN x = 1..(n + 1) /\ x = [i \in 1..(n + 1) |-> x[i]]
        BY <3>6, LenProperties
      <4> HIDE DEF S, v, o
      <4> QED BY <3>2, <3>5, <3>6, <4>1
    <3> QED BY <3>7 DEF x, w
  <2>5. Range(Restore(v, mapping)) = Range(Restore(u, mapping)) /\ Len(Restore(v, mapping)) = Len(Restore(u, mapping))
    OBVIOUS
  <2> HIDE DEF v, S
  <2>3. Restore(<<d>>, mapping) = o
    <3>1. <<d>> = Append(<<>>, d) /\ <<>> \in Seq(A)
      BY EmptySeq
    <3>2. Restore(Append(<<>>, d), mapping) = Restore(<<>>, mapping) \o o /\ Restore(<<>>, mapping) = <<>>
      <4>1. \A w \in Seq(A) : Restore(Append(w, d), mapping) = Restore(w, mapping) \o o
        BY RestoreAppend
      <4> HIDE DEF o
      <4> QED BY <3>1, <4>1, RestoreEmpty
    <3> HIDE DEF o
    <3> QED BY <2>1, <3>1, <3>2, ConcatEmptySeq
  <2> DEFINE rv == Restore(v, mapping)
             ru == Restore(u, mapping)
  <2>4. /\ Restore(<<d>> \o v, mapping) = o \o rv /\ rv \in Seq(C)
        /\ Restore(u \o <<d>>, mapping) = ru \o o /\ ru \in Seq(C)
    <3> HIDE DEF o
    <3> QED BY <1>0, <2>1, <2>3
  <2>6. <<d>> \o v \in Seq(A)
    BY <2>1, ConcatProperties
  <2> HIDE DEF rv, ru, o
  <2>7. /\ Range(o \o rv) = Range(o) \cup Range(rv) /\ Range(ru \o o) = Range(ru) \cup Range(o)
        /\ Len(o \o rv) = Len(o) + Len(rv) /\ Len(ru \o o) = Len(ru) + Len(o)
    BY <2>1, <2>4, RangeConcatenation, ConcatProperties
  <2>8. Len(o) \in Nat /\ Len(ru) \in Nat
    BY <2>1, <2>4, LenProperties
  <2>9. Range(o \o rv) = Range(ru \o o) /\ Len(o \o rv) = Len(ru \o o)
    <3>1. Range(o) \cup Range(rv) = Range(ru) \cup Range(o)
      BY <2>5 DEF rv, ru
    <3>2. Len(o) + Len(rv) = Len(ru) + Len(o)
      BY <2>5, <2>8 DEF rv, ru
    <3> QED BY <2>7, <3>1, <3>2
  <2> QED BY <2>1, <2>2, <2>4, <2>6, <2>9 DEF S, v
<1>3. s \in S
  <2> HIDE DEF S
  <2> QED BY <1>1, <1>2, SeqSteps
<1> QED BY <1>3

(* Kept hits of a text of length n.                                        *)
Fits(kept, n) ==
  /\ \E D : kept \in Seq(D)
  /\ n \in Nat /\ Separate(kept)
  /\ \A a \in 1..Len(kept) : IsHit(kept[a]) /\ kept[a].to <= n

(* The cursor, the end of the hit before, never passes the start of the    *)
(* next nor the end of the text.                                           *)
LEMMA Cursors ==
  ASSUME NEW kept, NEW n, Fits(kept, n)
  PROVE  /\ Len(kept) \in Nat
         /\ \A k \in 1..Len(kept) : Cursor(kept, k) \in 0..kept[k].from
         /\ Cursor(kept, Len(kept) + 1) \in 0..n
         /\ \A k \in 1..Len(kept) : Cursor(kept, k + 1) = kept[k].to
         /\ Cursor(kept, 1) = 0
         /\ \A k \in 1..(Len(kept) + 1), a \in 1..Len(kept) : a < k => kept[a].to <= Cursor(kept, k)
<1>1. Len(kept) \in Nat
  BY LenProperties DEF Fits
<1>2. \A a \in 1..Len(kept) : kept[a].from \in Nat /\ kept[a].to \in Nat /\ kept[a].from < kept[a].to
                              /\ kept[a].to <= n /\ n \in Nat
  BY DEF Fits, IsHit
<1>3. \A i, j \in 1..Len(kept) : i < j => kept[i].to <= kept[j].from
  BY DEF Fits, Separate
<1>4. Cursor(kept, 1) = 0
  BY DEF Cursor
<1>5. \A k \in 1..Len(kept) : Cursor(kept, k + 1) = kept[k].to
  <2> SUFFICES ASSUME NEW k \in 1..Len(kept) PROVE Cursor(kept, k + 1) = kept[k].to
    OBVIOUS
  <2>1. k + 1 # 1 /\ (k + 1) - 1 = k
    BY <1>1
  <2> QED BY <2>1 DEF Cursor
<1>6. \A k \in 1..(Len(kept) + 1) : k = 1 \/ (k - 1 \in 1..Len(kept) /\ Cursor(kept, k) = kept[k - 1].to)
  BY <1>1 DEF Cursor
<1>7. \A k \in 1..Len(kept) : Cursor(kept, k) \in 0..kept[k].from
  <2> SUFFICES ASSUME NEW k \in 1..Len(kept) PROVE Cursor(kept, k) \in 0..kept[k].from
    OBVIOUS
  <2>1. CASE k = 1
    BY <1>2, <1>4, <2>1
  <2>2. CASE k # 1
    <3>1. k - 1 \in 1..Len(kept) /\ k - 1 < k /\ Cursor(kept, k) = kept[k - 1].to
      BY <1>1, <1>6, <2>2
    <3> QED BY <1>2, <1>3, <3>1
  <2> QED BY <2>1, <2>2
<1>8. Cursor(kept, Len(kept) + 1) \in 0..n
  <2>1. CASE Len(kept) = 0
    BY <1>4, <2>1 DEF Fits
  <2>2. CASE Len(kept) # 0
    <3>1. Len(kept) \in 1..Len(kept)
      BY <1>1, <2>2
    <3> QED BY <1>2, <1>5, <3>1
  <2> QED BY <2>1, <2>2
<1>9. ASSUME NEW k \in 1..(Len(kept) + 1), NEW a \in 1..Len(kept), a < k
      PROVE  kept[a].to <= Cursor(kept, k)
  <2>1. k - 1 \in 1..Len(kept) /\ Cursor(kept, k) = kept[k - 1].to
    BY <1>1, <1>6, <1>9
  <2>2. CASE a = k - 1
    BY <1>2, <2>1, <2>2
  <2>3. CASE a < k - 1
    <3>1. kept[a].to <= kept[k - 1].from
      BY <1>3, <2>1, <2>3
    <3> QED BY <1>2, <2>1, <3>1
  <2> QED BY <1>1, <1>9, <2>1, <2>2, <2>3
<1> QED BY <1>1, <1>4, <1>5, <1>7, <1>8, <1>9

(* The piece up to and with placeholder k, and the piece after the last.   *)
Piece(text, kept, tokens, k) == Append(SubSeq(text, Cursor(kept, k) + 1, kept[k].from), tokens[k])
Rest(text, kept) == SubSeq(text, Cursor(kept, Len(kept) + 1) + 1, Len(text))

PiecesIn(E, text, kept, tokens) ==
  /\ \A k \in 1..Len(kept) : Piece(text, kept, tokens, k) \in Seq(E)
  /\ Rest(text, kept) \in Seq(E)

(* f is what has been put together, piece by piece.                        *)
Builds(f, E, text, kept, tokens) ==
  /\ f \in [0..Len(kept) -> Seq(E)]
  /\ f[0] = <<>>
  /\ \A k \in 1..Len(kept) : f[k] = f[k - 1] \o Piece(text, kept, tokens, k)
  /\ Rebuilt(text, kept, tokens) = f[Len(kept)] \o Rest(text, kept)

(* The rebuilt text is put together piece by piece.                        *)
LEMMA RebuiltSteps ==
  ASSUME NEW E, NEW text, NEW kept, NEW tokens, Fits(kept, Len(text)),
         PiecesIn(E, text, kept, tokens)
  PROVE  /\ \E f : Builds(f, E, text, kept, tokens)
         /\ Rebuilt(text, kept, tokens) \in Seq(E)
<1> DEFINE pieces == [k \in DOMAIN kept |-> Append(SubSeq(text, Cursor(kept, k) + 1, kept[k].from), tokens[k])]
<1>1. DOMAIN kept = 1..Len(kept) /\ Len(kept) \in Nat
  BY LenProperties DEF Fits
<1>2. pieces = [k \in 1..Len(kept) |-> Piece(text, kept, tokens, k)]
  BY <1>1 DEF Piece
<1>3. Rebuilt(text, kept, tokens) = FlattenSeq(pieces) \o Rest(text, kept)
  BY DEF Rebuilt, Rest
<1> HIDE DEF pieces
<1>4. pieces \in Seq(Seq(E)) /\ Len(pieces) = Len(kept)
  <2>1. pieces \in [1..Len(kept) -> Seq(E)]
    BY <1>2 DEF PiecesIn
  <2> QED BY <1>1, <2>1, SeqDef
<1>5. PICK f \in [0..Len(pieces) -> Seq(E)] :
        /\ f[0] = <<>> /\ \A k \in 1..Len(pieces) : f[k] = f[k - 1] \o pieces[k]
        /\ FlattenSeq(pieces) = f[Len(pieces)]
  BY <1>4, FlattenSteps
<1>6. \A k \in 1..Len(kept) : f[k] = f[k - 1] \o Piece(text, kept, tokens, k)
  BY <1>2, <1>4, <1>5
<1>7. Builds(f, E, text, kept, tokens)
  BY <1>3, <1>4, <1>5, <1>6 DEF Builds
<1>8. f[Len(kept)] \o Rest(text, kept) \in Seq(E)
  <2>1. f[Len(kept)] \in Seq(E) /\ Rest(text, kept) \in Seq(E)
    BY <1>1, <1>4, <1>5 DEF PiecesIn
  <2> QED BY <2>1, ConcatProperties
<1> QED BY <1>3, <1>4, <1>5, <1>7, <1>8

(* The gaps between the hits hold nothing of any hit.                      *)
Between(i, kept) == \A a \in 1..Len(kept) : i <= kept[a].from \/ i > kept[a].to

(* What lies between the cursor and the next hit, and after the last, is   *)
(* in no hit, so the pieces are made of such characters and the            *)
(* placeholders.                                                           *)
LEMMA GapsBetween ==
  ASSUME NEW text, NEW kept, NEW tokens, Fits(kept, Len(text)), NEW E,
         \A k \in 1..Len(kept) : tokens[k] \in E,
         \A i \in 1..Len(text) : Between(i, kept) => text[i] \in E
  PROVE  PiecesIn(E, text, kept, tokens)
<1>1. \A a \in 1..Len(kept) : kept[a].from \in Nat /\ kept[a].to \in Nat /\ kept[a].from < kept[a].to
                              /\ kept[a].to <= Len(text) /\ Len(text) \in Nat
  BY DEF Fits, IsHit
<1>2. \A i, j \in 1..Len(kept) : i < j => kept[i].to <= kept[j].from
  BY DEF Fits, Separate
<1>3. ASSUME NEW k \in 1..Len(kept) PROVE Piece(text, kept, tokens, k) \in Seq(E)
  <2>1. Cursor(kept, k) \in 0..kept[k].from /\ Len(kept) \in Nat /\ k \in 1..(Len(kept) + 1)
    BY Cursors
  <2>2. ASSUME NEW i \in (Cursor(kept, k) + 1)..kept[k].from PROVE text[i] \in E
    <3>1. i \in 1..Len(text)
      BY <1>1, <2>1
    <3>2. Between(i, kept)
      <4> SUFFICES ASSUME NEW a \in 1..Len(kept) PROVE i <= kept[a].from \/ i > kept[a].to
        BY DEF Between
      <4>1. CASE a < k
        <5>1. kept[a].to <= Cursor(kept, k)
          BY <2>1, <4>1, Cursors
        <5> QED BY <1>1, <2>1, <5>1
      <4>2. CASE k < a
        <5>1. kept[k].to <= kept[a].from
          BY <1>2, <4>2
        <5> QED BY <1>1, <2>1, <5>1
      <4>3. CASE a = k
        BY <2>1, <4>3
      <4> QED BY <2>1, <4>1, <4>2, <4>3
    <3> QED BY <3>1, <3>2
  <2>3. SubSeq(text, Cursor(kept, k) + 1, kept[k].from) \in Seq(E)
    <3>1. Cursor(kept, k) + 1 \in Int /\ kept[k].from \in Int
      BY <1>1, <2>1
    <3> QED BY <2>2, <3>1, SubSeqProperties
  <2> QED BY <2>3, AppendProperties DEF Piece
<1>4. Rest(text, kept) \in Seq(E)
  <2>1. Cursor(kept, Len(kept) + 1) \in 0..Len(text) /\ Len(kept) \in Nat
    BY Cursors
  <2>2. ASSUME NEW i \in (Cursor(kept, Len(kept) + 1) + 1)..Len(text) PROVE text[i] \in E
    <3>1. i \in 1..Len(text)
      BY <2>1 DEF Fits
    <3>2. Between(i, kept)
      <4> SUFFICES ASSUME NEW a \in 1..Len(kept) PROVE i > kept[a].to
        BY DEF Between
      <4>1. kept[a].to <= Cursor(kept, Len(kept) + 1)
        BY <2>1, Cursors
      <4> QED BY <1>1, <2>1, <4>1
    <3> QED BY <3>1, <3>2
  <2>3. Cursor(kept, Len(kept) + 1) + 1 \in Int /\ Len(text) \in Int
    BY <2>1 DEF Fits
  <2> QED BY <2>2, <2>3, SubSeqProperties DEF Rest
<1> QED BY <1>3, <1>4 DEF PiecesIn

(* The text is told apart character by character, so no character of a     *)
(* kept hit is left unless it is a placeholder.                            *)
LEMMA NothingLeft ==
  ASSUME NEW C, NEW text \in Seq(C), NEW kept, NEW tokens, Fits(kept, Len(text)),
         \A i, j \in 1..Len(text) : text[i] = text[j] => i = j,
         \A k \in 1..Len(kept) : tokens[k] \notin Range(text),
         NEW a \in 1..Len(kept)
  PROVE  Range(Stretch(text, kept[a])) \cap Range(Rebuilt(text, kept, tokens)) = {}
<1> DEFINE E == (Range(text) \cup {tokens[k] : k \in 1..Len(kept)}) \ Range(Stretch(text, kept[a]))
<1>1. /\ kept[a].from \in Nat /\ kept[a].to \in Nat /\ kept[a].from < kept[a].to
      /\ kept[a].to <= Len(text) /\ Len(text) \in Nat
  BY DEF Fits, IsHit
<1>2. Range(Stretch(text, kept[a])) = {text[i] : i \in (kept[a].from + 1)..kept[a].to}
  <2> DEFINE p == kept[a].from + 1
             q == kept[a].to
             u == SubSeq(text, p, q)
  <2>1. p \in 1..Len(text) /\ q \in p..Len(text)
    BY <1>1
  <2>2. \A i \in p..q : text[i] \in C
    BY <1>1, LenProperties
  <2> HIDE DEF p, q
  <2>3. u \in Seq(C) /\ Len(u) = q - p + 1 /\ \A i \in 1..(q - p + 1) : u[i] = text[p + i - 1]
    BY <1>1, <2>1, <2>2, SubSeqProperties
  <2> HIDE DEF u
  <2>4. Range(u) = {u[i] : i \in 1..Len(u)}
    BY <2>3, RangeEquality
  <2>5. Range(u) = {text[i] : i \in p..q}
    <3>1. ASSUME NEW i \in 1..(q - p + 1) PROVE u[i] = text[p + i - 1] /\ p + i - 1 \in p..q
      BY <1>1, <2>1, <2>3
    <3>2. ASSUME NEW i \in p..q PROVE i - p + 1 \in 1..(q - p + 1) /\ u[i - p + 1] = text[i]
      <4>1. i - p + 1 \in 1..(q - p + 1) /\ p + (i - p + 1) - 1 = i
        BY <1>1, <2>1
      <4> QED BY <2>3, <4>1
    <3>3. Range(u) = {u[i] : i \in 1..(q - p + 1)}
      BY <2>3, <2>4
    <3>4. ASSUME NEW x \in Range(u) PROVE x \in {text[i] : i \in p..q}
      <4>1. PICK i \in 1..(q - p + 1) : x = u[i]
        BY <3>3
      <4> QED BY <3>1, <4>1
    <3>5. ASSUME NEW x \in {text[i] : i \in p..q} PROVE x \in Range(u)
      <4>1. PICK i \in p..q : x = text[i]
        OBVIOUS
      <4> QED BY <3>2, <3>3, <4>1
    <3> QED BY <3>4, <3>5
  <2> QED BY <2>5 DEF Stretch, u, p, q
<1>3. \A i \in 1..Len(text) : text[i] \in Range(text)
  BY RangeEquality
<1>4. \A k \in 1..Len(kept) : tokens[k] \in E
  <2>1. Range(Stretch(text, kept[a])) \subseteq Range(text)
    <3>1. \A i \in (kept[a].from + 1)..kept[a].to : i \in 1..Len(text)
      BY <1>1
    <3> QED BY <1>2, <1>3, <3>1
  <2> QED BY <2>1
<1>5. ASSUME NEW i \in 1..Len(text), Between(i, kept) PROVE text[i] \in E
  <2>1. ASSUME NEW j \in (kept[a].from + 1)..kept[a].to PROVE text[i] # text[j]
    <3>1. j \in 1..Len(text) /\ i # j
      BY <1>1, <1>5 DEF Between
    <3> QED BY <3>1
  <2> QED BY <1>2, <1>3, <2>1
<1> HIDE DEF E
<1>6. Rebuilt(text, kept, tokens) \in Seq(E)
  BY <1>4, <1>5, GapsBetween, RebuiltSteps
<1> QED BY <1>6, RangeOfSeq DEF E

(* The numbered placeholders are all different: counted from the left or   *)
(* from the right, one label's number never comes again.                   *)
LEMMA TokensDiffer ==
  ASSUME NEW kept, Len(kept) \in Nat, DOMAIN kept = 1..Len(kept),
         NEW style \in {"numbered", "presidio"},
         NEW k \in 1..Len(kept), NEW l \in 1..Len(kept), k < l
  PROVE  Placeholders(kept, style)[k] # Placeholders(kept, style)[l]
<1> DEFINE same(i, range) == {j \in range : kept[j].label = kept[i].label}
<1>1. IsFiniteSet(1..l) /\ IsFiniteSet(k..Len(kept))
  BY FS_Interval
<1> SUFFICES ASSUME kept[k].label = kept[l].label
             PROVE  Placeholders(kept, style)[k] # Placeholders(kept, style)[l]
  BY DEF Placeholders, Placeholder
<1>2. CASE style = "numbered"
  <2>1. /\ Placeholders(kept, style)[k] = <<kept[k].label, Cardinality(same(k, 1..k))>>
        /\ Placeholders(kept, style)[l] = <<kept[l].label, Cardinality(same(l, 1..l))>>
    BY <1>2 DEF Placeholders, Placeholder, SameLabel
  <2>2. IsFiniteSet(same(l, 1..l)) /\ same(k, 1..k) \subseteq same(l, 1..l)
    <3>1. same(l, 1..l) \subseteq 1..l
      OBVIOUS
    <3> QED BY <1>1, <3>1, FS_Subset
  <2>3. l \in same(l, 1..l) /\ l \notin same(k, 1..k)
    OBVIOUS
  <2>4. Cardinality(same(k, 1..k)) # Cardinality(same(l, 1..l))
    <3> HIDE DEF same
    <3> QED BY <2>2, <2>3, FS_Subset
  <2> QED BY <2>1, <2>4
<1>3. CASE style = "presidio"
  <2>1. /\ Placeholders(kept, style)[k] = <<kept[k].label, Cardinality(same(k, k..Len(kept)))>>
        /\ Placeholders(kept, style)[l] = <<kept[l].label, Cardinality(same(l, l..Len(kept)))>>
    BY <1>3 DEF Placeholders, Placeholder, SameLabel
  <2>2. IsFiniteSet(same(k, k..Len(kept))) /\ same(l, l..Len(kept)) \subseteq same(k, k..Len(kept))
    <3>1. same(k, k..Len(kept)) \subseteq k..Len(kept)
      OBVIOUS
    <3> QED BY <1>1, <3>1, FS_Subset
  <2>3. k \in same(k, k..Len(kept)) /\ k \notin same(l, l..Len(kept))
    OBVIOUS
  <2>4. Cardinality(same(k, k..Len(kept))) # Cardinality(same(l, l..Len(kept)))
    <3> HIDE DEF same
    <3> QED BY <2>2, <2>3, FS_Subset
  <2> QED BY <2>1, <2>4
<1> QED BY <1>2, <1>3

(* restore looks a placeholder up under its own entry, and leaves what is  *)
(* none as it is.                                                          *)
Entries(text, kept, tokens) == [k \in DOMAIN kept |-> <<tokens[k], Stretch(text, kept[k])>>]

(* With placeholders that are all different each finds its own entry, and  *)
(* anything else none.                                                     *)
LEMMA OriginalFound ==
  ASSUME NEW text, NEW kept, NEW tokens, Len(kept) \in Nat, DOMAIN kept = 1..Len(kept),
         \A k, l \in 1..Len(kept) : k < l => tokens[k] # tokens[l]
  PROVE  /\ \A k \in 1..Len(kept) :
              Original(Entries(text, kept, tokens), tokens[k]) = Stretch(text, kept[k])
         /\ \A x : (\A k \in 1..Len(kept) : x # tokens[k]) =>
              Original(Entries(text, kept, tokens), x) = <<x>>
<1> DEFINE n == Len(kept)
           m == Entries(text, kept, tokens)
           At(x) == {i \in 1..Len(m) : m[i][1] = x}
<1>1. m = [k \in 1..n |-> <<tokens[k], Stretch(text, kept[k])>>]
  BY DEF Entries
<1>2. Len(m) = n /\ \A k \in 1..n : m[k][1] = tokens[k] /\ m[k][2] = Stretch(text, kept[k])
  <2> HIDE DEF m
  <2> QED BY <1>1
<1> DEFINE Place(x) == IF At(x) # {} THEN Max(At(x)) ELSE 0
<1>3. ASSUME NEW x PROVE Original(m, x) = IF Place(x) = 0 THEN <<x>> ELSE m[Place(x)][2]
  BY DEF Original, SelectLastInSeq
<1> HIDE DEF n, m
<1>4. ASSUME NEW k \in 1..n PROVE Original(m, tokens[k]) = Stretch(text, kept[k])
  <2>1. At(tokens[k]) = {k}
    <3>1. \A i \in 1..n : i # k => tokens[i] # tokens[k]
      BY DEF n
    <3> QED BY <1>2, <3>1
  <2>2. Max({k}) = k
    BY DEF Max, n
  <2>3. At(tokens[k]) # {}
    BY <2>1
  <2>4. Place(tokens[k]) = k /\ k # 0
    <3> HIDE DEF At
    <3> QED BY <2>1, <2>2, <2>3 DEF n
  <2> HIDE DEF Place
  <2> QED BY <1>2, <1>3, <2>4
<1>5. ASSUME NEW x, \A k \in 1..n : x # tokens[k] PROVE Original(m, x) = <<x>>
  <2>1. Place(x) = 0
    BY <1>2, <1>5
  <2> HIDE DEF Place
  <2> QED BY <1>3, <2>1
<1> QED BY <1>4, <1>5 DEF n, m

(* An empty mapping has an entry for nothing.                              *)
LEMMA OriginalOfNothing ==
  ASSUME NEW x
  PROVE  Original(<<>>, x) = <<x>>
<1>1. Len(<<>>) = 0
  OBVIOUS
<1> QED BY <1>1 DEF Original, SelectLastInSeq

(* The text comes back, whatever is kept of it: piece by piece, restore    *)
(* has put together the text up to the end of the hit before.              *)
Undoes(mapping, text, kept, tokens) ==
  /\ \A k \in 1..Len(kept) : Original(mapping, tokens[k]) = Stretch(text, kept[k])
  /\ \A i \in 1..Len(text) : Original(mapping, text[i]) = <<text[i]>>

(* restore undoes the redaction: when every placeholder reads as its       *)
(* stretch and every character as itself, the rebuilt text reads as the    *)
(* text.                                                                   *)
LEMMA Restored ==
  ASSUME NEW C, NEW text \in Seq(C), NEW kept, NEW tokens, NEW mapping,
         Fits(kept, Len(text)), Undoes(mapping, text, kept, tokens), NEW A,
         \A k \in 1..Len(kept) : tokens[k] \in A, \A i \in 1..Len(text) : text[i] \in A,
         Reads(mapping, A, C)
  PROVE  Restore(Rebuilt(text, kept, tokens), mapping) = text
<1> DEFINE n == Len(kept)
           To(k) == Cursor(kept, k + 1)
<1>1. n \in Nat /\ Len(text) \in Nat
  BY Cursors, LenProperties
<1>2. PICK f : Builds(f, A, text, kept, tokens)
  BY GapsBetween, RebuiltSteps
<1>3. PiecesIn(A, text, kept, tokens)
  BY GapsBetween
<1>4. /\ f \in [0..n -> Seq(A)] /\ f[0] = <<>>
      /\ \A k \in 1..n : f[k] = f[k - 1] \o Piece(text, kept, tokens, k)
      /\ Rebuilt(text, kept, tokens) = f[n] \o Rest(text, kept)
  BY <1>2 DEF Builds
<1>5. \A s, t \in Seq(A) : Restore(s \o t, mapping) = Restore(s, mapping) \o Restore(t, mapping)
  BY RestoreConcat
<1>5a. \A s \in Seq(A), t \in A :
         /\ Append(s, t) \in Seq(A)
         /\ Restore(Append(s, t), mapping) = Restore(s, mapping) \o Original(mapping, t)
  BY RestoreAppend, AppendProperties
<1>6. ASSUME NEW i \in 1..(Len(text) + 1), NEW j \in (i - 1)..Len(text)
      PROVE  /\ SubSeq(text, i, j) \in Seq(A)
             /\ Restore(SubSeq(text, i, j), mapping) = SubSeq(text, i, j)
  <2> DEFINE B == {text[k] : k \in 1..Len(text)}
  <2>1. \A k \in i..j : text[k] \in B /\ text[k] \in A
    BY <1>1
  <2>2. \A b \in B : Original(mapping, b) = <<b>>
    BY DEF Undoes
  <2>3. i \in Int /\ j \in Int
    BY <1>1
  <2> HIDE DEF B
  <2>4. SubSeq(text, i, j) \in Seq(B) /\ SubSeq(text, i, j) \in Seq(A)
    BY <2>1, <2>3, SubSeqProperties
  <2> QED BY <2>2, <2>4, RestoreFixes
<1>7. \A i \in 1..(Len(text) + 1) : \A k \in (i - 1)..Len(text) : \A j \in k..Len(text) :
        SubSeq(text, i, k) \o SubSeq(text, k + 1, j) = SubSeq(text, i, j)
  BY ConcatAdjacentSubSeq
<1>8. ASSUME NEW k \in 1..n
      PROVE  /\ To(k - 1) \in 0..Len(text) /\ To(k) \in To(k - 1)..Len(text)
             /\ Piece(text, kept, tokens, k) \in Seq(A)
             /\ Restore(Piece(text, kept, tokens, k), mapping) = SubSeq(text, To(k - 1) + 1, To(k))
  <2> DEFINE c == Cursor(kept, k)
             gap == SubSeq(text, c + 1, kept[k].from)
  <2>1. /\ c \in 0..kept[k].from /\ To(k) = kept[k].to /\ To(k - 1) = c
        /\ kept[k].from \in Nat /\ kept[k].to \in Nat /\ kept[k].from < kept[k].to
        /\ kept[k].to <= Len(text)
    <3>1. (k - 1) + 1 = k
      BY <1>1
    <3> QED BY <3>1, Cursors DEF Fits, IsHit
  <2>2. Piece(text, kept, tokens, k) = Append(gap, tokens[k])
    BY DEF Piece
  <2> HIDE DEF c, To, n
  <2>3. /\ c + 1 \in 1..(Len(text) + 1) /\ kept[k].from \in ((c + 1) - 1)..Len(text)
        /\ kept[k].to \in kept[k].from..Len(text)
    BY <1>1, <2>1
  <2>4. gap \in Seq(A) /\ Restore(gap, mapping) = gap
    BY <1>6, <2>3
  <2>5. Original(mapping, tokens[k]) = SubSeq(text, kept[k].from + 1, kept[k].to)
    BY DEF Undoes, Stretch, n
  <2>6. gap \o SubSeq(text, kept[k].from + 1, kept[k].to) = SubSeq(text, c + 1, kept[k].to)
    BY <1>7, <2>3
  <2>7. /\ Append(gap, tokens[k]) \in Seq(A)
        /\ Restore(Append(gap, tokens[k]), mapping) = Restore(gap, mapping) \o Original(mapping, tokens[k])
    <3>1. tokens[k] \in A
      BY DEF n
    <3> HIDE DEF gap
    <3> QED BY <1>5a, <2>4, <3>1
  <2>8. To(k - 1) \in 0..Len(text) /\ To(k) \in To(k - 1)..Len(text)
    BY <1>1, <2>1
  <2>9. Restore(Append(gap, tokens[k]), mapping) = SubSeq(text, c + 1, kept[k].to)
    BY <2>4, <2>5, <2>6, <2>7
  <2> HIDE DEF gap
  <2> QED BY <2>1, <2>2, <2>7, <2>8, <2>9
<1> DEFINE S == {k \in Nat : k <= n => /\ To(k) \in 0..Len(text)
                                       /\ Restore(f[k], mapping) = SubSeq(text, 1, To(k))}
<1>9. 0 \in S
  <2>1. To(0) = 0
    BY Cursors
  <2>2. SubSeq(text, 1, 0) = <<>>
    BY SubSeqEmpty
  <2> HIDE DEF To
  <2> QED BY <1>1, <1>4, <2>1, <2>2, RestoreEmpty
<1> HIDE DEF n, To
<1>10. ASSUME NEW k \in Nat, k \in S PROVE k + 1 \in S
  <2> SUFFICES ASSUME k + 1 <= n
               PROVE  /\ To(k + 1) \in 0..Len(text)
                      /\ Restore(f[k + 1], mapping) = SubSeq(text, 1, To(k + 1))
    OBVIOUS
  <2>1. k + 1 \in 1..n /\ k \in 0..n /\ k <= n /\ (k + 1) - 1 = k
    BY <1>1
  <2>2. f[k] \in Seq(A) /\ Restore(f[k], mapping) = SubSeq(text, 1, To(k))
    BY <1>4, <1>10, <2>1
  <2>3. /\ To(k) \in 0..Len(text) /\ To(k + 1) \in To(k)..Len(text)
        /\ Piece(text, kept, tokens, k + 1) \in Seq(A)
        /\ Restore(Piece(text, kept, tokens, k + 1), mapping) = SubSeq(text, To(k) + 1, To(k + 1))
    BY <1>8, <2>1
  <2>4. f[k + 1] = f[k] \o Piece(text, kept, tokens, k + 1)
    BY <1>4, <2>1
  <2>5. Restore(f[k + 1], mapping) = SubSeq(text, 1, To(k)) \o SubSeq(text, To(k) + 1, To(k + 1))
    BY <1>5, <2>2, <2>3, <2>4
  <2>6. SubSeq(text, 1, To(k)) \o SubSeq(text, To(k) + 1, To(k + 1)) = SubSeq(text, 1, To(k + 1))
    <3>1. 1 \in 1..(Len(text) + 1) /\ To(k) \in (1 - 1)..Len(text)
      BY <1>1, <2>3
    <3> QED BY <1>7, <2>3, <3>1
  <2>7. To(k + 1) \in 0..Len(text)
    BY <1>1, <2>3
  <2> QED BY <2>5, <2>6, <2>7
<1>11. To(n) \in 0..Len(text) /\ Restore(f[n], mapping) = SubSeq(text, 1, To(n))
  <2>1. n \in S
    <3> HIDE DEF S
    <3> QED BY <1>1, <1>9, <1>10, NatSteps
  <2> QED BY <1>1, <2>1
<1>12. Restore(Rest(text, kept), mapping) = Rest(text, kept)
       /\ Rest(text, kept) = SubSeq(text, To(n) + 1, Len(text))
  <2>1. Rest(text, kept) = SubSeq(text, To(n) + 1, Len(text))
    BY DEF Rest, To, n
  <2>2. To(n) + 1 \in 1..(Len(text) + 1) /\ Len(text) \in ((To(n) + 1) - 1)..Len(text)
    BY <1>1, <1>11
  <2> QED BY <1>6, <2>1, <2>2
<1>13. f[n] \in Seq(A) /\ Rest(text, kept) \in Seq(A)
  BY <1>1, <1>3, <1>4 DEF PiecesIn
<1>14. SubSeq(text, 1, To(n)) \o SubSeq(text, To(n) + 1, Len(text)) = SubSeq(text, 1, Len(text))
  <2>1. /\ 1 \in 1..(Len(text) + 1) /\ To(n) \in (1 - 1)..Len(text)
        /\ Len(text) \in To(n)..Len(text)
    BY <1>1, <1>11
  <2> QED BY <1>7, <2>1
<1>15. SubSeq(text, 1, Len(text)) = text
  BY SubSeqFull
<1> QED BY <1>4, <1>5, <1>11, <1>12, <1>13, <1>14, <1>15

(* What may be made of a request's text.                                   *)
Redacted(r, scan) == Redact(Text(r), scan.hits, scan.style)
KeptOf(scan) == Kept(scan.hits, scan.style)
TokensOf(scan) == Placeholders(KeptOf(scan), scan.style)

(* The characters of a text, all different.                                *)
LEMMA TextOK ==
  ASSUME NEW r \in Requests
  PROVE  /\ Text(r) \in Seq(Range(Text(r))) /\ Len(Text(r)) = Length
         /\ \A i \in 1..Length : Text(r)[i] = <<r, i>> /\ Text(r)[i] \in Range(Text(r))
         /\ \A i, j \in 1..Length : Text(r)[i] = Text(r)[j] => i = j
         /\ Range(Text(r)) = {<<r, i>> : i \in 1..Length}
<1>1. Length \in Nat
  BY RoundTripAssumption DEF RoundTripAssumption
<1> DEFINE C == {<<r, i>> : i \in 1..Length}
<1>2. Text(r) \in [1..Length -> C] /\ \A i \in 1..Length : Text(r)[i] = <<r, i>>
  BY DEF Text
<1> HIDE DEF C
<1>3. Text(r) \in Seq(C) /\ Len(Text(r)) = Length
  BY <1>1, <1>2, SeqDef
<1>4. Range(Text(r)) = {Text(r)[i] : i \in 1..Length}
  BY <1>3, RangeEquality
<1>5. Text(r) \in Seq(Range(Text(r)))
  BY <1>3, SeqOfRange
<1>6. \A i, j \in 1..Length : Text(r)[i] = Text(r)[j] => i = j
  BY <1>2
<1>7. {Text(r)[i] : i \in 1..Length} = {<<r, i>> : i \in 1..Length}
  BY <1>2
<1> QED BY <1>2, <1>3, <1>4, <1>5, <1>6, <1>7

(* The hits that a scan keeps fit the text, and answer for the others.     *)
LEMMA ScanKeeps ==
  ASSUME NEW r \in Requests, NEW scan \in Scans[r]
  PROVE  /\ Fits(KeptOf(scan), Length)
         /\ KeptWell(KeptOf(scan), scan.hits, scan.style)
         /\ Len(KeptOf(scan)) \in Nat /\ DOMAIN KeptOf(scan) = 1..Len(KeptOf(scan))
         /\ \A a \in 1..Len(KeptOf(scan)) : KeptOf(scan)[a] \in Range(scan.hits)
         /\ \A m \in Range(scan.hits) : m.label \notin Requests
         /\ scan.hits \in Seq(Range(scan.hits))
         /\ scan.style \in {"numbered", "labeled", "presidio", "spacy"}
<1> DEFINE D == Range(scan.hits)
           kept == KeptOf(scan)
<1>1. /\ scan.hits \in Seq(D) /\ scan.style \in {"numbered", "labeled", "presidio", "spacy"}
      /\ \A m \in D : /\ m.from \in 0..Length /\ m.to \in 0..Length /\ m.from < m.to
                      /\ m.score \in Int /\ m.label \notin Requests
      /\ Length \in Nat
  BY RoundTripAssumption DEF RoundTripAssumption
<1>2. scan.style = "spacy" => NoOverlap(scan.hits)
  <2>1. DOMAIN scan.hits = 1..Len(scan.hits) /\ Len(scan.hits) \in Nat
    BY <1>1, LenProperties
  <2>2. scan.style = "spacy" =>
          \A i, j \in DOMAIN scan.hits : i # j => ~Overlaps(scan.hits[i], scan.hits[j])
    BY RoundTripAssumption DEF RoundTripAssumption
  <2> HIDE DEF D
  <2> QED BY <2>1, <2>2 DEF NoOverlap
<1> HIDE DEF D
<1>3. \A m \in D : IsHit(m) /\ m.to <= Length
  BY <1>1 DEF IsHit
<1>4. kept \in Seq(D) /\ KeptWell(kept, scan.hits, scan.style)
  BY <1>1, <1>2, <1>3, KeepsWell DEF KeptOf
<1> HIDE DEF kept
<1>5. Len(kept) \in Nat /\ DOMAIN kept = 1..Len(kept) /\ \A a \in 1..Len(kept) : kept[a] \in D
  BY <1>4, LenProperties
<1>6. Fits(kept, Length)
  BY <1>1, <1>3, <1>4, <1>5 DEF Fits, KeptWell
<1> QED BY <1>1, <1>4, <1>5, <1>6 DEF D, kept

(* No placeholder is a character of the text.                              *)
LEMMA ScanTokens ==
  ASSUME NEW r \in Requests, NEW scan \in Scans[r], NEW a \in 1..Len(KeptOf(scan))
  PROVE  /\ TokensOf(scan)[a][1] \notin Requests
         /\ TokensOf(scan)[a] \notin Range(Text(r))
<1>1. PICK n : TokensOf(scan)[a] = <<KeptOf(scan)[a].label, n>>
  BY ScanKeeps DEF TokensOf, Placeholders, Placeholder
<1>2. KeptOf(scan)[a].label \notin Requests
  BY ScanKeeps
<1>3. \A x \in Range(Text(r)) : x[1] = r
  BY TextOK
<1> QED BY <1>1, <1>2, <1>3

(* Redact by its parts.                                                    *)
LEMMA RedactedIs ==
  ASSUME NEW r, NEW scan
  PROVE  /\ Redacted(r, scan).text = Rebuilt(Text(r), KeptOf(scan), TokensOf(scan))
         /\ Redacted(r, scan).mapping = IF scan.style = "spacy" THEN <<>>
                                        ELSE Entries(Text(r), KeptOf(scan), TokensOf(scan))
BY DEF Redacted, Redact, KeptOf, TokensOf, Entries

(* For every hit there is one, it or one that overlaps it and comes first, *)
(* of which nothing is left.                                               *)
LEMMA ScanClears ==
  ASSUME NEW r \in Requests, NEW scan \in Scans[r], NEW m \in Range(scan.hits)
  PROVE  \E a \in Range(scan.hits) :
           /\ a = m \/ Overlaps(a, m)
           /\ ComesFirst(a, m, scan.style)
           /\ Range(Stretch(Text(r), a)) \cap Range(Redacted(r, scan).text) = {}
<1> DEFINE kept == KeptOf(scan)
<1>1. PICK i \in 1..Len(scan.hits) : scan.hits[i] = m
  BY ScanKeeps, RangeEquality
<1>2. KeptWell(kept, scan.hits, scan.style)
  BY ScanKeeps
<1>3. PICK a \in 1..Len(kept) : /\ kept[a] = m \/ Overlaps(kept[a], m)
                                /\ ComesFirst(kept[a], m, scan.style)
  BY <1>1, <1>2 DEF KeptWell, AnswersFor
<1>4. kept[a] \in Range(scan.hits) /\ Fits(kept, Len(Text(r)))
  BY ScanKeeps, TextOK
<1>5. /\ Text(r) \in Seq(Range(Text(r)))
      /\ \A k, l \in 1..Len(Text(r)) : Text(r)[k] = Text(r)[l] => k = l
      /\ \A k \in 1..Len(kept) : TokensOf(scan)[k] \notin Range(Text(r))
  BY TextOK, ScanTokens
<1>6. Range(Stretch(Text(r), kept[a])) \cap Range(Rebuilt(Text(r), kept, TokensOf(scan))) = {}
  <2> HIDE DEF kept
  <2> QED BY <1>4, <1>5, NothingLeft
<1> QED BY <1>3, <1>4, <1>6, RedactedIs

(* The tokens of a request's text, redacted or not.                        *)
TokensFor(r, scan) == Range(Text(r)) \cup {TokensOf(scan)[k] : k \in 1..Len(KeptOf(scan))}

(* A redacted text and every reply to it are made of the text's characters *)
(* and its placeholders.                                                   *)
LEMMA RedactedTyped ==
  ASSUME NEW r \in Requests, NEW scan \in Scans[r]
  PROVE  /\ Redacted(r, scan).text \in Seq(TokensFor(r, scan))
         /\ \A reply \in Replies(Redacted(r, scan).text) : reply \in Seq(TokensFor(r, scan))
<1> DEFINE A == TokensFor(r, scan)
           X == Redacted(r, scan).text
<1>1. Fits(KeptOf(scan), Len(Text(r)))
  BY ScanKeeps, TextOK
<1>2. /\ \A k \in 1..Len(KeptOf(scan)) : TokensOf(scan)[k] \in A
      /\ \A i \in 1..Len(Text(r)) : Text(r)[i] \in A
  BY TextOK DEF TokensFor
<1> HIDE DEF A
<1>3. X \in Seq(A)
  BY <1>1, <1>2, GapsBetween, RebuiltSteps, RedactedIs
<1> HIDE DEF X
<1>4. X \o X \in Seq(A)
  BY <1>3, ConcatProperties
<1>5. Reverse(X) \in Seq(A)
  <2>1. Len(X) \in Nat /\ \A i \in 1..Len(X) : X[i] \in A
    BY <1>3, LenProperties
  <2>2. \A i \in 1..Len(X) : (Len(X) - i) + 1 \in 1..Len(X)
    BY <2>1
  <2>3. Reverse(X) \in [1..Len(X) -> A]
    BY <2>1, <2>2 DEF Reverse
  <2> QED BY <2>1, <2>3, SeqDef
<1> QED BY <1>3, <1>4, <1>5 DEF Replies, A, X

(* Without a mapping a reply comes back as it is.                          *)
LEMMA UntouchedWithout ==
  ASSUME NEW r \in Requests, NEW scan \in Scans[r],
         NEW reply \in Replies(Redacted(r, scan).text)
  PROVE  Restore(reply, <<>>) = reply
<1>1. reply \in Seq(TokensFor(r, scan))
  BY RedactedTyped
<1>2. \A x \in TokensFor(r, scan) : Original(<<>>, x) = <<x>>
  BY OriginalOfNothing
<1> QED BY <1>1, <1>2, RestoreFixes

(* The mapping undoes the redaction.                                       *)
LEMMA MappingUndoes ==
  ASSUME NEW r \in Requests, NEW scan \in Scans[r], scan.style \in {"numbered", "presidio"}
  PROVE  /\ Undoes(Redacted(r, scan).mapping, Text(r), KeptOf(scan), TokensOf(scan))
         /\ Reads(Redacted(r, scan).mapping, TokensFor(r, scan), Range(Text(r)))
<1> DEFINE kept == KeptOf(scan)
           tokens == TokensOf(scan)
           M == Entries(Text(r), kept, tokens)
<1>1. Redacted(r, scan).mapping = M
  BY RedactedIs
<1>2. Len(kept) \in Nat /\ DOMAIN kept = 1..Len(kept) /\ Fits(kept, Length)
  BY ScanKeeps
<1>3. \A k, l \in 1..Len(kept) : k < l => tokens[k] # tokens[l]
  BY <1>2, TokensDiffer DEF TokensOf
<1>4. \A k \in 1..Len(kept) : tokens[k] \notin Range(Text(r))
  BY ScanTokens
<1>5. /\ Text(r) \in Seq(Range(Text(r))) /\ Len(Text(r)) = Length
      /\ \A i \in 1..Length : Text(r)[i] \in Range(Text(r))
  BY TextOK
<1> HIDE DEF kept, tokens, M
<1>6. /\ \A k \in 1..Len(kept) : Original(M, tokens[k]) = Stretch(Text(r), kept[k])
      /\ \A x \in Range(Text(r)) : Original(M, x) = <<x>>
  BY <1>2, <1>3, <1>4, OriginalFound DEF M
<1>7. \A k \in 1..Len(kept) : Stretch(Text(r), kept[k]) \in Seq(Range(Text(r)))
  <2> SUFFICES ASSUME NEW k \in 1..Len(kept)
               PROVE  SubSeq(Text(r), kept[k].from + 1, kept[k].to) \in Seq(Range(Text(r)))
    BY DEF Stretch
  <2>1. /\ kept[k].from \in Nat /\ kept[k].to \in Nat /\ kept[k].to <= Length /\ Length \in Nat
    BY <1>2 DEF Fits, IsHit
  <2>2. \A i \in (kept[k].from + 1)..kept[k].to : Text(r)[i] \in Range(Text(r))
    BY <1>5, <2>1
  <2>3. kept[k].from + 1 \in Int /\ kept[k].to \in Int
    BY <2>1
  <2> QED BY <2>2, <2>3, SubSeqProperties
<1>8. Undoes(M, Text(r), kept, tokens)
  BY <1>5, <1>6 DEF Undoes
<1>9. Reads(M, TokensFor(r, scan), Range(Text(r)))
  <2>1. \A x \in Range(Text(r)) : <<x>> \in Seq(Range(Text(r)))
    OBVIOUS
  <2>2. \A x \in TokensFor(r, scan) : x \in Range(Text(r)) \/ \E k \in 1..Len(kept) : x = tokens[k]
    BY DEF TokensFor, kept, tokens
  <2> SUFFICES ASSUME NEW x \in TokensFor(r, scan) PROVE Original(M, x) \in Seq(Range(Text(r)))
    BY DEF Reads
  <2>3. CASE x \in Range(Text(r))
    BY <1>6, <2>1, <2>3
  <2>4. CASE \E k \in 1..Len(kept) : x = tokens[k]
    BY <1>6, <1>7, <2>4
  <2> QED BY <2>2, <2>3, <2>4
<1> QED BY <1>1, <1>8, <1>9 DEF kept, tokens

(* What unredact makes of a reply while it has the mapping.                *)
LEMMA RepliesRestored ==
  ASSUME NEW r \in Requests, NEW scan \in Scans[r], scan.style \in {"numbered", "presidio"},
         NEW reply \in Replies(Redacted(r, scan).text)
  PROVE  LET text == Restore(reply, Redacted(r, scan).mapping)
         IN  /\ reply = Redacted(r, scan).text => text = Text(r)
             /\ reply = Redacted(r, scan).text \o Redacted(r, scan).text => text = Text(r) \o Text(r)
             /\ Range(text) = Range(Text(r))
             /\ Len(text) \in {Length, 2 * Length}
<1> DEFINE X == Redacted(r, scan).text
           M == Redacted(r, scan).mapping
           T == Text(r)
           A == TokensFor(r, scan)
<1>1. /\ T \in Seq(Range(T)) /\ Len(T) = Length
      /\ \A i \in 1..Len(T) : T[i] \in A
      /\ \A k \in 1..Len(KeptOf(scan)) : TokensOf(scan)[k] \in A
  BY TextOK DEF TokensFor
<1>2. Undoes(M, T, KeptOf(scan), TokensOf(scan)) /\ Reads(M, A, Range(T))
  BY MappingUndoes
<1>3. X = Rebuilt(T, KeptOf(scan), TokensOf(scan)) /\ X \in Seq(A) /\ Fits(KeptOf(scan), Len(T))
  BY <1>1, RedactedIs, RedactedTyped, ScanKeeps
<1>4. reply = X \/ reply = X \o X \/ reply = Reverse(X)
  BY DEF Replies
<1> HIDE DEF X, M, T, A
<1>5. Restore(X, M) = T
  BY <1>1, <1>2, <1>3, Restored
<1>6. Restore(X \o X, M) = T \o T
  <2>1. \A s, t \in Seq(A) : Restore(s \o t, M) = Restore(s, M) \o Restore(t, M)
    BY <1>2, RestoreConcat
  <2> QED BY <1>3, <1>5, <2>1
<1>7. Range(T \o T) = Range(T) /\ Len(T \o T) = 2 * Length /\ Length \in Nat
  <2>1. Range(T \o T) = Range(T) \cup Range(T) /\ Len(T \o T) = Len(T) + Len(T) /\ Len(T) \in Nat
    <3>1. T \in Seq(Range(T))
      BY <1>1
    <3> QED BY <3>1, RangeConcatenation, ConcatProperties, LenProperties
  <2> QED BY <1>1, <2>1
<1>8. Range(Restore(Reverse(X), M)) = Range(T) /\ Len(Restore(Reverse(X), M)) = Length
  BY <1>1, <1>2, <1>3, <1>5, RestoreReverse
<1>9. CASE reply = X
  <2>1. X = X \o X => T = T \o T
    BY <1>5, <1>6
  <2> QED BY <1>1, <1>5, <1>9, <2>1 DEF X, M, T
<1>10. CASE reply = X \o X
  <2>1. X \o X = X => T \o T = T
    BY <1>5, <1>6
  <2> QED BY <1>5, <1>6, <1>7, <1>10, <2>1 DEF X, M, T
<1>11. CASE reply = Reverse(X)
  <2>1. /\ Reverse(X) = X => Restore(Reverse(X), M) = T
        /\ Reverse(X) = X \o X => Restore(Reverse(X), M) = T \o T
    BY <1>5, <1>6
  <2> QED BY <1>8, <1>11, <2>1 DEF X, M, T
<1> QED BY <1>4, <1>9, <1>10, <1>11

(* A mapping holds placeholders and stretches of its own text.             *)
LEMMA MappingTyped ==
  ASSUME NEW r \in Requests, NEW scan \in Scans[r], NEW e \in Range(Redacted(r, scan).mapping)
  PROVE  e[1][1] \notin Requests /\ Range(e[2]) \subseteq Range(Text(r))
<1> DEFINE kept == KeptOf(scan)
<1>1. Redacted(r, scan).mapping # <<>> /\ scan.style # "spacy"
  <2>1. Range(<<>>) = {}
    BY DEF Range
  <2> QED BY <2>1, RedactedIs
<1>2. DOMAIN kept = 1..Len(kept) /\ Fits(kept, Length)
  BY ScanKeeps
<1>3. PICK k \in 1..Len(kept) : e = <<TokensOf(scan)[k], Stretch(Text(r), kept[k])>>
  <2>1. e \in Range(Entries(Text(r), kept, TokensOf(scan)))
    BY <1>1, RedactedIs
  <2>2. PICK k \in DOMAIN kept : e = Entries(Text(r), kept, TokensOf(scan))[k]
    BY <2>1 DEF Range, Entries
  <2>3. Entries(Text(r), kept, TokensOf(scan))[k] = <<TokensOf(scan)[k], Stretch(Text(r), kept[k])>>
    BY DEF Entries
  <2> QED BY <1>2, <2>2, <2>3
<1>4. Range(Stretch(Text(r), kept[k])) \subseteq Range(Text(r))
  <2>1. kept[k].from \in Nat /\ kept[k].to \in Nat /\ kept[k].to <= Length /\ Length \in Nat
    BY <1>2 DEF Fits, IsHit
  <2>2. \A i \in (kept[k].from + 1)..kept[k].to : Text(r)[i] \in Range(Text(r))
    BY <2>1, TextOK
  <2>3. kept[k].from + 1 \in Int /\ kept[k].to \in Int
    BY <2>1
  <2> HIDE DEF kept
  <2>4. Stretch(Text(r), kept[k]) \in Seq(Range(Text(r)))
    BY <2>2, <2>3, SubSeqProperties DEF Stretch
  <2> QED BY <2>4, RangeOfSeq
<1> QED BY <1>3, <1>4, ScanTokens

(* What was redacted is one of the scans of the request's text, the vault  *)
(* holds its mapping until it expires, is deleted or is lost, and an       *)
(* answer was restored with the mapping exactly when it came in time.      *)
MappingOf(r) == Redact(Text(r), sent[r].hits, sent[r].style).mapping
SentOK(r) ==
  IsSent(r) => \E scan \in Scans[r], at \in 0..clock, gone \in BOOLEAN :
    sent[r] = [style |-> scan.style, hits |-> scan.hits, text |-> Redacted(r, scan).text,
               at |-> at, gone |-> gone]
EntryOK(id) ==
  /\ id \in Requests /\ IsSent(id) /\ ~sent[id].gone
  /\ vault[id].mapping = MappingOf(id) /\ vault[id].expires = sent[id].at + TTL
Held(r) ==
  IsSent(r) /\ ~sent[r].gone /\ clock <= sent[r].at + TTL /\ MappingOf(r) # <<>> => r \in DOMAIN vault
AnswerOK(r) ==
  answer[r] # NoAnswer =>
    /\ IsSent(r) /\ answer[r].reply \in Replies(sent[r].text) /\ answer[r].inTime \in BOOLEAN
    /\ answer[r].text = Restore(answer[r].reply, IF answer[r].inTime THEN MappingOf(r) ELSE <<>>)
RoundInv ==
  /\ clock \in 0..MaxTime /\ DOMAIN sent = Requests /\ DOMAIN answer = Requests
  /\ \A r \in Requests : SentOK(r) /\ Held(r) /\ AnswerOK(r)
  /\ \A id \in DOMAIN vault : EntryOK(id)

(* What a request's record says does not change with its being gone.       *)
LEMMA SentIs ==
  ASSUME NEW r \in Requests, SentOK(r), IsSent(r)
  PROVE  /\ sent[r].at \in 0..clock /\ sent[r].gone \in BOOLEAN
         /\ \E scan \in Scans[r] :
              /\ sent[r] = [style |-> scan.style, hits |-> scan.hits,
                            text |-> Redacted(r, scan).text, at |-> sent[r].at, gone |-> sent[r].gone]
              /\ MappingOf(r) = Redacted(r, scan).mapping
<1>1. PICK scan \in Scans[r], at \in 0..clock, gone \in BOOLEAN :
        sent[r] = [style |-> scan.style, hits |-> scan.hits, text |-> Redacted(r, scan).text,
                   at |-> at, gone |-> gone]
  BY DEF SentOK
<1>2. /\ sent[r].at = at /\ sent[r].gone = gone /\ sent[r].hits = scan.hits
      /\ sent[r].style = scan.style
  BY <1>1
<1>3. MappingOf(r) = Redacted(r, scan).mapping
  BY <1>2 DEF MappingOf, Redacted
<1> QED BY <1>1, <1>2, <1>3

(* A record of any scan is none of an unsent request.                      *)
LEMMA SentRecords ==
  ASSUME NEW r \in Requests, NEW scan \in Scans[r], NEW text, NEW at, NEW gone
  PROVE  [style |-> scan.style, hits |-> scan.hits, text |-> text, at |-> at, gone |-> gone] # Unsent
<1>1. scan.style # "none"
  BY ScanKeeps
<1> QED BY <1>1 DEF Unsent

(* Init: nothing is sent, answered or stored.                              *)
LEMMA RoundInit == Init => RoundInv
<1> SUFFICES ASSUME Init PROVE RoundInv
  OBVIOUS
<1>1. DOMAIN <<>> = {}
  OBVIOUS
<1>2. clock \in 0..MaxTime
  BY RoundTripAssumption DEF RoundTripAssumption, Init
<1>3. \A r \in Requests : ~IsSent(r) /\ answer[r] = NoAnswer
  BY DEF Init, IsSent
<1> QED BY <1>1, <1>2, <1>3 DEF Init, RoundInv, SentOK, Held, AnswerOK

(* A request that a step leaves alone, and the vault's entry of it.        *)
LEMMA Untouched ==
  ASSUME RoundInv, clock' \in {clock, clock + 1}, clock' \in 0..MaxTime, NEW r \in Requests,
         sent'[r] = sent[r], answer'[r] = answer[r],
         r \in DOMAIN vault /\ clock' <= vault[r].expires => r \in DOMAIN vault'
  PROVE  SentOK(r)' /\ Held(r)' /\ AnswerOK(r)'
<1>1. SentOK(r) /\ Held(r) /\ AnswerOK(r) /\ clock \in Nat
  BY DEF RoundInv
<1>2. IsSent(r)' <=> IsSent(r)
  BY DEF IsSent
<1>3. MappingOf(r)' = MappingOf(r)
  BY DEF MappingOf
<1>4. SentOK(r)'
  <2>1. 0..clock \subseteq 0..clock'
    BY <1>1
  <2> QED BY <1>1, <1>2, <2>1 DEF SentOK
<1>5. Held(r)'
  <2> SUFFICES ASSUME IsSent(r), ~sent[r].gone, clock' <= sent[r].at + TTL, MappingOf(r) # <<>>
               PROVE  r \in DOMAIN vault'
    BY <1>2, <1>3 DEF Held
  <2>1. sent[r].at \in 0..clock /\ TTL \in Nat
    BY <1>1, SentIs, RoundTripAssumption DEF RoundTripAssumption
  <2>2. clock <= sent[r].at + TTL
    BY <1>1, <2>1
  <2>3. r \in DOMAIN vault /\ vault[r].expires = sent[r].at + TTL
    BY <1>1, <2>2 DEF Held, RoundInv, EntryOK
  <2> QED BY <2>3
<1>6. AnswerOK(r)'
  BY <1>1, <1>2, <1>3 DEF AnswerOK
<1> QED BY <1>4, <1>5, <1>6

(* An entry that stays as it was, of a request that is not gone.           *)
LEMMA EntryStays ==
  ASSUME RoundInv, NEW id \in DOMAIN vault, vault'[id] = vault[id], sent'[id] = sent[id]
  PROVE  EntryOK(id)'
BY DEF RoundInv, EntryOK, IsSent, MappingOf

(* A put stores the mapping and drops none that is still live.             *)
LEMMA RoundSanitize ==
  ASSUME RoundInv, NEW r \in Requests, Sanitize(r)
  PROVE  RoundInv'
<1>1. PICK scan \in Scans[r] :
        /\ sent' = [sent EXCEPT ![r] = [style |-> scan.style, hits |-> scan.hits,
                                        text |-> Redacted(r, scan).text, at |-> clock,
                                        gone |-> FALSE]]
        /\ vault' = IF Redacted(r, scan).mapping = <<>> THEN vault ELSE Put(r, Redacted(r, scan).mapping)
  BY DEF Sanitize, Redacted
<1>2. /\ clock' = clock /\ answer' = answer /\ store' = store /\ ~IsSent(r)
      /\ clock \in 0..MaxTime /\ clock \in Nat /\ TTL \in Nat
  BY RoundTripAssumption DEF Sanitize, RoundInv, RoundTripAssumption
<1>3. /\ sent'[r] = [style |-> scan.style, hits |-> scan.hits, text |-> Redacted(r, scan).text,
                     at |-> clock, gone |-> FALSE]
      /\ \A q \in Requests : q # r => sent'[q] = sent[q]
      /\ DOMAIN sent' = Requests
  BY <1>1 DEF RoundInv
<1> DEFINE M == Redacted(r, scan).mapping
<1>4. IsSent(r)' /\ MappingOf(r)' = M
  BY <1>3, SentRecords DEF IsSent, MappingOf, Redacted
<1>5. r \notin DOMAIN vault
  BY <1>2 DEF RoundInv, EntryOK
<1>6. M # <<>> =>
        /\ vault' = With(r, [expires |-> clock + TTL, mapping |-> M])
        /\ r \in DOMAIN vault' /\ vault'[r] = [expires |-> clock + TTL, mapping |-> M]
  BY <1>1 DEF Put, With
<1> HIDE DEF M
<1>7. \A id \in DOMAIN vault' : id # r => id \in DOMAIN vault /\ vault'[id] = vault[id]
  BY <1>1, <1>6 DEF With, Collected, M
<1>8. \A id \in DOMAIN vault : clock <= vault[id].expires => id \in DOMAIN vault'
  <2> SUFFICES ASSUME NEW id \in DOMAIN vault, clock <= vault[id].expires PROVE id \in DOMAIN vault'
    OBVIOUS
  <2>1. vault[id].expires \in Nat
    <3>1. EntryOK(id) /\ SentOK(id) /\ id \in Requests
      BY DEF RoundInv, EntryOK
    <3>2. sent[id].at \in 0..clock
      BY <3>1, SentIs DEF EntryOK
    <3> QED BY <1>2, <3>1, <3>2 DEF EntryOK
  <2>2. ~Stale(id)
    BY <1>2, <2>1 DEF Stale
  <2> QED BY <1>1, <1>6, <2>2 DEF With, Collected, M
<1>9. ASSUME NEW q \in Requests, q # r PROVE SentOK(q)' /\ Held(q)' /\ AnswerOK(q)'
  BY <1>2, <1>3, <1>8, <1>9, Untouched
<1>10. SentOK(r)' /\ Held(r)' /\ AnswerOK(r)'
  <2>1. SentOK(r)'
    <3>1. clock \in 0..clock' /\ FALSE \in BOOLEAN
      BY <1>2
    <3>2. \E s \in Scans[r], at \in 0..clock', gone \in BOOLEAN :
            sent'[r] = [style |-> s.style, hits |-> s.hits, text |-> Redacted(r, s).text,
                        at |-> at, gone |-> gone]
      BY <1>3, <3>1
    <3> QED BY <3>2 DEF SentOK, Redacted, Redact, Text
  <2>2. Held(r)'
    BY <1>4, <1>6 DEF Held
  <2>3. AnswerOK(r)'
    BY <1>2 DEF RoundInv, AnswerOK
  <2> QED BY <2>1, <2>2, <2>3
<1>11. ASSUME NEW id \in DOMAIN vault' PROVE EntryOK(id)'
  <2>1. CASE id = r
    <3>1. M # <<>>
      BY <1>1, <1>5, <2>1 DEF M
    <3> QED BY <1>2, <1>3, <1>4, <1>6, <2>1, <3>1 DEF EntryOK
  <2>2. CASE id # r
    BY <1>3, <1>7, <2>2, EntryStays DEF RoundInv, EntryOK
  <2> QED BY <2>1, <2>2
<1>12. DOMAIN answer' = Requests
  BY <1>2 DEF RoundInv
<1> QED BY <1>2, <1>3, <1>9, <1>10, <1>11, <1>12 DEF RoundInv

(* A get finds the mapping exactly when the reply came in time.            *)
LEMMA LookedUp ==
  ASSUME RoundInv, NEW r \in Requests, IsSent(r)
  PROVE  Looked(r) = IF clock <= sent[r].at + TTL /\ ~sent[r].gone THEN MappingOf(r) ELSE <<>>
<1>1. sent[r].at \in 0..clock /\ sent[r].gone \in BOOLEAN /\ TTL \in Nat /\ clock \in Nat
  BY SentIs, RoundTripAssumption DEF RoundInv, RoundTripAssumption
<1>2. r \in DOMAIN vault => ~sent[r].gone /\ vault[r].mapping = MappingOf(r)
                            /\ vault[r].expires = sent[r].at + TTL
  BY DEF RoundInv, EntryOK
<1>3. Held(r)
  BY DEF RoundInv
<1>4. IsLive(r) <=> r \in DOMAIN vault /\ clock <= sent[r].at + TTL
  BY <1>1, <1>2 DEF IsLive, Stale
<1> QED BY <1>2, <1>3, <1>4 DEF Looked, Held

(* A get drops only what has expired, and restores with what it found.     *)
LEMMA RoundUnredact ==
  ASSUME RoundInv, NEW r \in Requests, Unredact(r)
  PROVE  RoundInv'
<1>1. PICK reply \in Replies(sent[r].text) :
        answer' = [answer EXCEPT ![r] = [reply |-> reply, text |-> Restore(reply, Looked(r)),
                                         inTime |-> clock <= sent[r].at + TTL /\ ~sent[r].gone]]
  BY DEF Unredact
<1>2. /\ clock' = clock /\ sent' = sent /\ IsSent(r) /\ clock \in 0..MaxTime /\ clock \in Nat
      /\ vault' = IF IsLive(r) THEN vault ELSE Without(r)
  BY RoundTripAssumption DEF Unredact, RoundInv, RoundTripAssumption
<1>3. /\ \A id \in DOMAIN vault' : id \in DOMAIN vault /\ vault'[id] = vault[id]
      /\ \A id \in DOMAIN vault : id # r \/ IsLive(r) => id \in DOMAIN vault'
  BY <1>2, WithoutKeeps
<1>4. r \in DOMAIN vault /\ clock <= vault[r].expires => r \in DOMAIN vault'
  <2>1. r \in DOMAIN vault => vault[r].expires \in Nat
    <3>1. r \in DOMAIN vault => vault[r].expires = sent[r].at + TTL
      BY DEF RoundInv, EntryOK
    <3>2. sent[r].at \in 0..clock /\ TTL \in Nat
      BY <1>2, SentIs, RoundTripAssumption DEF RoundInv, RoundTripAssumption
    <3> QED BY <1>2, <3>1, <3>2
  <2> QED BY <1>2, <1>3, <2>1 DEF IsLive, Stale
<1>5. DOMAIN answer' = Requests /\ \A q \in Requests : q # r => answer'[q] = answer[q]
  BY <1>1 DEF RoundInv
<1>6. ASSUME NEW q \in Requests, q # r PROVE SentOK(q)' /\ Held(q)' /\ AnswerOK(q)'
  BY <1>2, <1>3, <1>5, <1>6, Untouched
<1>7. SentOK(r)' /\ Held(r)'
  <2>1. SentOK(r) /\ Held(r)
    BY DEF RoundInv
  <2>2. SentOK(r)'
    BY <1>2, <2>1 DEF SentOK, IsSent
  <2>3. Held(r)'
    <3> SUFFICES ASSUME IsSent(r), ~sent[r].gone, clock <= sent[r].at + TTL, MappingOf(r) # <<>>
                 PROVE  r \in DOMAIN vault'
      BY <1>2 DEF Held, IsSent, MappingOf
    <3>1. r \in DOMAIN vault /\ vault[r].expires = sent[r].at + TTL
      BY <2>1 DEF Held, RoundInv, EntryOK
    <3> QED BY <1>4, <3>1
  <2> QED BY <2>2, <2>3
<1>8. AnswerOK(r)'
  <2>1. answer'[r] = [reply |-> reply, text |-> Restore(reply, Looked(r)),
                      inTime |-> clock <= sent[r].at + TTL /\ ~sent[r].gone]
    BY <1>1 DEF RoundInv
  <2>2. Looked(r) = IF clock <= sent[r].at + TTL /\ ~sent[r].gone THEN MappingOf(r) ELSE <<>>
    BY <1>2, LookedUp
  <2>3. MappingOf(r)' = MappingOf(r) /\ IsSent(r)' = IsSent(r)
    BY <1>2 DEF MappingOf, IsSent
  <2> DEFINE inTime == clock <= sent[r].at + TTL /\ ~sent[r].gone
  <2>4. inTime \in BOOLEAN
    OBVIOUS
  <2>5. /\ answer'[r] = [reply |-> reply, text |-> Restore(reply, Looked(r)), inTime |-> inTime]
        /\ Looked(r) = IF inTime THEN MappingOf(r) ELSE <<>>
    BY <2>1, <2>2
  <2> HIDE DEF inTime
  <2> QED BY <1>2, <2>3, <2>4, <2>5 DEF AnswerOK
<1>9. ASSUME NEW id \in DOMAIN vault' PROVE EntryOK(id)'
  BY <1>2, <1>3, EntryStays
<1> QED
  <2>1. \A q \in Requests : SentOK(q)' /\ Held(q)' /\ AnswerOK(q)'
    BY <1>6, <1>7, <1>8
  <2> QED BY <1>2, <1>5, <1>9, <2>1 DEF RoundInv

(* A request whose entry is deleted or lost: its record says so.           *)
LEMMA Gone ==
  ASSUME RoundInv, NEW r \in Requests, IsSent(r), clock' = clock, answer'[r] = answer[r],
         sent'[r] = [sent[r] EXCEPT !.gone = TRUE]
  PROVE  SentOK(r)' /\ Held(r)' /\ AnswerOK(r)'
<1>1. SentOK(r) /\ AnswerOK(r)
  BY DEF RoundInv
<1>2. PICK scan \in Scans[r] :
        sent[r] = [style |-> scan.style, hits |-> scan.hits, text |-> Redacted(r, scan).text,
                   at |-> sent[r].at, gone |-> sent[r].gone]
  BY <1>1, SentIs
<1>3. /\ sent'[r] = [style |-> scan.style, hits |-> scan.hits, text |-> Redacted(r, scan).text,
                     at |-> sent[r].at, gone |-> TRUE]
      /\ sent[r].at \in 0..clock'
  <2> DEFINE old(gone) == [style |-> scan.style, hits |-> scan.hits, text |-> Redacted(r, scan).text,
                           at |-> sent[r].at, gone |-> gone]
  <2>1. ASSUME NEW s, NEW g, s = old(g), NEW t, t = [s EXCEPT !.gone = TRUE] PROVE t = old(TRUE)
    BY <2>1
  <2>2. sent[r] = old(sent[r].gone)
    BY <1>2
  <2> HIDE DEF old
  <2>3. sent'[r] = old(TRUE)
    BY <2>1, <2>2
  <2> QED BY <1>1, <2>3, SentIs DEF old
<1>4. /\ MappingOf(r)' = MappingOf(r) /\ sent'[r].text = sent[r].text /\ sent'[r].gone
      /\ IsSent(r)'
  BY <1>2, <1>3, SentRecords DEF MappingOf, IsSent
<1>5. SentOK(r)'
  BY <1>3 DEF SentOK
<1>6. Held(r)'
  BY <1>4 DEF Held
<1>7. AnswerOK(r)'
  BY <1>1, <1>4 DEF AnswerOK
<1> QED BY <1>5, <1>6, <1>7

(* A deletion takes the entry, and the record says so.                     *)
LEMMA RoundDelete ==
  ASSUME RoundInv, NEW r \in Requests, Delete(r)
  PROVE  RoundInv'
<1>1. /\ IsSent(r) /\ vault' = Without(r) /\ clock' = clock /\ answer' = answer
      /\ DOMAIN sent' = Requests /\ sent'[r] = [sent[r] EXCEPT !.gone = TRUE]
      /\ \A q \in Requests : q # r => sent'[q] = sent[q]
      /\ clock \in 0..MaxTime
  BY DEF Delete, RoundInv
<1>2. /\ DOMAIN vault' = DOMAIN vault \ {r} /\ \A id \in DOMAIN vault' : vault'[id] = vault[id]
  BY <1>1, WithoutKeeps
<1>3. \A q \in Requests : SentOK(q)' /\ Held(q)' /\ AnswerOK(q)'
  <2> SUFFICES ASSUME NEW q \in Requests PROVE SentOK(q)' /\ Held(q)' /\ AnswerOK(q)'
    OBVIOUS
  <2>1. CASE q = r
    BY <1>1, <2>1, Gone
  <2>2. CASE q # r
    BY <1>1, <1>2, <2>2, Untouched
  <2> QED BY <2>1, <2>2
<1>4. ASSUME NEW id \in DOMAIN vault' PROVE EntryOK(id)'
  <2>1. id \in DOMAIN vault /\ id # r /\ id \in Requests
    BY <1>2 DEF RoundInv, EntryOK
  <2> QED BY <1>1, <1>2, <2>1, EntryStays
<1> QED BY <1>1, <1>3, <1>4 DEF RoundInv

(* A restart takes what was in memory and no file.                         *)
LEMMA RoundRestart ==
  ASSUME RoundInv, Restart
  PROVE  RoundInv'
<1>1. clock' = clock /\ answer' = answer /\ clock \in 0..MaxTime
  BY DEF Restart, RoundInv
<1>2. CASE store = "file"
  <2>1. vault' = vault /\ sent' = sent
    BY <1>2 DEF Restart, AfterRestart
  <2>2. \A q \in Requests : SentOK(q)' /\ Held(q)' /\ AnswerOK(q)'
    BY <1>1, <2>1, Untouched
  <2>3. \A id \in DOMAIN vault' : EntryOK(id)'
    BY <2>1, EntryStays
  <2> QED BY <1>1, <2>1, <2>2, <2>3 DEF RoundInv
<1>3. CASE store # "file"
  <2>1. /\ vault' = <<>> /\ DOMAIN sent' = Requests
        /\ \A q \in Requests :
             sent'[q] = IF IsSent(q) THEN [sent[q] EXCEPT !.gone = TRUE] ELSE Unsent
    BY <1>3 DEF Restart, AfterRestart
  <2>2. \A q \in Requests : SentOK(q)' /\ Held(q)' /\ AnswerOK(q)'
    <3> SUFFICES ASSUME NEW q \in Requests PROVE SentOK(q)' /\ Held(q)' /\ AnswerOK(q)'
      OBVIOUS
    <3>1. CASE IsSent(q)
      BY <1>1, <2>1, <3>1, Gone
    <3>2. CASE ~IsSent(q)
      <4>1. ~IsSent(q)' /\ answer'[q] = NoAnswer
        BY <1>1, <2>1, <3>2 DEF IsSent, RoundInv, AnswerOK
      <4> QED BY <4>1 DEF SentOK, Held, AnswerOK
    <3> QED BY <3>1, <3>2
  <2>3. DOMAIN vault' = {}
    BY <2>1
  <2> QED BY <1>1, <2>1, <2>2, <2>3 DEF RoundInv
<1> QED BY <1>2, <1>3

(* Every step keeps the invariant.                                         *)
LEMMA RoundNext == RoundInv /\ [Next]_vars => RoundInv'
<1> SUFFICES ASSUME RoundInv, [Next]_vars PROVE RoundInv'
  OBVIOUS
<1>1. ASSUME NEW r \in Requests, Sanitize(r) PROVE RoundInv'
  BY <1>1, RoundSanitize
<1>2. ASSUME NEW r \in Requests, Unredact(r) PROVE RoundInv'
  BY <1>2, RoundUnredact
<1>3. ASSUME NEW r \in Requests, Delete(r) PROVE RoundInv'
  BY <1>3, RoundDelete
<1>4. ASSUME UNCHANGED <<vault, sent, answer>>, clock' \in {clock, clock + 1}, clock' \in 0..MaxTime
      PROVE  RoundInv'
  <2>1. \A q \in Requests : SentOK(q)' /\ Held(q)' /\ AnswerOK(q)'
    BY <1>4, Untouched
  <2>2. \A id \in DOMAIN vault' : EntryOK(id)'
    BY <1>4, EntryStays
  <2> QED BY <1>4, <2>1, <2>2 DEF RoundInv
<1>5. CASE TimePasses
  <2>1. clock' \in 0..MaxTime
    BY <1>5, RoundTripAssumption DEF TimePasses, RoundInv, RoundTripAssumption
  <2> QED BY <1>4, <1>5, <2>1 DEF TimePasses
<1>6. CASE Restart
  BY <1>6, RoundRestart
<1>7. CASE UNCHANGED vars
  BY <1>4, <1>7 DEF vars, RoundInv
<1> QED BY <1>1, <1>2, <1>3, <1>5, <1>6, <1>7 DEF Next

(* What the invariant says of the types, the redactions and the answers.   *)
LEMMA RoundTypes == RoundInv /\ ExpiriesOK => TypeOK
<1> SUFFICES ASSUME RoundInv, ExpiriesOK PROVE TypeOK
  OBVIOUS
<1>1. ASSUME NEW id \in DOMAIN vault, NEW e \in Range(vault[id].mapping)
      PROVE  e[1][1] \notin Requests /\ Range(e[2]) \subseteq Range(Text(id))
  <2>1. id \in Requests /\ IsSent(id) /\ vault[id].mapping = MappingOf(id) /\ SentOK(id)
    BY DEF RoundInv, EntryOK
  <2>2. PICK scan \in Scans[id] : MappingOf(id) = Redacted(id, scan).mapping
    BY <2>1, SentIs
  <2> QED BY <2>1, <2>2, MappingTyped
<1>2. ASSUME NEW r \in Requests, IsSent(r)
      PROVE  \E scan \in Scans[r] : scan.hits = sent[r].hits /\ scan.style = sent[r].style
  BY <1>2 DEF RoundInv, SentOK
<1> QED BY <1>1, <1>2 DEF TypeOK, ExpiriesOK

(* The redactions of the invariant leave no flagged text.                  *)
LEMMA RoundClears == RoundInv => NoFlaggedTextLeft
<1> SUFFICES ASSUME RoundInv, NEW r \in Requests, NEW m \in Range(sent[r].hits)
             PROVE  \E a \in Range(sent[r].hits) :
                      /\ a = m \/ Overlaps(a, m)
                      /\ ComesFirst(a, m, sent[r].style)
                      /\ InClear(r, a) = {}
  BY DEF NoFlaggedTextLeft
<1>1. IsSent(r)
  <2>1. Range(<<>>) = {}
    BY DEF Range
  <2> QED BY <2>1 DEF IsSent, Unsent
<1>2. PICK scan \in Scans[r] : /\ sent[r].style = scan.style /\ sent[r].hits = scan.hits
                               /\ sent[r].text = Redacted(r, scan).text
  BY <1>1 DEF RoundInv, SentOK
<1>3. PICK a \in Range(scan.hits) :
        /\ a = m \/ Overlaps(a, m)
        /\ ComesFirst(a, m, scan.style)
        /\ Range(Stretch(Text(r), a)) \cap Range(Redacted(r, scan).text) = {}
  BY <1>2, ScanClears
<1> QED BY <1>2, <1>3 DEF InClear

(* The answers of the invariant are the restored texts.                    *)
LEMMA RoundRestores == RoundInv => UnredactRestores
<1> SUFFICES ASSUME RoundInv, NEW r \in Requests, answer[r] # NoAnswer,
                    sent[r].style \in {"numbered", "presidio"}
             PROVE  LET a == answer[r]
                        s == sent[r]
                    IN IF ~a.inTime
                       THEN a.text = a.reply
                       ELSE /\ a.reply = s.text => a.text = Text(r)
                            /\ a.reply = s.text \o s.text => a.text = Text(r) \o Text(r)
                            /\ Range(a.text) = Range(Text(r))
                            /\ Len(a.text) \in {Length, 2 * Length}
  BY DEF UnredactRestores
<1>1. /\ IsSent(r) /\ answer[r].reply \in Replies(sent[r].text) /\ answer[r].inTime \in BOOLEAN
      /\ answer[r].text = Restore(answer[r].reply, IF answer[r].inTime THEN MappingOf(r) ELSE <<>>)
      /\ SentOK(r)
  BY DEF RoundInv, AnswerOK
<1>2. PICK scan \in Scans[r] : /\ sent[r].style = scan.style /\ sent[r].text = Redacted(r, scan).text
                               /\ MappingOf(r) = Redacted(r, scan).mapping
  <2>1. PICK scan \in Scans[r] :
          /\ sent[r] = [style |-> scan.style, hits |-> scan.hits,
                        text |-> Redacted(r, scan).text, at |-> sent[r].at, gone |-> sent[r].gone]
          /\ MappingOf(r) = Redacted(r, scan).mapping
    BY <1>1, SentIs
  <2>2. sent[r].style = scan.style /\ sent[r].text = Redacted(r, scan).text
    BY <2>1
  <2> QED BY <2>1, <2>2
<1>3. CASE ~answer[r].inTime
  BY <1>1, <1>2, <1>3, UntouchedWithout
<1>4. CASE answer[r].inTime
  BY <1>1, <1>2, <1>4, RepliesRestored
<1> QED BY <1>3, <1>4

(* The invariant holds always.                                             *)
LEMMA RoundHolds == Spec => []RoundInv
<1> QED BY RoundInit, RoundNext, PTL DEF Spec

(* The vault holds mappings of placeholders to stretches of the text of    *)
(* the request they are filed under, expiring at most TTL ahead, and what  *)
(* was sent is a scan of it (protector.py:266-272, local/vault.py:30-58).  *)
THEOREM Types == Spec => []TypeOK
BY RoundHolds, RoundTypes, Expiries, PTL

(* No flagged text is left in clear unless a hit that comes first claims   *)
(* part of it, whatever hits the detectors find in texts of any length     *)
(* (redaction.py:50 and 108-128, presidio_backend.py:113-121).             *)
THEOREM Cleared == Spec => []NoFlaggedTextLeft
BY RoundHolds, RoundClears, PTL

(* A reply that comes back while the entry is live is restored to the      *)
(* original characters, and a later one comes back as it is, never with    *)
(* another request's text (protector.py:178-182, redaction.py:131-149,     *)
(* local/vault.py:30-44 and 88-108).                                       *)
THEOREM Restores == Spec => []UnredactRestores
BY RoundHolds, RoundRestores, PTL
=============================================================================
