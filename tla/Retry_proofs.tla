---------------------------- MODULE Retry_proofs ----------------------------
(***************************************************************************)
(* Proofs about Retry, Replies and JudgeCall, for every number of retries, *)
(* timeout, delays, teams of judges and replies of their models.           *)
(***************************************************************************)
EXTENDS JudgeCall, FiniteSetTheorems, SequenceTheorems, TLAPS

(* Twice the time n attempts and m backoffs may take. *)
Budget(n, m) == 2 * (n * Timeout) + 3 * (m * MaxDelay)

(* When the current wait is over the call is still within the budget of the *)
(* attempts and backoffs made so far.                                      *)
BudgetInv ==
  /\ phase = "calling" => 2 * due <= Budget(attempt + 1, attempt)
  /\ phase = "backoff" => attempt < MaxRetries /\ 2 * due <= Budget(attempt + 1, attempt + 1)
  /\ phase = "backoff" => last \in {"transient", "timeout"}
  /\ WithinBudget

IInv == TypeOK /\ BudgetInv /\ RaisesOnlyWhenDone

LEMMA DelayType ==
  ASSUME NEW a \in Nat
  PROVE  Delay(a) \in Int /\ Delay(a) <= MaxDelay
<1>1. BaseDelay * 2 ^ a \in Int
  BY RetryAssumption
<1> QED BY <1>1, RetryAssumption DEF Delay

LEMMA BudgetGrows ==
  ASSUME NEW n \in Nat, NEW m \in Nat, n <= MaxRetries + 1, m <= MaxRetries
  PROVE  /\ Budget(n, m) \in Nat
         /\ Budget(n, m) <= Budget(MaxRetries + 1, MaxRetries)
         /\ Budget(n + 1, m) = Budget(n, m) + 2 * Timeout
         /\ Budget(n, m + 1) = Budget(n, m) + 3 * MaxDelay
<1>1. n * Timeout <= (MaxRetries + 1) * Timeout
  BY RetryAssumption
<1>2. m * MaxDelay <= MaxRetries * MaxDelay
  BY RetryAssumption
<1>3. n * Timeout \in Nat /\ m * MaxDelay \in Nat
      /\ (MaxRetries + 1) * Timeout \in Nat /\ MaxRetries * MaxDelay \in Nat
  BY RetryAssumption
<1>4. (n + 1) * Timeout = n * Timeout + Timeout /\ (m + 1) * MaxDelay = m * MaxDelay + MaxDelay
  BY RetryAssumption
<1> QED BY <1>1, <1>2, <1>3, <1>4, RetryAssumption DEF Budget

LEMMA InitIInv == Init => IInv
<1> SUFFICES ASSUME Init PROVE IInv
  OBVIOUS
<1>1. TypeOK /\ RaisesOnlyWhenDone
  BY RetryAssumption DEF Init, TypeOK, RaisesOnlyWhenDone
<1>2. 2 * due <= Budget(attempt + 1, attempt)
  BY RetryAssumption DEF Init, Budget
<1>3. WithinBudget
  BY RetryAssumption, BudgetGrows, 0 <= Budget(MaxRetries + 1, MaxRetries)
  DEF Init, WithinBudget, Budget
<1> QED BY <1>1, <1>2, <1>3 DEF IInv, BudgetInv, Init

(* The except clause, whatever the attempt ended with. *)
LEMMA FailKeepsIInv ==
  ASSUME IInv, phase = "calling", NEW e \in Errors, Fail(e)
  PROVE  IInv'
<1> USE DEF IInv
<1>1. CASE ~IsTransient(e) \/ Exhausted
  <2>1. phase' = "raised" /\ UNCHANGED <<due, attempt, now>> /\ last' = e
    BY <1>1 DEF Fail
  <2>2. RaisesOnlyWhenDone'
    BY <1>1, <2>1, RetryAssumption DEF RaisesOnlyWhenDone, IsTransient, Exhausted, TypeOK
  <2> QED BY <2>1, <2>2 DEF TypeOK, BudgetInv, WithinBudget
<1>2. CASE IsTransient(e) /\ ~Exhausted
  <2>1. PICK d \in Jittered(attempt) : due' = now + d
    BY <1>2 DEF Fail
  <2>2. phase' = "backoff" /\ UNCHANGED <<attempt, now>> /\ last' = e
    BY <1>2 DEF Fail
  <2>3. d \in Nat /\ 2 * d <= 3 * MaxDelay
    BY DelayType, RetryAssumption DEF Jittered, TypeOK
  <2>4. attempt < MaxRetries
    BY <1>2, RetryAssumption DEF Exhausted, TypeOK
  <2>5. 2 * due' <= Budget(attempt + 1, attempt + 1)
    <3>1. 2 * now <= Budget(attempt + 1, attempt)
      BY BudgetGrows, RetryAssumption DEF TypeOK, BudgetInv
    <3>2. Budget(attempt + 1, attempt + 1) = Budget(attempt + 1, attempt) + 3 * MaxDelay
          /\ Budget(attempt + 1, attempt) \in Nat
      BY <2>4, BudgetGrows, RetryAssumption DEF TypeOK
    <3> QED BY <2>1, <2>3, <3>1, <3>2, RetryAssumption DEF TypeOK
  <2>6. TypeOK'
    BY <2>1, <2>2, <2>3 DEF TypeOK
  <2> QED BY <1>2, <2>2, <2>4, <2>5, <2>6
          DEF BudgetInv, WithinBudget, RaisesOnlyWhenDone, IsTransient
<1> QED BY <1>1, <1>2

LEMMA WakeKeepsIInv == IInv /\ Wake => IInv'
<1> SUFFICES ASSUME IInv, Wake PROVE IInv'
  OBVIOUS
<1> USE DEF IInv, Wake
<1>1. attempt \in Nat /\ attempt < MaxRetries /\ 2 * now <= Budget(attempt + 1, attempt + 1)
  BY DEF BudgetInv, TypeOK
<1>2. Budget(attempt + 2, attempt + 1) = Budget(attempt + 1, attempt + 1) + 2 * Timeout
      /\ Budget(attempt + 1, attempt + 1) \in Nat
  <2>1. attempt + 1 \in Nat /\ attempt + 1 <= MaxRetries /\ (attempt + 1) + 1 = attempt + 2
    BY <1>1, RetryAssumption
  <2> QED BY <2>1, BudgetGrows, RetryAssumption
<1>3. 2 * due' <= Budget(attempt' + 1, attempt')
  BY <1>1, <1>2, RetryAssumption DEF TypeOK
<1>4. TypeOK'
  BY <1>1, RetryAssumption DEF TypeOK
<1> QED BY <1>3, <1>4 DEF BudgetInv, WithinBudget, RaisesOnlyWhenDone

LEMMA TickKeepsIInv == IInv /\ Tick => IInv'
<1> SUFFICES ASSUME IInv, Tick PROVE IInv'
  OBVIOUS
<1> USE DEF IInv, Tick
<1>1. now + 1 <= due /\ attempt \in Nat /\ attempt <= MaxRetries
  BY RetryAssumption DEF TypeOK
<1>2. TypeOK'
  BY <1>1 DEF TypeOK
<1>3. 2 * due <= Budget(MaxRetries + 1, MaxRetries)
  <2>1. CASE phase = "calling"
    BY <1>1, <2>1, BudgetGrows, RetryAssumption DEF BudgetInv, TypeOK
  <2>2. CASE phase = "backoff"
    <3>1. attempt + 1 <= MaxRetries /\ 2 * due <= Budget(attempt + 1, attempt + 1)
      BY <2>2, RetryAssumption DEF BudgetInv, TypeOK
    <3> QED BY <1>1, <3>1, BudgetGrows, RetryAssumption DEF TypeOK
  <2> QED BY <2>1, <2>2
<1>4. WithinBudget'
  BY <1>1, <1>3, BudgetGrows, RetryAssumption DEF WithinBudget, Budget, TypeOK
<1> QED BY <1>2, <1>4 DEF BudgetInv, RaisesOnlyWhenDone

THEOREM Invariance == Spec => []IInv
<1>1. Init => IInv
  BY InitIInv
<1>2. IInv /\ [Next]_vars => IInv'
  <2> SUFFICES ASSUME IInv, [Next]_vars PROVE IInv'
    OBVIOUS
  <2>1. CASE Return
    BY <2>1 DEF Return, IInv, TypeOK, BudgetInv, WithinBudget, RaisesOnlyWhenDone
  <2>2. CASE Raise
    BY <2>2, FailKeepsIInv DEF Raise
  <2>3. CASE TimesOut
    BY <2>3, FailKeepsIInv DEF TimesOut, Errors
  <2>4. CASE Wake
    BY <2>4, WakeKeepsIInv
  <2>5. CASE Cancel
    <3>1. CASE phase = "calling" /\ Fail("cancelled")
      BY <3>1, FailKeepsIInv DEF Errors
    <3>2. CASE phase = "backoff" /\ phase' = "raised" /\ last' = "cancelled"
               /\ UNCHANGED <<attempt, now, due>>
      BY <3>2 DEF IInv, TypeOK, BudgetInv, WithinBudget, RaisesOnlyWhenDone, Errors
    <3> QED BY <2>5, <3>1, <3>2 DEF Cancel
  <2>6. CASE Tick
    BY <2>6, TickKeepsIInv
  <2>7. CASE UNCHANGED vars
    BY <2>7 DEF vars, IInv, TypeOK, BudgetInv, WithinBudget, RaisesOnlyWhenDone
  <2> QED BY <2>1, <2>2, <2>3, <2>4, <2>5, <2>6, <2>7 DEF Next, Ended
<1> QED BY <1>1, <1>2, PTL DEF Spec

(* The state is well typed: no attempt beyond max_retries, and no timer    *)
(* overrun (_retry.py:57-71).                                              *)
THEOREM TypeCorrect == Spec => []TypeOK
BY Invariance, PTL DEF IInv

(* The whole call fits in (max_retries + 1) timeouts and max_retries       *)
(* delays (protector.py:526-531).                                          *)
THEOREM CallFitsBudget == Spec => []WithinBudget
<1>1. IInv => WithinBudget
  BY DEF IInv, BudgetInv
<1> QED BY <1>1, Invariance, PTL

(* A transient error is only raised once the retries are spent             *)
(* (_retry.py:62).                                                         *)
THEOREM RetriesAreSpent == Spec => []RaisesOnlyWhenDone
<1>1. IInv => RaisesOnlyWhenDone
  BY DEF IInv
<1> QED BY <1>1, Invariance, PTL

(* No attempt follows anything but a transient error (_retry.py:62).       *)
THEOREM OnlyTransientRetried == Spec => RetriesOnlyTransient
<1>1. IInv /\ [Next]_vars => [attempt' # attempt => last \in {"transient", "timeout"}]_vars
  BY DEF IInv, BudgetInv, Next, Return, Raise, TimesOut, Wake, Cancel, Tick, Ended, Fail, vars
<1> QED BY <1>1, Invariance, PTL DEF Spec, RetriesOnlyTransient

-----------------------------------------------------------------------------
(* Replies: what _json.parse_json_object finds in a reply, of any length,  *)
(* is what JSON's grammar says.  First, what an induction over texts needs. *)

(* A set of naturals has a least member: the intervals below its members   *)
(* are finite sets, of which one is minimal.                               *)
LEMMA Least ==
  ASSUME NEW T, T \subseteq Nat, T # {}
  PROVE  \E m \in T : \A n \in T : m <= n
<1> DEFINE R == StrictSubsetOrdering(Nat)
           F == {0..n : n \in T}
<1>1. F \subseteq FiniteSubsetsOf(Nat) /\ F # {}
  <2>1. \A n \in Nat : IsFiniteSet(0..n) /\ 0..n \subseteq Nat
    BY FS_Interval
  <2> QED
    BY <2>1 DEF FiniteSubsetsOf
<1>2. \E x \in F : \A y \in F : ~ (<<y, x>> \in R)
  <2> HIDE DEF R, F
  <2>1. IsWellFoundedOn(R, FiniteSubsetsOf(Nat))
    BY FS_StrictSubsetOrderingWellFounded DEF R
  <2> QED BY <1>1, <2>1, WFMin
<1>3. PICK m \in T : \A n \in T : <<0..n, 0..m>> \notin R
  BY <1>2
<1>4. ASSUME NEW n \in T, n < m PROVE FALSE
  <2>1. 0..n \subseteq Nat /\ 0..m \subseteq Nat /\ 0..n \subseteq 0..m
    BY <1>4
  <2>2. m \in 0..m /\ m \notin 0..n
    BY <1>4
  <2> QED
    BY <1>3, <2>1, <2>2 DEF StrictSubsetOrdering
<1> QED
  BY <1>3, <1>4

(* A set with 0 that is closed under successor has all naturals.           *)
LEMMA NatSteps ==
  ASSUME NEW S, 0 \in S, \A n \in Nat : n \in S => n + 1 \in S
  PROVE  Nat \subseteq S
<1> SUFFICES ASSUME Nat \ S # {} PROVE FALSE
  OBVIOUS
<1>1. PICK m \in Nat \ S : \A n \in Nat \ S : m <= n
  BY Least
<1>2. m # 0 /\ m - 1 \in Nat /\ m - 1 \notin Nat \ S
  BY <1>1
<1>3. (m - 1) + 1 = m
  BY <1>1
<1> QED BY <1>1, <1>2, <1>3

(* A recursion over a measure has a solution: F turns functions into       *)
(* functions, and where a set of arguments measures less than a, what F    *)
(* makes of g at a depends on g there only.                                *)
Contracts(F, A, B, mu) ==
  /\ mu \in [A -> Nat] /\ F \in [[A -> B] -> [A -> B]] /\ B # {}
  /\ \A g \in [A -> B] : \A h \in [A -> B] : \A a \in A :
       (\A x \in A : mu[x] < mu[a] => g[x] = h[x]) => F[g][a] = F[h][a]
Solvable(F, A, B) == \E f \in [A -> B] : f = F[f]

LEMMA Recursion ==
  ASSUME NEW A, NEW B, NEW mu, NEW F, Contracts(F, A, B, mu)
  PROVE  Solvable(F, A, B)
<1> DEFINE Approx(n, g) == g \in [A -> B] /\ \A a \in A : mu[a] < n => g[a] = F[g][a]
           E == {n \in Nat : \E g : Approx(n, g)}
           U == {n \in Nat : \A g, h : Approx(n, g) /\ Approx(n, h) =>
                                \A a \in A : mu[a] < n => g[a] = h[a]}
<1>0. \A g \in [A -> B] : \A h \in [A -> B] : \A a \in A :
        (\A x \in A : mu[x] < mu[a] => g[x] = h[x]) => F[g][a] = F[h][a]
  BY DEF Contracts
<1>0a. \A a \in A : mu[a] \in Nat
  BY DEF Contracts
<1>0b. \A g \in [A -> B] : F[g] \in [A -> B]
  BY DEF Contracts
<1>1. 0 \in E
  <2>1. PICK b \in B : TRUE
    BY DEF Contracts
  <2> DEFINE g == [a \in A |-> b]
  <2>2. Approx(0, g)
    BY <1>0a
  <2> QED BY <2>2
<1>2. ASSUME NEW n \in Nat, n \in E PROVE n + 1 \in E
  <2>1. PICK g : Approx(n, g)
    BY <1>2
  <2>2. F[g] \in [A -> B]
    BY <1>0b, <2>1
  <2> DEFINE h == F[g]
  <2>3. ASSUME NEW a \in A, mu[a] < n + 1 PROVE h[a] = F[h][a]
    <3>1. \A x \in A : mu[x] < mu[a] => g[x] = h[x]
      BY <1>0a, <2>1, <2>3
    <3> HIDE DEF h
    <3>2. F[g][a] = F[h][a]
      BY <1>0, <2>1, <2>2, <3>1 DEF h
    <3> QED BY <3>2 DEF h
  <2>4. Approx(n + 1, h)
    BY <2>2, <2>3
  <2> QED BY <2>4
<1>3. 0 \in U
  BY <1>0a
<1>4. ASSUME NEW n \in Nat, n \in U PROVE n + 1 \in U
  <2> SUFFICES ASSUME NEW g, NEW h, Approx(n + 1, g), Approx(n + 1, h),
                      NEW a \in A, mu[a] < n + 1
               PROVE  g[a] = h[a]
    OBVIOUS
  <2>1. Approx(n, g) /\ Approx(n, h)
    BY <1>0a
  <2>2. \A x \in A : mu[x] < n => g[x] = h[x]
    BY <1>4, <2>1
  <2>3. \A x \in A : mu[x] < mu[a] => g[x] = h[x]
    BY <1>0a, <2>2
  <2>4. F[g][a] = F[h][a]
    BY <1>0, <2>1, <2>3
  <2> QED BY <2>4
<1>5. Nat \subseteq E /\ Nat \subseteq U
  <2> HIDE DEF E, U
  <2> QED BY <1>1, <1>2, <1>3, <1>4, NatSteps
<1> DEFINE G(n) == CHOOSE g : Approx(n, g)
           f == [a \in A |-> G(mu[a] + 1)[a]]
<1>6. \A n \in Nat : Approx(n, G(n))
  <2> TAKE n \in Nat
  <2>1. \E g : Approx(n, g)
    BY <1>5
  <2> HIDE DEF Approx
  <2> QED BY <2>1
<1> HIDE DEF G
<1>7. f \in [A -> B]
  <2>1. \A a \in A : G(mu[a] + 1) \in [A -> B]
    BY <1>0a, <1>6
  <2> QED BY <2>1
<1>8. ASSUME NEW a \in A PROVE f[a] = F[f][a]
  <2> DEFINE g == G(mu[a] + 1)
  <2>1. Approx(mu[a] + 1, g) /\ mu[a] \in Nat
    BY <1>0a, <1>6
  <2>2. f[a] = g[a]
    OBVIOUS
  <2> HIDE DEF g
  <2>3. ASSUME NEW x \in A, mu[x] < mu[a] PROVE f[x] = g[x]
    <3>1. mu[x] \in Nat /\ mu[x] + 1 \in Nat /\ mu[x] < mu[x] + 1
      BY <1>0a
    <3>2. Approx(mu[x] + 1, G(mu[x] + 1))
      BY <1>6, <3>1
    <3>3. Approx(mu[x] + 1, g)
      BY <1>0a, <2>1, <2>3
    <3>4. G(mu[x] + 1)[x] = g[x]
      <4> DEFINE k == mu[x] + 1
      <4> HIDE DEF Approx, k
      <4>1. k \in U /\ Approx(k, G(k)) /\ Approx(k, g) /\ mu[x] < k
        BY <1>5, <3>1, <3>2, <3>3 DEF k
      <4> QED BY <4>1 DEF k
    <3> QED BY <3>4
  <2>4. F[f][a] = F[g][a]
    <3> HIDE DEF f
    <3> QED BY <1>0, <1>7, <2>1, <2>3
  <2>5. g[a] = F[g][a]
    BY <2>1
  <2> HIDE DEF f
  <2> QED BY <2>2, <2>4, <2>5
<1>9. f = F[f]
  <2>1. F[f] \in [A -> B]
    BY <1>0b, <1>7
  <2> HIDE DEF f
  <2> QED BY <1>7, <1>8, <2>1
<1> QED
  BY <1>7, <1>9 DEF Solvable

(* A piece of a sequence, place by place.                                  *)
LEMMA PieceOf ==
  ASSUME NEW D, NEW t \in Seq(D), NEW a \in Nat, NEW b \in Nat, a <= b, b <= Len(t)
  PROVE  /\ SubSeq(t, a + 1, b) \in Seq(D)
         /\ Len(SubSeq(t, a + 1, b)) = b - a
         /\ \A i \in 1..(b - a) : SubSeq(t, a + 1, b)[i] = t[a + i]
         /\ SubSeq(t, a + 1, b) = [i \in 1..(b - a) |-> t[a + i]]
<1> DEFINE s == SubSeq(t, a + 1, b)
<1>1. Len(t) \in Nat
  OBVIOUS
<1>2. s \in Seq(D) /\ Len(s) = b - a
  BY <1>1, SubSeqProperties
<1>3. \A i \in 1..(b - a) : s[i] = t[a + i]
  <2> TAKE i \in 1..(b - a)
  <2>1. s[i] = t[(a + 1) + i - 1]
    BY <1>1, SubSeqProperties
  <2>2. (a + 1) + i - 1 = a + i
    OBVIOUS
  <2> QED BY <2>1, <2>2
<1>4. s = [i \in 1..Len(s) |-> s[i]]
  <2> HIDE DEF s
  <2> QED BY <1>2
<1>5. s = [i \in 1..(b - a) |-> t[a + i]]
  <2> HIDE DEF s
  <2> QED BY <1>2, <1>3, <1>4
<1> QED
  BY <1>2, <1>3, <1>5

(* A piece of a piece is a piece.                                          *)
LEMMA PieceOfPiece ==
  ASSUME NEW D, NEW t \in Seq(D), NEW o \in Nat, NEW n \in Nat, o <= n, n <= Len(t),
         NEW a \in Nat, NEW b \in Nat, a <= b, o + b <= n
  PROVE  SubSeq(SubSeq(t, o + 1, n), a + 1, b) = SubSeq(t, (o + a) + 1, o + b)
<1> DEFINE s == SubSeq(t, o + 1, n)
<1>1. s \in Seq(D) /\ Len(s) = n - o /\ \A i \in 1..(n - o) : s[i] = t[o + i]
  BY PieceOf
<1>2. SubSeq(s, a + 1, b) = [i \in 1..(b - a) |-> s[a + i]]
  <2>1. \A u \in Seq(D) : b <= Len(u) => SubSeq(u, a + 1, b) = [i \in 1..(b - a) |-> u[a + i]]
    BY PieceOf
  <2> HIDE DEF s
  <2>2. b <= Len(s)
    BY <1>1
  <2> QED BY <1>1, <2>1, <2>2
<1>3. SubSeq(t, (o + a) + 1, o + b) = [i \in 1..((o + b) - (o + a)) |-> t[(o + a) + i]]
  <2>1. o + a \in Nat /\ o + b \in Nat /\ o + a <= o + b /\ o + b <= Len(t)
    OBVIOUS
  <2> QED BY <2>1, PieceOf
<1>4. (o + b) - (o + a) = b - a /\ \A i \in 1..(b - a) : s[a + i] = t[(o + a) + i]
  <2> HIDE DEF s
  <2>1. \A i \in 1..(b - a) : a + i \in 1..(n - o) /\ o + (a + i) = (o + a) + i
    OBVIOUS
  <2> QED BY <1>1, <2>1
<1> QED
  BY <1>2, <1>3, <1>4


-----------------------------------------------------------------------------
(* The grammar of Replies unfolds as it is written: its recursions are     *)
(* over ever shorter sequences.                                            *)
Replied == Seq(Tokens)
Measure == [s \in Replied |-> Len(s)]

BodyStep(g, b) ==
  \/ b = <<>>
  \/ Len(b) > 1 /\ Head(b) = "escape" /\ g[SubSeq(b, 3, Len(b))]
  \/ b # <<>> /\ Head(b) \notin {"escape", "quote"} /\ g[Tail(b)]

LEMMA BodyUnfolds == \A b \in Replied : IsBody[b] <=> BodyStep(IsBody, b)
<1> DEFINE F == [g \in [Replied -> BOOLEAN] |-> [b \in Replied |-> BodyStep(g, b)]]
<1>1. F \in [[Replied -> BOOLEAN] -> [Replied -> BOOLEAN]]
  BY DEF BodyStep
<1>2. Measure \in [Replied -> Nat] /\ \A s \in Replied : Measure[s] = Len(s)
  BY DEF Measure, Replied
<1>3. Contracts(F, Replied, BOOLEAN, Measure)
  <2> SUFFICES ASSUME NEW g \in [Replied -> BOOLEAN], NEW h \in [Replied -> BOOLEAN],
                      NEW b \in Replied,
                      \A x \in Replied : Measure[x] < Measure[b] => g[x] = h[x]
               PROVE  BodyStep(g, b) = BodyStep(h, b)
    BY <1>1, <1>2 DEF Contracts
  <2>1. Len(b) > 1 => SubSeq(b, 3, Len(b)) \in Replied /\ Len(SubSeq(b, 3, Len(b))) < Len(b)
    BY DEF Replied
  <2>2. b # <<>> => Tail(b) \in Replied /\ Len(Tail(b)) < Len(b)
    BY DEF Replied
  <2>3. Len(b) > 1 => g[SubSeq(b, 3, Len(b))] = h[SubSeq(b, 3, Len(b))]
    BY <1>2, <2>1
  <2>4. b # <<>> => g[Tail(b)] = h[Tail(b)]
    BY <1>2, <2>2
  <2> QED BY <2>3, <2>4 DEF BodyStep
<1>4. PICK f \in [Replied -> BOOLEAN] : f = F[f]
  <2> HIDE DEF F
  <2>1. Solvable(F, Replied, BOOLEAN)
    BY <1>3, Recursion
  <2> QED BY <2>1 DEF Solvable
<1>5. f = [b \in Seq(Tokens) |-> BodyStep(f, b)]
  BY <1>4 DEF Replied
<1>6. IsBody = [b \in Seq(Tokens) |-> BodyStep(IsBody, b)]
  BY <1>5 DEF IsBody, BodyStep
<1> QED
  BY <1>6 DEF Replied

(* A member of the length n at the start of ms.                            *)
MemberStep(g, m, n) ==
  \/ n = 1 /\ m[1] \in PassValues
  \/ IsString(m)
  \/ n > 1 /\ m[1] = "open" /\ m[n] = "close" /\ g[SubSeq(m, 2, n - 1)]
MembersStep(g, ms) ==
  \/ ms = <<>>
  \/ \E n \in 1..Len(ms) : /\ MemberStep(g, SubSeq(ms, 1, n), n)
                           /\ g[SubSeq(ms, n + 1, Len(ms))]

LEMMA MembersUnfold == \A ms \in Replied : AreMembers[ms] <=> MembersStep(AreMembers, ms)
<1> DEFINE F == [g \in [Replied -> BOOLEAN] |-> [b \in Replied |-> MembersStep(g, b)]]
<1>1. F \in [[Replied -> BOOLEAN] -> [Replied -> BOOLEAN]]
  BY DEF MembersStep
<1>2. Measure \in [Replied -> Nat] /\ \A s \in Replied : Measure[s] = Len(s)
  BY DEF Measure, Replied
<1>3. Contracts(F, Replied, BOOLEAN, Measure)
  <2> SUFFICES ASSUME NEW g \in [Replied -> BOOLEAN], NEW h \in [Replied -> BOOLEAN],
                      NEW b \in Replied,
                      \A x \in Replied : Measure[x] < Measure[b] => g[x] = h[x]
               PROVE  MembersStep(g, b) = MembersStep(h, b)
    BY <1>1, <1>2 DEF Contracts
  <2>0. Len(b) \in Nat
    BY DEF Replied
  <2>1. ASSUME NEW n \in 1..Len(b)
        PROVE  /\ MemberStep(g, SubSeq(b, 1, n), n) = MemberStep(h, SubSeq(b, 1, n), n)
               /\ g[SubSeq(b, n + 1, Len(b))] = h[SubSeq(b, n + 1, Len(b))]
    <3> DEFINE m == SubSeq(b, 1, n)
               r == SubSeq(b, n + 1, Len(b))
    <3>1. m \in Replied /\ Len(m) = n
      BY <2>0 DEF Replied
    <3>2. r \in Replied /\ Len(r) < Len(b)
      BY <2>0 DEF Replied
    <3> HIDE DEF m, r
    <3>3. n > 1 => SubSeq(m, 2, n - 1) \in Replied /\ Len(SubSeq(m, 2, n - 1)) < Len(b)
      BY <2>0, <3>1 DEF Replied
    <3>4. n > 1 => g[SubSeq(m, 2, n - 1)] = h[SubSeq(m, 2, n - 1)]
      BY <1>2, <3>3
    <3>5. g[r] = h[r]
      BY <1>2, <3>2
    <3>6. MemberStep(g, m, n) = MemberStep(h, m, n)
      BY <3>4 DEF MemberStep
    <3> QED BY <3>5, <3>6 DEF m, r
  <2> QED BY <2>1 DEF MembersStep
<1>4. PICK f \in [Replied -> BOOLEAN] : f = F[f]
  <2> HIDE DEF F
  <2>1. Solvable(F, Replied, BOOLEAN)
    BY <1>3, Recursion
  <2> QED BY <2>1 DEF Solvable
<1>5. f = [b \in Seq(Tokens) |-> MembersStep(f, b)]
  BY <1>4 DEF Replied
<1>6. AreMembers = [b \in Seq(Tokens) |-> MembersStep(AreMembers, b)]
  BY <1>5 DEF AreMembers, MembersStep, MemberStep
<1> QED
  BY <1>6 DEF Replied

-----------------------------------------------------------------------------
(* The scan of _extract_balanced and the grammar agree: over the body of a *)
(* string, over a string, and over the members of an object the scan comes *)
(* out in the state it went in with, and an object ends where it begins to *)
(* count nothing.                                                          *)
(* The states of the scan.                                                 *)
State(d, q, e, n) == [depth |-> d, inString |-> q, escape |-> e, end |-> n]
States == [depth : Int, inString : BOOLEAN, escape : BOOLEAN, end : Nat]

(* A state is what its parts are.                                          *)
LEMMA StateIs ==
  ASSUME NEW s \in States
  PROVE  s = State(s.depth, s.inString, s.escape, s.end)
BY DEF States, State

(* What the updates of Scan make of a state.                               *)
LEMMA StateUpdates ==
  ASSUME NEW s \in States, NEW i \in Nat
  PROVE  /\ [s EXCEPT !.escape = FALSE] = State(s.depth, s.inString, FALSE, s.end)
         /\ [s EXCEPT !.escape = TRUE] = State(s.depth, s.inString, TRUE, s.end)
         /\ [s EXCEPT !.inString = ~@] = State(s.depth, ~s.inString, s.escape, s.end)
         /\ [s EXCEPT !.depth = @ + 1] = State(s.depth + 1, s.inString, s.escape, s.end)
         /\ [s EXCEPT !.depth = @ - 1, !.end = i] = State(s.depth - 1, s.inString, s.escape, i)
<1>1. ASSUME NEW v \in BOOLEAN, NEW t, t = [s EXCEPT !.escape = v]
      PROVE  t = State(s.depth, s.inString, v, s.end)
  <2>1. t \in States /\ t.depth = s.depth /\ t.inString = s.inString /\ t.escape = v /\ t.end = s.end
    BY <1>1 DEF States
  <2> QED BY <2>1, StateIs
<1>2. ASSUME NEW v \in BOOLEAN, NEW t, t = [s EXCEPT !.inString = v]
      PROVE  t = State(s.depth, v, s.escape, s.end)
  <2>1. t \in States /\ t.depth = s.depth /\ t.inString = v /\ t.escape = s.escape /\ t.end = s.end
    BY <1>2 DEF States
  <2> QED BY <2>1, StateIs
<1>3. ASSUME NEW v \in Int, NEW t, t = [s EXCEPT !.depth = v]
      PROVE  t = State(v, s.inString, s.escape, s.end)
  <2>1. t \in States /\ t.depth = v /\ t.inString = s.inString /\ t.escape = s.escape /\ t.end = s.end
    BY <1>3 DEF States
  <2> QED BY <2>1, StateIs
<1>4. ASSUME NEW v \in Int, NEW t, t = [s EXCEPT !.depth = v, !.end = i]
      PROVE  t = State(v, s.inString, s.escape, i)
  <2>1. t \in States /\ t.depth = v /\ t.inString = s.inString /\ t.escape = s.escape /\ t.end = i
    BY <1>4 DEF States
  <2> QED BY <2>1, StateIs
<1>5. (~s.inString) \in BOOLEAN /\ s.depth + 1 \in Int /\ s.depth - 1 \in Int
  BY DEF States
<1> QED
  BY <1>1, <1>2, <1>3, <1>4, <1>5

Plain(c) == c \notin {"escape", "quote", "open", "close"}
LEMMA ScanIs ==
  ASSUME NEW s \in States, NEW c, NEW i \in Nat
  PROVE  /\ s.end > 0 => Scan(s, c, i) = s
         /\ s.end = 0 /\ s.escape =>
              Scan(s, c, i) = State(s.depth, s.inString, FALSE, s.end)
         /\ s.end = 0 /\ ~s.escape /\ c = "escape" =>
              Scan(s, c, i) = State(s.depth, s.inString, TRUE, s.end)
         /\ s.end = 0 /\ ~s.escape /\ c = "quote" =>
              Scan(s, c, i) = State(s.depth, ~s.inString, s.escape, s.end)
         /\ s.end = 0 /\ ~s.escape /\ s.inString /\ c \notin {"escape", "quote"} =>
              Scan(s, c, i) = s
         /\ s.end = 0 /\ ~s.escape /\ ~s.inString /\ c = "open" =>
              Scan(s, c, i) = State(s.depth + 1, s.inString, s.escape, s.end)
         /\ s.end = 0 /\ ~s.escape /\ ~s.inString /\ c = "close" =>
              Scan(s, c, i) = State(s.depth - 1, s.inString, s.escape, IF s.depth = 1 THEN i ELSE 0)
         /\ s.end = 0 /\ ~s.escape /\ Plain(c) => Scan(s, c, i) = s
<1>0. s.end \in Nat
  BY DEF States
<1>1. s.end > 0 => Scan(s, c, i) = s
  BY DEF Scan
<1>2. ASSUME s.end = 0, s.escape PROVE Scan(s, c, i) = State(s.depth, s.inString, FALSE, s.end)
  <2>1. Scan(s, c, i) = [s EXCEPT !.escape = FALSE]
    BY <1>0, <1>2, ~(s.end > 0) DEF Scan
  <2> QED BY <2>1, StateUpdates
<1>3. ASSUME s.end = 0, ~s.escape, c = "escape"
      PROVE  Scan(s, c, i) = State(s.depth, s.inString, TRUE, s.end)
  <2>1. Scan(s, c, i) = [s EXCEPT !.escape = TRUE]
    BY <1>3, ~(s.end > 0) DEF Scan
  <2> QED BY <2>1, StateUpdates
<1>4. ASSUME s.end = 0, ~s.escape, c = "quote"
      PROVE  Scan(s, c, i) = State(s.depth, ~s.inString, s.escape, s.end)
  <2>1. Scan(s, c, i) = [s EXCEPT !.inString = ~@]
    BY <1>4, ~(s.end > 0) DEF Scan
  <2> QED BY <2>1, StateUpdates
<1>5. ASSUME s.end = 0, ~s.escape, s.inString, c \notin {"escape", "quote"} PROVE Scan(s, c, i) = s
  BY <1>5, ~(s.end > 0) DEF Scan
<1>6. ASSUME s.end = 0, ~s.escape, ~s.inString, c = "open"
      PROVE  Scan(s, c, i) = State(s.depth + 1, s.inString, s.escape, s.end)
  <2>1. Scan(s, c, i) = [s EXCEPT !.depth = @ + 1]
    BY <1>6, ~(s.end > 0) DEF Scan
  <2> QED BY <2>1, StateUpdates
<1>7. ASSUME s.end = 0, ~s.escape, ~s.inString, c = "close"
      PROVE  Scan(s, c, i) = State(s.depth - 1, s.inString, s.escape, IF s.depth = 1 THEN i ELSE 0)
  <2>1. Scan(s, c, i) = [s EXCEPT !.depth = @ - 1, !.end = IF s.depth = 1 THEN i ELSE 0]
    BY <1>7, ~(s.end > 0) DEF Scan
  <2>2. \A n \in Nat : [s EXCEPT !.depth = @ - 1, !.end = n] = State(s.depth - 1, s.inString, s.escape, n)
    BY StateUpdates
  <2>3. (IF s.depth = 1 THEN i ELSE 0) \in Nat
    OBVIOUS
  <2> QED BY <2>1, <2>2, <2>3
<1>8. ASSUME s.end = 0, ~s.escape, Plain(c) PROVE Scan(s, c, i) = s
  BY <1>8, ~(s.end > 0) DEF Scan, Plain
<1> QED
  BY <1>1, <1>2, <1>3, <1>4, <1>5, <1>6, <1>7, <1>8

Nested(k) == State(k, FALSE, FALSE, 0)
Quoted(k) == State(k, TRUE, FALSE, 0)
Escaped(k) == State(k, TRUE, TRUE, 0)
EndedAt(i) == State(0, FALSE, FALSE, i)

LEMMA ScanTyped ==
  ASSUME NEW s \in States, NEW c, NEW i \in Nat
  PROVE  Scan(s, c, i) \in States /\ Scan(s, c, i).end \in {s.end, i, 0}
<1>0. s.depth \in Int /\ s.inString \in BOOLEAN /\ s.escape \in BOOLEAN /\ s.end \in Nat
  BY DEF States
<1>1. \A d \in Int : \A q, e \in BOOLEAN : \A n \in Nat :
        State(d, q, e, n) \in States /\ State(d, q, e, n).end = n
  BY DEF State, States
<1>1a. TRUE \in BOOLEAN /\ FALSE \in BOOLEAN /\ (~s.inString) \in BOOLEAN
  BY <1>0
<1>1b. Scan(s, c, i) = s => Scan(s, c, i) \in States /\ Scan(s, c, i).end \in {s.end, i, 0}
  OBVIOUS
<1>2. CASE s.end > 0
  BY <1>1b, <1>2, ScanIs
<1>3. CASE s.end = 0 /\ s.escape
  <2>1. Scan(s, c, i) = State(s.depth, s.inString, FALSE, s.end)
    BY <1>3, ScanIs
  <2>2. State(s.depth, s.inString, FALSE, s.end) \in States /\ State(s.depth, s.inString, FALSE, s.end).end = s.end
    BY <1>0, <1>1, <1>1a, ZenonT(40)
  <2> QED BY <2>1, <2>2
<1>4. CASE s.end = 0 /\ ~s.escape /\ c = "escape"
  <2>1. Scan(s, c, i) = State(s.depth, s.inString, TRUE, s.end)
    BY <1>4, ScanIs
  <2>2. State(s.depth, s.inString, TRUE, s.end) \in States /\ State(s.depth, s.inString, TRUE, s.end).end = s.end
    BY <1>0, <1>1, <1>1a, Zenon
  <2> QED BY <2>1, <2>2
<1>5. CASE s.end = 0 /\ ~s.escape /\ c = "quote"
  <2>1. Scan(s, c, i) = State(s.depth, ~s.inString, s.escape, s.end)
    BY <1>5, ScanIs
  <2>2. State(s.depth, ~s.inString, s.escape, s.end) \in States /\ State(s.depth, ~s.inString, s.escape, s.end).end = s.end
    BY <1>0, <1>1, <1>1a, ZenonT(40)
  <2> QED BY <2>1, <2>2
<1>6. CASE s.end = 0 /\ ~s.escape /\ s.inString /\ c \notin {"escape", "quote"}
  BY <1>1b, <1>6, ScanIs
<1>7. CASE s.end = 0 /\ ~s.escape /\ ~s.inString /\ c = "open"
  <2>1. Scan(s, c, i) = State(s.depth + 1, s.inString, s.escape, s.end)
    BY <1>7, ScanIs
  <2> QED BY <1>0, <1>1, <2>1
<1>8. CASE s.end = 0 /\ ~s.escape /\ ~s.inString /\ c = "close"
  <2>1. Scan(s, c, i) = State(s.depth - 1, s.inString, s.escape, IF s.depth = 1 THEN i ELSE 0)
    BY <1>8, ScanIs
  <2> QED BY <1>0, <1>1, <2>1
<1>9. CASE s.end = 0 /\ ~s.escape /\ Plain(c)
  BY <1>1b, <1>9, ScanIs
<1> QED
  BY <1>0, <1>2, <1>3, <1>4, <1>5, <1>6, <1>7, <1>8, <1>9 DEF Plain

LEMMA ScanQuoted ==
  ASSUME NEW k \in Nat, NEW c, NEW i \in Nat
  PROVE  /\ Scan(Escaped(k), c, i) = Quoted(k)
         /\ c = "escape" => Scan(Quoted(k), c, i) = Escaped(k)
         /\ c = "quote" => Scan(Quoted(k), c, i) = Nested(k)
         /\ c \notin {"escape", "quote"} => Scan(Quoted(k), c, i) = Quoted(k)
<1> DEFINE x == Escaped(k)
           y == Quoted(k)
<1>1. x \in States /\ x.depth = k /\ x.inString = TRUE /\ x.escape = TRUE /\ x.end = 0
  BY DEF Escaped, State, States
<1>2. y \in States /\ y.depth = k /\ y.inString = TRUE /\ y.escape = FALSE /\ y.end = 0
  BY DEF Quoted, State, States
<1> HIDE DEF x, y
<1>3. Scan(x, c, i) = State(k, TRUE, FALSE, 0)
  <2>1. Scan(x, c, i) = State(x.depth, x.inString, FALSE, x.end)
    BY <1>1, ScanIs
  <2> QED BY <1>1, <2>1
<1>4. c = "escape" => Scan(y, c, i) = State(k, TRUE, TRUE, 0)
  <2>1. c = "escape" => Scan(y, c, i) = State(y.depth, y.inString, TRUE, y.end)
    BY <1>2, ScanIs
  <2> QED BY <1>2, <2>1
<1>5. c = "quote" => Scan(y, c, i) = State(k, FALSE, FALSE, 0)
  <2>1. c = "quote" => Scan(y, c, i) = State(y.depth, ~y.inString, y.escape, y.end)
    BY <1>2, ScanIs
  <2>2. (~y.inString) = FALSE
    BY <1>2
  <2> QED BY <1>2, <2>1, <2>2
<1>6. c \notin {"escape", "quote"} => Scan(y, c, i) = y
  BY <1>2, ScanIs
<1> QED
  BY <1>3, <1>4, <1>5, <1>6 DEF Escaped, Quoted, Nested, x, y

LEMMA ScanNested ==
  ASSUME NEW k \in Nat, NEW c, NEW i \in Nat
  PROVE  /\ c = "quote" => Scan(Nested(k), c, i) = Quoted(k)
         /\ c \in PassValues => Scan(Nested(k), c, i) = Nested(k)
         /\ c = "open" => Scan(Nested(k), c, i) = Nested(k + 1)
         /\ c = "close" /\ k > 1 => Scan(Nested(k), c, i) = Nested(k - 1)
         /\ c = "close" /\ k = 1 => Scan(Nested(k), c, i) = EndedAt(i)
<1> DEFINE x == Nested(k)
<1>1. x \in States /\ x.depth = k /\ x.inString = FALSE /\ x.escape = FALSE /\ x.end = 0
  BY DEF Nested, State, States
<1> HIDE DEF x
<1>2. c = "quote" => Scan(x, c, i) = State(k, TRUE, FALSE, 0)
  <2>1. c = "quote" => Scan(x, c, i) = State(x.depth, ~x.inString, x.escape, x.end)
    BY <1>1, ScanIs
  <2>2. (~x.inString) = TRUE
    BY <1>1
  <2> QED BY <1>1, <2>1, <2>2
<1>3. c = "open" => Scan(x, c, i) = State(k + 1, FALSE, FALSE, 0)
  <2>1. c = "open" => Scan(x, c, i) = State(x.depth + 1, x.inString, x.escape, x.end)
    BY <1>1, ScanIs
  <2> QED BY <1>1, <2>1
<1>4. c = "close" => Scan(x, c, i) = State(k - 1, FALSE, FALSE, IF k = 1 THEN i ELSE 0)
  <2>1. c = "close" => Scan(x, c, i) = State(x.depth - 1, x.inString, x.escape, IF x.depth = 1 THEN i ELSE 0)
    BY <1>1, ScanIs
  <2>2. /\ x.depth - 1 = k - 1 /\ (IF x.depth = 1 THEN i ELSE 0) = (IF k = 1 THEN i ELSE 0)
    BY <1>1
  <2>3. State(x.depth - 1, x.inString, x.escape, IF x.depth = 1 THEN i ELSE 0)
           = State(k - 1, FALSE, FALSE, IF k = 1 THEN i ELSE 0)
    BY <1>1, <2>2, Zenon
  <2> QED BY <2>1, <2>3, Zenon
<1>5. c \in PassValues => Scan(x, c, i) = x
  <2>1. c \in PassValues => Plain(c)
    BY DEF PassValues, Plain
  <2> QED BY <1>1, <2>1, ScanIs, ZenonT(40)
<1>6. c = "close" /\ k > 1 => Scan(x, c, i) = State(k - 1, FALSE, FALSE, 0)
  <2>1. k > 1 => (IF k = 1 THEN i ELSE 0) = 0
    OBVIOUS
  <2> QED BY <1>4, <2>1
<1>7. c = "close" /\ k = 1 => Scan(x, c, i) = State(0, FALSE, FALSE, i)
  <2>1. k = 1 => (IF k = 1 THEN i ELSE 0) = i /\ k - 1 = 0
    OBVIOUS
  <2> QED BY <1>4, <2>1
<1> QED
  BY <1>2, <1>3, <1>5, <1>6, <1>7 DEF Quoted, Nested, EndedAt, x

LEMMA ScanEnded ==
  ASSUME NEW s \in States, s.end > 0, NEW c, NEW i \in Nat
  PROVE  Scan(s, c, i) = s
BY ScanIs


(* f has the state after each place of the text; s stands in the text      *)
(* behind place p.                                                         *)
Scanned(f, text, start) ==
  /\ f \in [0..Len(text) -> States] /\ f[0] = Fresh
  /\ \A i \in 1..Len(text) :
       f[i] = IF i < start THEN f[i - 1] ELSE Scan(f[i - 1], text[i], i)
Stands(text, p, s) ==
  p + Len(s) <= Len(text) /\ \A k \in 1..Len(s) : text[p + k] = s[k]

(* One turn of the scan.                                                   *)
LEMMA Turn ==
  ASSUME NEW text \in Replied, NEW start \in Nat, NEW f, Scanned(f, text, start),
         NEW p \in Nat, start <= p + 1, p + 1 <= Len(text)
  PROVE  f[p + 1] = Scan(f[p], text[p + 1], p + 1)
<1>1. p + 1 \in 1..Len(text) /\ (p + 1) - 1 = p /\ ~(p + 1 < start)
  BY DEF Replied
<1> QED
  BY <1>1 DEF Scanned

(* Where a sequence stands its pieces stand.                               *)
LEMMA PieceStands ==
  ASSUME NEW text \in Replied, NEW p \in Nat, NEW s \in Replied, Stands(text, p, s),
         NEW a \in Nat, NEW b \in Nat, a <= b, b <= Len(s)
  PROVE  /\ SubSeq(s, a + 1, b) \in Replied
         /\ Len(SubSeq(s, a + 1, b)) = b - a
         /\ Stands(text, p + a, SubSeq(s, a + 1, b))
<1> DEFINE u == SubSeq(s, a + 1, b)
<1>0. Len(s) \in Nat /\ Len(text) \in Nat
  BY DEF Replied
<1>1. u \in Replied /\ Len(u) = b - a /\ \A i \in 1..(b - a) : u[i] = s[a + i]
  <2>1. s \in Seq(Tokens)
    BY DEF Replied
  <2> QED BY <2>1, PieceOf DEF Replied
<1> HIDE DEF u
<1>2. (p + a) + Len(u) <= Len(text)
  BY <1>0, <1>1 DEF Stands
<1>3. ASSUME NEW k \in 1..Len(u) PROVE text[(p + a) + k] = u[k]
  <2>1. a + k \in 1..Len(s) /\ p + (a + k) = (p + a) + k
    BY <1>0, <1>1, <1>3
  <2>2. text[p + (a + k)] = s[a + k]
    BY <2>1 DEF Stands
  <2> QED BY <1>1, <1>3, <2>1, <2>2
<1> QED
  BY <1>1, <1>2, <1>3 DEF Stands, u

(* The body of a string: nothing in it ends the string.                    *)
LEMMA BodyScanned ==
  ASSUME NEW text \in Replied, NEW start \in Nat, NEW f, Scanned(f, text, start), NEW k \in Nat,
         NEW b \in Replied, IsBody[b],
         NEW p \in Nat, start <= p + 1, Stands(text, p, b), f[p] = Quoted(k)
  PROVE  f[p + Len(b)] = Quoted(k)
<1> DEFINE Passes(s) == \A q \in Nat :
             (start <= q + 1 /\ Stands(text, q, s) /\ f[q] = Quoted(k)) => f[q + Len(s)] = Quoted(k)
           S == {n \in Nat : \A s \in Replied : Len(s) <= n /\ IsBody[s] => Passes(s)}
<1>0. Len(text) \in Nat /\ \A s \in Replied : Len(s) \in Nat /\ (Len(s) = 0 => s = <<>>)
  BY DEF Replied
<1>1. 0 \in S
  <2> SUFFICES ASSUME NEW s \in Replied, Len(s) <= 0, NEW q \in Nat, f[q] = Quoted(k)
               PROVE  f[q + Len(s)] = Quoted(k)
    OBVIOUS
  <2>1. Len(s) = 0 /\ q + 0 = q
    BY <1>0
  <2> QED BY <2>1
<1>2. ASSUME NEW n \in Nat, n \in S PROVE n + 1 \in S
  <2> SUFFICES ASSUME NEW s \in Replied, Len(s) <= n + 1, IsBody[s],
                      NEW q \in Nat, start <= q + 1, Stands(text, q, s), f[q] = Quoted(k)
               PROVE  f[q + Len(s)] = Quoted(k)
    OBVIOUS
  <2>0. Len(s) \in Nat /\ q + Len(s) <= Len(text)
    BY <1>0 DEF Stands
  <2>1. CASE s = <<>>
    <3>1. Len(s) = 0 /\ q + 0 = q
      BY <2>1
    <3> QED BY <3>1
  <2>2. CASE Len(s) > 1 /\ Head(s) = "escape" /\ IsBody[SubSeq(s, 3, Len(s))]
    <3> DEFINE r == SubSeq(s, 2 + 1, Len(s))
    <3>0. 2 \in Nat /\ 2 <= Len(s) /\ Len(s) <= Len(s)
      BY <2>0, <2>2
    <3>1. r \in Replied /\ Len(r) = Len(s) - 2 /\ Stands(text, q + 2, r)
      <4>1. \A a \in Nat : \A d \in Nat : a <= d /\ d <= Len(s) =>
              /\ SubSeq(s, a + 1, d) \in Replied
              /\ Len(SubSeq(s, a + 1, d)) = d - a
              /\ Stands(text, q + a, SubSeq(s, a + 1, d))
        BY PieceStands
      <4> HIDE DEF r
      <4>2. /\ SubSeq(s, 2 + 1, Len(s)) \in Replied
            /\ Len(SubSeq(s, 2 + 1, Len(s))) = Len(s) - 2
            /\ Stands(text, q + 2, SubSeq(s, 2 + 1, Len(s)))
        BY <2>0, <3>0, <4>1, Zenon
      <4> QED BY <4>2 DEF r
    <3>2. r = SubSeq(s, 3, Len(s))
      OBVIOUS
    <3>3. text[q + 1] = "escape"
      <4>1. s[1] = "escape" /\ 1 \in 1..Len(s)
        BY <2>0, <2>2 DEF Replied
      <4> HIDE DEF r
      <4> QED BY <4>1 DEF Stands
    <3>4. f[q + 1] = Escaped(k)
      BY <2>0, <2>2, <3>3, Turn, ScanQuoted
    <3>5. f[(q + 1) + 1] = Quoted(k)
      <4>1. q + 1 \in Nat /\ start <= (q + 1) + 1 /\ (q + 1) + 1 <= Len(text)
        BY <2>0, <2>2
      <4>2. f[(q + 1) + 1] = Scan(f[q + 1], text[(q + 1) + 1], (q + 1) + 1)
        BY <4>1, Turn
      <4> QED BY <3>4, <4>2, ScanQuoted
    <3>6. /\ (q + 1) + 1 = q + 2 /\ q + 2 \in Nat /\ start <= (q + 2) + 1
          /\ Len(r) <= n /\ (q + 2) + Len(r) = q + Len(s)
      <4> HIDE DEF r
      <4> QED BY <2>0, <2>2, <3>1
    <3>7. Passes(r)
      <4>1. IsBody[r] /\ r \in Replied
        BY <2>2, <3>1, <3>2
      <4> HIDE DEF r, Passes
      <4> QED BY <1>2, <3>6, <4>1
    <3> HIDE DEF r
    <3> QED BY <3>1, <3>5, <3>6, <3>7
  <2>3. CASE s # <<>> /\ Head(s) \notin {"escape", "quote"} /\ IsBody[Tail(s)]
    <3> DEFINE r == SubSeq(s, 1 + 1, Len(s))
    <3>0. Len(s) >= 1
      BY <1>0, <2>3
    <3>1. r \in Replied /\ Len(r) = Len(s) - 1 /\ Stands(text, q + 1, r)
      <4>1. 1 \in Nat /\ 1 <= Len(s) /\ Len(s) <= Len(s)
        BY <2>0, <3>0
      <4>2. /\ SubSeq(s, 1 + 1, Len(s)) \in Replied
            /\ Len(SubSeq(s, 1 + 1, Len(s))) = Len(s) - 1
            /\ Stands(text, q + 1, SubSeq(s, 1 + 1, Len(s)))
        BY <2>0, <4>1, PieceStands, Zenon
      <4> QED BY <4>2
    <3>2. r = Tail(s)
      BY <2>3 DEF Replied
    <3>3. text[q + 1] \notin {"escape", "quote"}
      <4>1. s[1] \notin {"escape", "quote"} /\ 1 \in 1..Len(s)
        BY <2>0, <2>3, <3>0 DEF Replied
      <4> HIDE DEF r
      <4> QED BY <4>1 DEF Stands
    <3>4. f[q + 1] = Quoted(k)
      <4>1. q + 1 <= Len(text)
        BY <1>0, <2>0, <3>0
      <4>2. f[q + 1] = Scan(f[q], text[q + 1], q + 1)
        BY <4>1, Turn
      <4> QED BY <3>3, <4>2, ScanQuoted
    <3>6. /\ q + 1 \in Nat /\ start <= (q + 1) + 1
          /\ Len(r) <= n /\ (q + 1) + Len(r) = q + Len(s)
      <4> HIDE DEF r
      <4> QED BY <2>0, <3>1
    <3>7. Passes(r)
      <4>1. IsBody[r] /\ r \in Replied
        BY <2>3, <3>1, <3>2
      <4> HIDE DEF r, Passes
      <4> QED BY <1>2, <3>6, <4>1
    <3> HIDE DEF r
    <3> QED BY <3>1, <3>4, <3>6, <3>7
  <2> QED BY <2>1, <2>2, <2>3, BodyUnfolds DEF BodyStep
<1>3. Nat \subseteq S
  <2> HIDE DEF S
  <2> QED BY <1>1, <1>2, NatSteps
<1>4. Passes(b)
  <2>1. Len(b) \in S
    BY <1>0, <1>3
  <2> HIDE DEF Passes
  <2> QED BY <1>0, <2>1
<1> QED
  BY <1>4

(* A string among members: its quotes are the only ones that count.        *)
LEMMA StringScanned ==
  ASSUME NEW text \in Replied, NEW start \in Nat, NEW f, Scanned(f, text, start), NEW k \in Nat,
         NEW m \in Replied, IsString(m),
         NEW p \in Nat, start <= p + 1, Stands(text, p, m), f[p] = Nested(k)
  PROVE  f[p + Len(m)] = Nested(k)
<1> DEFINE b == SubSeq(m, 1 + 1, Len(m) - 1)
           n == Len(m)
<1>0. n \in Nat /\ Len(text) \in Nat /\ n > 1 /\ p + n <= Len(text)
  BY DEF Replied, IsString, Stands
<1>1. text[p + 1] = "quote" /\ text[p + n] = "quote"
  <2>1. m[1] = "quote" /\ m[n] = "quote"
    BY <1>0 DEF IsString, Replied, Last
  <2> QED BY <1>0, <2>1 DEF Stands
<1>2. f[p + 1] = Quoted(k)
  <2>1. f[p + 1] = Scan(f[p], text[p + 1], p + 1)
    BY <1>0, Turn
  <2> QED BY <1>1, <2>1, ScanNested
<1>3. b \in Replied /\ Len(b) = n - 2 /\ Stands(text, p + 1, b) /\ IsBody[b]
  <2>1. b \in Replied /\ Len(b) = (n - 1) - 1 /\ Stands(text, p + 1, b)
    <3>1. 1 \in Nat /\ n - 1 \in Nat /\ 1 <= n - 1 /\ n - 1 <= Len(m)
      BY <1>0
    <3>2. /\ SubSeq(m, 1 + 1, n - 1) \in Replied
          /\ Len(SubSeq(m, 1 + 1, n - 1)) = (n - 1) - 1
          /\ Stands(text, p + 1, SubSeq(m, 1 + 1, n - 1))
      <4> HIDE DEF n
      <4> QED BY <3>1, PieceStands, Zenon
    <3> QED BY <3>2
  <2>2. IsBody[b] /\ (n - 1) - 1 = n - 2
    BY <1>0 DEF IsString
  <2> QED BY <2>1, <2>2
<1>4. f[(p + 1) + Len(b)] = Quoted(k)
  <2>1. p + 1 \in Nat /\ start <= (p + 1) + 1
    BY <1>0
  <2> HIDE DEF b
  <2> QED BY <1>2, <1>3, <2>1, BodyScanned
<1> DEFINE q == (p + 1) + Len(b)
<1>5. q \in Nat /\ q + 1 = p + n /\ start <= q + 1 /\ q + 1 <= Len(text)
  <2> HIDE DEF b, n
  <2> QED BY <1>0, <1>3
<1> HIDE DEF q, b, n
<1>6. f[q + 1] = Scan(f[q], text[q + 1], q + 1)
  BY <1>5, Turn
<1>7. f[q + 1] = Nested(k)
  BY <1>1, <1>4, <1>5, <1>6, ScanQuoted DEF q
<1> QED
  BY <1>5, <1>7 DEF n

(* The members of an object: the depth is the same behind them.            *)
LEMMA MembersScanned ==
  ASSUME NEW text \in Replied, NEW start \in Nat, NEW f, Scanned(f, text, start),
         NEW ms \in Replied, AreMembers[ms], NEW d \in Nat, d > 0,
         NEW p \in Nat, start <= p + 1, Stands(text, p, ms), f[p] = Nested(d)
  PROVE  f[p + Len(ms)] = Nested(d)
<1> DEFINE Passes(s) == \A q \in Nat : \A k \in Nat :
             (k > 0 /\ start <= q + 1 /\ Stands(text, q, s) /\ f[q] = Nested(k)) =>
               f[q + Len(s)] = Nested(k)
           S == {n \in Nat : \A s \in Replied : Len(s) <= n /\ AreMembers[s] => Passes(s)}
<1>0. Len(text) \in Nat /\ \A s \in Replied : Len(s) \in Nat /\ (Len(s) = 0 => s = <<>>)
  BY DEF Replied
<1>1. 0 \in S
  <2> SUFFICES ASSUME NEW s \in Replied, Len(s) <= 0, NEW q \in Nat, NEW k \in Nat, f[q] = Nested(k)
               PROVE  f[q + Len(s)] = Nested(k)
    OBVIOUS
  <2>1. Len(s) = 0 /\ q + 0 = q
    BY <1>0
  <2> QED BY <2>1
<1>2. ASSUME NEW n \in Nat, n \in S PROVE n + 1 \in S
  <2> SUFFICES ASSUME NEW s \in Replied, Len(s) <= n + 1, AreMembers[s],
                      NEW q \in Nat, NEW k \in Nat, k > 0,
                      start <= q + 1, Stands(text, q, s), f[q] = Nested(k)
               PROVE  f[q + Len(s)] = Nested(k)
    OBVIOUS
  <2>0. Len(s) \in Nat /\ q + Len(s) <= Len(text)
    BY <1>0 DEF Stands
  <2>1. CASE s = <<>>
    <3>1. Len(s) = 0 /\ q + 0 = q
      BY <2>1
    <3> QED BY <3>1
  <2>2. ASSUME NEW z \in 1..Len(s), MemberStep(AreMembers, SubSeq(s, 1, z), z),
               AreMembers[SubSeq(s, z + 1, Len(s))]
        PROVE  f[q + Len(s)] = Nested(k)
    <3> DEFINE m == SubSeq(s, 0 + 1, z)
               r == SubSeq(s, z + 1, Len(s))
    <3>0. z \in Nat /\ z >= 1 /\ z <= Len(s) /\ q + z \in Nat /\ q + 0 = q /\ z - 0 = z
      BY <2>0
    <3>1. m \in Replied /\ Len(m) = z /\ Stands(text, q, m)
      <4>1. m \in Replied /\ Len(m) = z - 0 /\ Stands(text, q + 0, m)
        <5>1. 0 \in Nat /\ 0 <= z
          BY <3>0
        <5>2. /\ SubSeq(s, 0 + 1, z) \in Replied
              /\ Len(SubSeq(s, 0 + 1, z)) = z - 0
              /\ Stands(text, q + 0, SubSeq(s, 0 + 1, z))
          BY <3>0, <5>1, PieceStands, Zenon
        <5> QED BY <5>2
      <4> QED BY <3>0, <4>1
    <3>2. r \in Replied /\ Len(r) = Len(s) - z /\ Stands(text, q + z, r)
      BY <2>0, <3>0, PieceStands
    <3>3. MemberStep(AreMembers, m, z) /\ AreMembers[r]
      <4>1. 0 + 1 = 1
        OBVIOUS
      <4> QED BY <2>2, <4>1
    <3> HIDE DEF m, r
    <3>4. text[q + 1] = m[1] /\ text[q + z] = m[z] /\ q + z <= Len(text)
      BY <3>0, <3>1 DEF Stands
    <3>5. f[q + z] = Nested(k)
      <4>1. CASE z = 1 /\ m[1] \in PassValues
        <5>1. f[q + 1] = Scan(f[q], text[q + 1], q + 1)
          BY <3>0, <3>4, <4>1, Turn
        <5> QED BY <3>4, <4>1, <5>1, ScanNested
      <4>2. CASE IsString(m)
        BY <3>1, <4>2, StringScanned
      <4>3. CASE z > 1 /\ m[1] = "open" /\ m[z] = "close" /\ AreMembers[SubSeq(m, 2, z - 1)]
        <5> DEFINE u == SubSeq(m, 1 + 1, z - 1)
        <5>1. u \in Replied /\ Len(u) = z - 2 /\ Stands(text, q + 1, u) /\ AreMembers[u]
          <6>1. u \in Replied /\ Len(u) = (z - 1) - 1 /\ Stands(text, q + 1, u)
            <7>1. 1 \in Nat /\ z - 1 \in Nat /\ 1 <= z - 1 /\ z - 1 <= Len(m)
              BY <3>0, <3>1, <4>3
            <7>2. /\ SubSeq(m, 1 + 1, z - 1) \in Replied
                  /\ Len(SubSeq(m, 1 + 1, z - 1)) = (z - 1) - 1
                  /\ Stands(text, q + 1, SubSeq(m, 1 + 1, z - 1))
              BY <3>1, <7>1, PieceStands, Zenon
            <7> QED BY <7>2
          <6>2. AreMembers[u] /\ (z - 1) - 1 = z - 2
            BY <3>0, <4>3
          <6> QED BY <6>1, <6>2
        <5> HIDE DEF u
        <5>2. f[q + 1] = Nested(k + 1)
          <6>1. f[q + 1] = Scan(f[q], text[q + 1], q + 1)
            BY <3>0, <3>4, <4>3, Turn
          <6> QED BY <3>4, <4>3, <6>1, ScanNested
        <5>3. f[(q + 1) + Len(u)] = Nested(k + 1)
          <6>1. Len(u) <= n /\ q + 1 \in Nat /\ start <= (q + 1) + 1 /\ k + 1 \in Nat /\ k + 1 > 0
            BY <2>0, <3>0, <4>3, <5>1
          <6>2. Passes(u)
            <7> HIDE DEF Passes
            <7> QED BY <1>2, <5>1, <6>1
          <6> QED BY <5>1, <5>2, <6>1, <6>2
        <5>4. f[q + z] = Scan(f[(q + 1) + Len(u)], text[q + z], q + z)
          <6>1. /\ (q + 1) + Len(u) \in Nat /\ ((q + 1) + Len(u)) + 1 = q + z
                /\ start <= ((q + 1) + Len(u)) + 1
            BY <3>0, <4>3, <5>1
          <6> DEFINE w == (q + 1) + Len(u)
          <6> HIDE DEF w
          <6>2. w \in Nat /\ w + 1 = q + z /\ start <= w + 1 /\ w + 1 <= Len(text)
            BY <3>4, <6>1 DEF w
          <6>3. f[w + 1] = Scan(f[w], text[w + 1], w + 1)
            BY <6>2, Turn
          <6> QED BY <6>2, <6>3 DEF w
        <5>5. Scan(Nested(k + 1), "close", q + z) = Nested(k)
          <6>1. k + 1 \in Nat /\ k + 1 > 1 /\ (k + 1) - 1 = k /\ q + z \in Nat
            BY <3>0
          <6>2. Scan(Nested(k + 1), "close", q + z) = Nested((k + 1) - 1)
            BY <6>1, ScanNested
          <6> QED BY <6>1, <6>2
        <5> QED BY <3>4, <4>3, <5>3, <5>4, <5>5
      <4> QED BY <3>3, <4>1, <4>2, <4>3 DEF MemberStep
    <3>6. f[(q + z) + Len(r)] = Nested(k)
      <4>1. Len(r) <= n /\ start <= (q + z) + 1
        BY <2>0, <3>0, <3>2
      <4>2. Passes(r)
        <5> HIDE DEF Passes
        <5> QED BY <1>2, <3>2, <3>3, <4>1
      <4> QED BY <3>0, <3>2, <3>5, <4>1, <4>2
    <3>7. (q + z) + Len(r) = q + Len(s)
      BY <2>0, <3>0, <3>2
    <3> QED BY <3>6, <3>7
  <2> QED BY <2>1, <2>2, MembersUnfold DEF MembersStep
<1>3. Nat \subseteq S
  <2> HIDE DEF S
  <2> QED BY <1>1, <1>2, NatSteps
<1>4. Passes(ms)
  <2>1. Len(ms) \in S
    BY <1>0, <1>3
  <2> HIDE DEF Passes
  <2> QED BY <1>0, <2>1
<1> QED
  BY <1>4

(* The object that begins where the scan does ends where the scan ends.    *)
LEMMA ObjectScanned ==
  ASSUME NEW text \in Replied, NEW start \in 1..Len(text), NEW f, Scanned(f, text, start),
         NEW j \in 1..Len(text), IsObject(SubSeq(text, start, j))
  PROVE  f[Len(text)].end = j
<1> DEFINE o == SubSeq(text, start, j)
           N == Len(text)
           p == start - 1
<1>0. N \in Nat /\ p \in Nat /\ p + 1 = start /\ start \in Nat /\ start >= 1 /\ text \in Seq(Tokens)
  BY DEF Replied
<1>1. /\ o \in Replied /\ Len(o) > 1 /\ Len(o) = j - p
      /\ o[1] = "open" /\ o[Len(o)] = "close" /\ AreMembers[SubSeq(o, 2, Len(o) - 1)]
  <2>1. o \in Replied /\ (start <= j => Len(o) = j - p) /\ (start > j => Len(o) = 0)
    BY <1>0 DEF Replied
  <2>2. Len(o) > 1 /\ Head(o) = "open" /\ Last(o) = "close" /\ AreMembers[SubSeq(o, 2, Len(o) - 1)]
    BY DEF IsObject
  <2> HIDE DEF o
  <2> QED BY <1>0, <2>1, <2>2 DEF Last, Replied
<1>2. Stands(text, p, o)
  <2>1. p <= j /\ j <= N /\ j \in Nat
    BY <1>0, <1>1
  <2>2. \A i \in 1..(j - p) : SubSeq(text, p + 1, j)[i] = text[p + i]
    BY <1>0, <2>1, PieceOf
  <2> QED BY <1>0, <1>1, <2>1, <2>2 DEF Stands
<1>3. f[p] = Nested(0)
  <2> DEFINE S == {i \in Nat : i < start => f[i] = Fresh}
  <2>1. 0 \in S
    BY DEF Scanned
  <2>2. ASSUME NEW i \in Nat, i \in S PROVE i + 1 \in S
    <3>1. i + 1 < start => i + 1 \in 1..N /\ (i + 1) - 1 = i
      BY <1>0
    <3> QED BY <2>2, <3>1 DEF Scanned
  <2>3. Nat \subseteq S
    <3> HIDE DEF S
    <3> QED BY <2>1, <2>2, NatSteps
  <2> QED BY <1>0, <2>3 DEF Fresh, Nested, State
<1> DEFINE b == SubSeq(o, 1 + 1, Len(o) - 1)
<1>4. b \in Replied /\ Len(b) = Len(o) - 2 /\ Stands(text, start, b) /\ AreMembers[b]
  <2>1. b \in Replied /\ Len(b) = (Len(o) - 1) - 1 /\ Stands(text, p + 1, b)
    <3> HIDE DEF o, p
    <3> QED BY <1>0, <1>1, <1>2, PieceStands
  <2> QED BY <1>0, <1>1, <2>1
<1>5. text[start] = "open" /\ text[j] = "close"
  BY <1>0, <1>1, <1>2 DEF Stands
<1>6. f[start] = Nested(1)
  <2>1. f[p + 1] = Scan(f[p], text[p + 1], p + 1)
    <3> HIDE DEF p
    <3> QED BY <1>0, Turn
  <2>2. Scan(Nested(0), "open", start) = Nested(0 + 1)
    BY <1>0, ScanNested
  <2> QED BY <1>0, <1>3, <1>5, <2>1, <2>2
<1>7. f[start + Len(b)] = Nested(1)
  <2> HIDE DEF b, p, o
  <2>1. start <= start + 1 /\ 1 \in Nat /\ 1 > 0
    BY <1>0
  <2> QED BY <1>0, <1>4, <1>6, <2>1, MembersScanned
<1>8. f[j] = EndedAt(j)
  <2> DEFINE w == start + Len(b)
  <2>1. w \in Nat /\ w + 1 = j /\ start <= w + 1 /\ w + 1 <= Len(text)
    BY <1>0, <1>1, <1>4
  <2> HIDE DEF w, b, o, p
  <2>2. f[w + 1] = Scan(f[w], text[w + 1], w + 1)
    BY <1>0, <2>1, Turn
  <2>3. Scan(Nested(1), "close", j) = EndedAt(j)
    BY <1>0, ScanNested
  <2> QED BY <1>5, <1>7, <2>1, <2>2, <2>3 DEF w
<1>9. \A i \in Nat : j + i <= N => f[j + i] = EndedAt(j)
  <2> DEFINE S == {i \in Nat : j + i <= N => f[j + i] = EndedAt(j)}
  <2>1. 0 \in S
    BY <1>0, <1>8
  <2>2. ASSUME NEW i \in Nat, i \in S PROVE i + 1 \in S
    <3> SUFFICES ASSUME j + (i + 1) <= N PROVE f[j + (i + 1)] = EndedAt(j)
      OBVIOUS
    <3>1. j + i \in Nat /\ (j + i) + 1 = j + (i + 1) /\ start <= (j + i) + 1 /\ j + i <= N
      BY <1>0, <1>1
    <3>2. f[j + i] = EndedAt(j)
      BY <2>2, <3>1
    <3>3. f[(j + i) + 1] = Scan(f[j + i], text[(j + i) + 1], (j + i) + 1)
      <4> DEFINE w == j + i
      <4> HIDE DEF w
      <4>1. w \in Nat /\ start <= w + 1 /\ w + 1 <= Len(text)
        BY <3>1 DEF w
      <4>2. f[w + 1] = Scan(f[w], text[w + 1], w + 1)
        BY <1>0, <4>1, Turn
      <4> QED BY <4>2 DEF w
    <3>4. EndedAt(j) \in States /\ EndedAt(j).end > 0
      BY <1>0 DEF EndedAt, State, States
    <3>5. Scan(EndedAt(j), text[(j + i) + 1], (j + i) + 1) = EndedAt(j)
      BY <3>4, ScanEnded
    <3> QED BY <3>1, <3>2, <3>3, <3>5
  <2>3. Nat \subseteq S
    <3> HIDE DEF S
    <3> QED BY <2>1, <2>2, NatSteps
  <2> QED BY <2>3
<1>10. f[N] = EndedAt(j)
  <2>1. N - j \in Nat /\ j + (N - j) = N
    BY <1>0
  <2> QED BY <1>9, <2>1
<1> QED
  BY <1>10 DEF EndedAt, State

(* What is extracted from a text whose first brace is at start: the object *)
(* that begins there if there is one, and nothing that is none.            *)
LEMMA Extracted ==
  ASSUME NEW text \in Replied, NEW start \in 1..Len(text), text[start] = "open",
         \A k \in 1..(start - 1) : text[k] # "open"
  PROVE  /\ \A j \in 1..Len(text) : IsObject(SubSeq(text, start, j)) =>
              ExtractBalanced(text) = SubSeq(text, start, j)
         /\ ExtractBalanced(text) # Unreadable =>
              \E j \in 1..Len(text) : /\ ExtractBalanced(text) = SubSeq(text, start, j)
                                      /\ IsObject(SubSeq(text, start, j))
<1> DEFINE N == Len(text)
           from == SelectInSeq(text, LAMBDA c : c = "open")
<1>0. N \in Nat /\ start \in Nat /\ start >= 1 /\ start <= N
  BY DEF Replied
<1>1. from = start
  <2> DEFINE I == {i \in 1..N : text[i] = "open"}
  <2>1. start \in I /\ \A i \in I : start <= i
    BY <1>0
  <2>2. from = IF I # {} THEN Min(I) ELSE 0
    BY DEF SelectInSeq
  <2>3. Min(I) = CHOOSE x \in I : \A y \in I : x <= y
    BY DEF Min
  <2>4. I \subseteq Nat
    OBVIOUS
  <2> HIDE DEF I, from
  <2>5. Min(I) = start
    <3>1. \E x \in I : \A y \in I : x <= y
      BY <2>1
    <3>2. Min(I) \in I /\ \A y \in I : Min(I) <= y
      <4> DEFINE P(x) == \A y \in I : x <= y
      <4>1. Min(I) = CHOOSE x \in I : P(x)
        BY <2>3
      <4> HIDE DEF P
      <4>2. Min(I) \in I /\ P(Min(I))
        BY <3>1, <4>1, Zenon DEF P
      <4> QED BY <4>2 DEF P
    <3>3. Min(I) \in Nat /\ Min(I) <= start /\ start <= Min(I)
      BY <2>1, <2>4, <3>2
    <3> QED BY <1>0, <3>3
  <2> QED BY <2>1, <2>2, <2>5
<1> HIDE DEF from
<1> DEFINE A == 0..N
           mu == [i \in A |-> i]
           At(g, i) == IF i = 0 THEN Fresh
                       ELSE IF i < from THEN g[i - 1] ELSE Scan(g[i - 1], text[i], i)
           F == [g \in [A -> States] |-> [i \in A |-> At(g, i)]]
<1>2. Fresh \in States
  BY DEF Fresh, States
<1>3. F \in [[A -> States] -> [A -> States]]
  <2>1. ASSUME NEW g \in [A -> States], NEW i \in A PROVE At(g, i) \in States
    <3>1. CASE i = 0
      BY <1>2, <3>1
    <3>2. CASE i # 0
      <4>1. i - 1 \in A /\ i \in Nat
        BY <1>0, <3>2
      <4>2. g[i - 1] \in States
        BY <4>1
      <4>3. Scan(g[i - 1], text[i], i) \in States
        BY <4>1, <4>2, ScanTyped
      <4> QED BY <3>2, <4>2, <4>3
    <3> QED BY <3>1, <3>2
  <2> HIDE DEF At
  <2> QED BY <2>1
<1>4. mu \in [A -> Nat] /\ \A i \in A : mu[i] = i
  BY <1>0
<1>5. Contracts(F, A, States, mu)
  <2> SUFFICES ASSUME NEW g \in [A -> States], NEW h \in [A -> States], NEW i \in A,
                      \A x \in A : mu[x] < mu[i] => g[x] = h[x]
               PROVE  At(g, i) = At(h, i)
    <3>1. States # {}
      BY <1>2
    <3> HIDE DEF mu, At, A
    <3> QED BY <1>3, <1>4, <3>1 DEF Contracts
  <2>1. CASE i # 0
    <3>1. i - 1 \in A /\ i - 1 < i
      BY <1>0, <2>1
    <3>2. g[i - 1] = h[i - 1]
      <4> HIDE DEF mu, A
      <4> QED BY <1>4, <3>1
    <3> QED BY <3>2
  <2> QED BY <2>1
<1>6. PICK f \in [A -> States] : f = F[f]
  <2> HIDE DEF A, F, mu
  <2>1. Solvable(F, A, States)
    BY <1>5, Recursion
  <2> QED BY <2>1 DEF Solvable
<1>7. f = [i \in 0..Len(text) |-> IF i = 0 THEN Fresh
             ELSE IF i < from THEN f[i - 1] ELSE Scan(f[i - 1], text[i], i)]
  <2>1. F[f] = [i \in A |-> At(f, i)]
    BY <1>6
  <2> QED BY <1>6, <2>1
<1> DEFINE scanned[i \in 0..Len(text)] ==
             IF i = 0 THEN Fresh
             ELSE IF i < from THEN scanned[i - 1] ELSE Scan(scanned[i - 1], text[i], i)
<1>8. scanned = [i \in 0..Len(text) |-> IF i = 0 THEN Fresh
             ELSE IF i < from THEN scanned[i - 1] ELSE Scan(scanned[i - 1], text[i], i)]
  BY <1>7
<1> DEFINE e == scanned[Len(text)].end
<1>9. ExtractBalanced(text) =
        IF from > 0 /\ e > 0 /\ IsJson(SubSeq(text, from, e)) THEN SubSeq(text, from, e) ELSE Unreadable
  BY DEF ExtractBalanced, from
<1> HIDE DEF scanned, F, At
<1>10. \A i \in Nat : i <= N => scanned[i] \in States /\ scanned[i].end <= i
  <2> DEFINE S == {i \in Nat : i <= N => scanned[i] \in States /\ scanned[i].end <= i}
  <2>1. 0 \in S
    BY <1>2, <1>8 DEF Fresh
  <2>2. ASSUME NEW i \in Nat, i \in S PROVE i + 1 \in S
    <3> SUFFICES ASSUME i + 1 <= N PROVE scanned[i + 1] \in States /\ scanned[i + 1].end <= i + 1
      OBVIOUS
    <3>1. i + 1 \in 0..Len(text) /\ i + 1 # 0 /\ (i + 1) - 1 = i
      BY <1>0
    <3>2. scanned[i + 1] = IF i + 1 < from THEN scanned[i] ELSE Scan(scanned[i], text[i + 1], i + 1)
      BY <1>8, <3>1
    <3>3. scanned[i] \in States /\ scanned[i].end <= i
      BY <2>2
    <3>4. CASE i + 1 < from
      BY <3>2, <3>3, <3>4 DEF States
    <3>5. CASE ~(i + 1 < from)
      <4> DEFINE s == Scan(scanned[i], text[i + 1], i + 1)
      <4>1. s \in States /\ s.end \in {scanned[i].end, i + 1, 0}
        BY <3>3, ScanTyped
      <4> HIDE DEF s
      <4>2. s.end <= i + 1
        BY <3>3, <4>1 DEF States
      <4> QED BY <3>2, <3>5, <4>1, <4>2 DEF s
    <3> QED BY <3>4, <3>5
  <2>3. Nat \subseteq S
    <3> HIDE DEF S
    <3> QED BY <2>1, <2>2, NatSteps
  <2> QED BY <2>3
<1>11. Scanned(scanned, text, start)
  <2>1. scanned \in [0..Len(text) -> States]
    <3>1. scanned = [i \in 0..Len(text) |-> scanned[i]]
      BY <1>8
    <3>2. \A i \in 0..Len(text) : scanned[i] \in States
      BY <1>0, <1>10
    <3> QED BY <3>1, <3>2
  <2>2. scanned[0] = Fresh
    BY <1>0, <1>8
  <2>3. \A i \in 1..Len(text) :
          scanned[i] = IF i < start THEN scanned[i - 1] ELSE Scan(scanned[i - 1], text[i], i)
    <3>1. \A i \in 1..Len(text) : i \in 0..Len(text) /\ i # 0
      BY <1>0
    <3> QED BY <1>1, <1>8, <3>1
  <2> QED BY <2>1, <2>2, <2>3 DEF Scanned
<1>12. e \in Nat /\ e <= N
  BY <1>0, <1>10 DEF States
<1> HIDE DEF e
<1>13. ASSUME NEW j \in 1..Len(text), IsObject(SubSeq(text, start, j))
       PROVE  ExtractBalanced(text) = SubSeq(text, start, j)
  <2>1. e = j
    BY <1>11, <1>13, ObjectScanned DEF e
  <2>2. IsJson(SubSeq(text, from, e)) /\ from > 0 /\ e > 0
    BY <1>0, <1>1, <1>13, <2>1 DEF IsJson
  <2> QED BY <1>1, <1>9, <2>1, <2>2
<1>14. ASSUME ExtractBalanced(text) # Unreadable
       PROVE  \E j \in 1..Len(text) : /\ ExtractBalanced(text) = SubSeq(text, start, j)
                                      /\ IsObject(SubSeq(text, start, j))
  <2> DEFINE o == SubSeq(text, start, e)
  <2>1. ExtractBalanced(text) = o /\ e \in 1..Len(text) /\ IsJson(o)
    BY <1>1, <1>9, <1>12, <1>14
  <2>2. o \in Seq(Tokens) /\ (start <= e => Len(o) > 0 /\ o[1] = "open") /\ (start > e => Len(o) = 0)
    BY <1>0, <1>12 DEF Replied
  <2> HIDE DEF o
  <2>3. Len(o) > 0 /\ Head(o) = "open"
    <3>1. Len(o) # 0
      BY <2>1, <2>2 DEF IsJson, IsObject, IsString
    <3> QED BY <1>0, <1>12, <2>2, <3>1
  <2>4. IsObject(o)
    BY <2>1, <2>2, <2>3 DEF IsJson, IsString, PassValues
  <2> QED BY <2>1, <2>4 DEF o
<1> QED
  BY <1>13, <1>14

(* Without a brace there is nothing to extract.                            *)
LEMMA NothingExtracted ==
  ASSUME NEW text \in Replied, \A i \in 1..Len(text) : text[i] # "open"
  PROVE  ExtractBalanced(text) = Unreadable
<1>1. SelectInSeq(text, LAMBDA c : c = "open") = 0
  BY DEF SelectInSeq
<1> QED
  BY <1>1 DEF ExtractBalanced

(* Whatever a generative model replies, prose around its object, braces,   *)
(* quotes and escapes in the object's strings and all, the judgement that  *)
(* is made of it is the one that JSON's grammar gives the object at its    *)
(* first brace, and there is one only (_json.py:16-65).                    *)
THEOREM JudgedAsMeant ==
  ASSUME NEW backend, NEW reply \in Seq(Tokens)
  PROVE  Meant(backend, reply) = {Judged(backend, reply)}
<1> DEFINE text == Prefilled(backend, reply)
           N == Len(text)
           First == {i \in DOMAIN text : text[i] = "open" /\ \A k \in 1..(i - 1) : text[k] # "open"}
           Objects == {o \in {SubSeq(text, i, j) : i \in First, j \in DOMAIN text} : IsObject(o)}
           Reading(o) == IF PassMember(o) \in {"true", "other"} THEN "pass" ELSE "fail"
           parsed == ParseJsonObject(text)
           value == IF text # <<>> /\ IsJson(text) THEN text ELSE ExtractBalanced(text)
<1>0. text \in Seq(Tokens)
  <2>1. <<"open">> \in Seq(Tokens)
    BY DEF Tokens
  <2> QED BY <2>1 DEF Prefilled
<1>1. Meant(backend, reply) =
        IF Objects = {} \/ IsString(text) THEN {"malformed"} ELSE {Reading(o) : o \in Objects}
  BY DEF Meant
<1>2. Judged(backend, reply) = IF parsed = Unreadable THEN "malformed" ELSE Reading(parsed)
  BY DEF Judged, Passed
<1>3. parsed = IF IsObject(value) THEN value ELSE Unreadable
  BY DEF ParseJsonObject
<1> HIDE DEF text, parsed
<1>4. N \in Nat /\ DOMAIN text = 1..N /\ text \in Replied
  BY <1>0 DEF Replied
<1>5. \A o : IsObject(o) => o # Unreadable
  BY DEF IsObject, Unreadable
<1>6. CASE \A i \in 1..N : text[i] # "open"
  <2>1. Objects = {}
    BY <1>4, <1>6
  <2>2. ~IsObject(text)
    BY <1>0, <1>4, <1>6 DEF IsObject
  <2>3. ExtractBalanced(text) = Unreadable
    BY <1>4, <1>6, NothingExtracted
  <2>4. parsed = Unreadable
    BY <1>3, <1>5, <2>2, <2>3
  <2> HIDE DEF Objects
  <2> QED BY <1>1, <1>2, <2>1, <2>4
<1>7. CASE \E i \in 1..N : text[i] = "open"
  <2>1. PICK start \in 1..N : text[start] = "open" /\ \A k \in 1..(start - 1) : text[k] # "open"
    <3> DEFINE I == {i \in 1..N : text[i] = "open"}
    <3>1. I \subseteq Nat /\ I # {}
      BY <1>7
    <3>2. PICK m \in I : \A i \in I : m <= i
      <4> HIDE DEF I
      <4> QED BY <3>1, Least
    <3>3. \A k \in 1..(m - 1) : k \in 1..N /\ ~(m <= k)
      BY <1>4, <3>2
    <3>4. \A k \in 1..(m - 1) : text[k] # "open"
      BY <3>2, <3>3
    <3> QED BY <3>2, <3>4
  <2>2. First = {start}
    <3>1. start \in First
      BY <1>4, <2>1
    <3>2. ASSUME NEW i \in First PROVE i = start
      <4>1. i \in 1..N /\ text[i] = "open" /\ \A k \in 1..(i - 1) : text[k] # "open"
        BY <1>4
      <4>2. ~(i < start) /\ ~(start < i)
        <5>1. i < start => i \in 1..(start - 1)
          BY <1>4, <2>1, <4>1
        <5>2. start < i => start \in 1..(i - 1)
          BY <1>4, <2>1, <4>1
        <5> QED BY <2>1, <4>1, <5>1, <5>2
      <4> QED BY <1>4, <2>1, <4>1, <4>2
    <3> QED BY <3>1, <3>2
  <2> DEFINE Here == {SubSeq(text, start, j) : j \in 1..N}
  <2>3. Objects = {o \in Here : IsObject(o)}
    <3> DEFINE All == {SubSeq(text, i, j) : i \in First, j \in DOMAIN text}
    <3>1. All \subseteq Here
      <4> DEFINE piece(i, j) == SubSeq(text, i, j)
      <4> HIDE DEF First, piece
      <4>1. ASSUME NEW x \in {piece(i, j) : i \in First, j \in DOMAIN text}
            PROVE  x \in {piece(start, j) : j \in 1..N}
        BY <1>4, <2>2, <4>1
      <4> QED BY <4>1 DEF piece
    <3>2. Here \subseteq All
      <4> DEFINE piece(i, j) == SubSeq(text, i, j)
      <4> HIDE DEF First, piece
      <4>1. ASSUME NEW x \in {piece(start, j) : j \in 1..N}
            PROVE  x \in {piece(i, j) : i \in First, j \in DOMAIN text}
        BY <1>4, <2>2, <4>1
      <4> QED BY <4>1 DEF piece
    <3>3. Objects = {o \in All : IsObject(o)}
      OBVIOUS
    <3> HIDE DEF All, Here, Objects
    <3> QED BY <3>1, <3>2, <3>3
  <2>4. /\ \A o \in Objects : o = ExtractBalanced(text)
        /\ ExtractBalanced(text) # Unreadable => ExtractBalanced(text) \in Objects
    <3> HIDE DEF Objects, First
    <3>1. \A j \in 1..N : IsObject(SubSeq(text, start, j)) => ExtractBalanced(text) = SubSeq(text, start, j)
      BY <1>4, <2>1, Extracted
    <3>2. ExtractBalanced(text) # Unreadable =>
            \E j \in 1..N : /\ ExtractBalanced(text) = SubSeq(text, start, j)
                            /\ IsObject(SubSeq(text, start, j))
      BY <1>4, <2>1, Extracted
    <3> QED BY <2>3, <3>1, <3>2
  <2>5. \A o \in Objects : IsObject(o)
    OBVIOUS
  <2>6. CASE IsObject(text)
    <3>1. text # <<>> /\ IsJson(text) /\ ~IsString(text)
      BY <2>6 DEF IsObject, IsJson, IsString
    <3>2. start = 1 /\ N >= 1
      <4>1. text[1] = "open" /\ N >= 1
        BY <1>0, <1>4, <2>6 DEF IsObject
      <4>2. 1 < start => 1 \in 1..(start - 1)
        BY <1>4, <2>1
      <4> QED BY <1>4, <2>1, <4>1, <4>2
    <3>3. SubSeq(text, 1, N) = text
      BY <1>0
    <3>4. text \in Objects
      <4>1. text \in Here
        <5>1. N \in 1..N
          BY <1>4, <3>2
        <5> QED BY <3>2, <3>3, <5>1
      <4> HIDE DEF Here, Objects
      <4> QED BY <2>3, <2>6, <4>1, SMTT(30)
    <3>5. Objects = {text}
      <4> HIDE DEF Objects
      <4> QED BY <2>4, <3>4
    <3>6. parsed = text /\ text # Unreadable
      BY <1>3, <1>5, <2>6, <3>1
    <3> HIDE DEF Objects, Reading
    <3>7. {Reading(o) : o \in Objects} = {Reading(text)}
      BY <3>5
    <3> QED BY <1>1, <1>2, <3>1, <3>5, <3>6, <3>7
  <2>7. CASE ~IsObject(text) /\ IsString(text)
    <3>1. text # <<>> /\ IsJson(text)
      BY <2>7 DEF IsJson, IsString
    <3>2. parsed = Unreadable
      BY <1>3, <2>7, <3>1
    <3> QED BY <1>1, <1>2, <2>7, <3>2
  <2>8. CASE ~IsObject(text) /\ ~IsString(text)
    <3>1. ~IsJson(text)
      <4>1. Len(text) = 1 => text[1] = "open"
        BY <2>1, <1>4
      <4> QED BY <2>8, <4>1 DEF IsJson, PassValues
    <3>2. value = ExtractBalanced(text)
      BY <3>1
    <3>3. CASE ExtractBalanced(text) = Unreadable
      <4>1. Objects = {}
        <5> HIDE DEF Objects
        <5> QED BY <1>5, <2>4, <2>5, <3>3
      <4>2. parsed = Unreadable
        BY <1>3, <3>2, <3>3
      <4> HIDE DEF Objects
      <4> QED BY <1>1, <1>2, <4>1, <4>2
    <3>4. CASE ExtractBalanced(text) # Unreadable
      <4> DEFINE x == ExtractBalanced(text)
      <4>1. x \in Objects /\ IsObject(x)
        <5> HIDE DEF Objects
        <5> QED BY <2>4, <2>5, <3>4
      <4>2. parsed = x /\ x # Unreadable
        BY <1>3, <3>2, <3>4, <4>1
      <4>3. Objects = {x}
        <5> HIDE DEF Objects
        <5> QED BY <2>4, <4>1
      <4> HIDE DEF Objects, Reading, x
      <4>4. {Reading(o) : o \in Objects} = {Reading(x)}
        BY <4>3
      <4> QED BY <1>1, <1>2, <2>8, <4>2, <4>3, <4>4
    <3> QED BY <3>3, <3>4
  <2> QED BY <2>6, <2>7, <2>8
<1> QED
  BY <1>6, <1>7

-----------------------------------------------------------------------------
(* JudgeCall: whatever the judges do, the policy call is one of Retry.     *)

THEOREM JudgedByPolicy == JudgeSpec => Spec
<1>1. JudgeInit => Init
  BY DEF JudgeInit
<1>2. [JudgeNext]_allVars => [Next]_vars
  <2> SUFFICES ASSUME [JudgeNext]_allVars PROVE Next \/ UNCHANGED vars
    OBVIOUS
  <2>1. ASSUME NEW v \in Judges, Answers(v)
        PROVE  Next \/ UNCHANGED vars
    BY <2>1 DEF Answers, Next, Raise, Errors
  <2>2. ASSUME NEW v \in Judges, Raises(v)
        PROVE  Next
    BY <2>2 DEF Raises, Next, Raise, Errors
  <2>3. ASSUME NEW v \in Judges, NEW a \in Attempts, EnterLock(a, v) \/ StrayEnds(a, v)
        PROVE  UNCHANGED vars
    BY <2>3 DEF EnterLock, StrayEnds
  <2>4. CASE AttemptTimesOut \/ CallerCancels \/ NextAttempt \/ Waiting
    BY <2>4 DEF AttemptTimesOut, CallerCancels, NextAttempt, Waiting, Next
  <2>5. CASE UNCHANGED allVars
    BY <2>5 DEF allVars, vars
  <2> QED BY <2>1, <2>2, <2>3, <2>4, <2>5 DEF JudgeNext
<1> QED BY <1>1, <1>2, PTL DEF JudgeSpec, Spec

(* The budget of a policy call is kept with one judge or two, threads left *)
(* behind or not (protector.py:526-531, backends/composite.py:41).         *)
THEOREM JudgesFitBudget == JudgeSpec => []WithinBudget
BY JudgedByPolicy, CallFitsBudget, PTL

ReplySet == [made : {"none", "pass", "fail", "malformed"},
             meant : {"none", "pass", "fail", "malformed"}]
CallStates == {"none", "open", "answered", "failed", "cancelled", "stray", "over"}

(* A call of the attempt under way is open, or answered and read.          *)
CallsInv ==
  /\ calls \in [Attempts -> [Judges -> CallStates]]
  /\ replies \in [Judges -> ReplySet]
  /\ team \in Teams
  /\ policy \in {"all_must_pass", "any_must_pass"}
  /\ verdict \in {"none", "pass", "fail"}
  /\ phase = "calling" =>
       \A v \in Judges : /\ calls[attempt][v] \in {"open", "answered"}
                         /\ calls[attempt][v] = "answered" => replies[v].made \in {"pass", "fail"}

LEMMA ReadingIsReply ==
  ASSUME team \in Teams, NEW v \in Judges, NEW reading \in Readings[team[v]]
  PROVE  /\ reading \in ReplySet /\ reading.made \in {"pass", "fail", "malformed"}
         /\ reading.made = reading.meant
<1>1. team[v] \in Generative \union Classifiers
  BY JudgeCallAssumption DEF Judges
<1>2. CASE team[v] \in Classifiers
  <2>1. reading \in {[made |-> m, meant |-> m] : m \in {"pass", "fail"}}
    BY <1>1, <1>2 DEF Readings
  <2> QED BY <2>1 DEF ReplySet
<1>3. CASE team[v] \notin Classifiers
  <2> DEFINE Of(r) == {[made |-> Judged(team[v], r), meant |-> m] : m \in Meant(team[v], r)}
  <2>1. reading \in UNION {Of(r) : r \in ReplyTexts}
    BY <1>1, <1>3 DEF Readings
  <2>2. PICK r \in ReplyTexts : reading \in Of(r)
    <3> HIDE DEF Of
    <3> QED BY <2>1
  <2>3. Meant(team[v], r) = {Judged(team[v], r)}
    BY JudgeCallAssumption, JudgedAsMeant
  <2>4. reading = [made |-> Judged(team[v], r), meant |-> Judged(team[v], r)]
    BY <2>2, <2>3
  <2>5. Judged(team[v], r) \in {"pass", "fail", "malformed"}
    BY DEF Judged
  <2> QED BY <2>4, <2>5 DEF ReplySet
<1> QED BY <1>2, <1>3

LEMMA CallsInvInit == JudgeInit => CallsInv
BY RetryAssumption DEF JudgeInit, Init, CallsInv, CallStates, ReplySet, Started, NoReading, Attempts

(* What the end of an attempt does to its calls. *)
LEMMA CallsTyped ==
  ASSUME CallsInv, attempt \in Attempts, NEW v \in Judges
  PROVE  LeftAlone(v) \in [Attempts -> [Judges -> CallStates]]
<1>1. [w \in Judges |-> IF w = v THEN "failed" ELSE IF calls[attempt][w] = "open" THEN "stray"
                       ELSE calls[attempt][w]] \in [Judges -> CallStates]
  BY DEF CallsInv, CallStates
<1> QED BY <1>1 DEF CallsInv, LeftAlone

LEMMA AbandonedTyped ==
  ASSUME CallsInv, attempt \in Attempts
  PROVE  /\ Abandoned(TRUE) \in [Attempts -> [Judges -> CallStates]]
         /\ Abandoned(phase = "calling") \in [Attempts -> [Judges -> CallStates]]
<1>1. [w \in Judges |-> IF calls[attempt][w] = "open"
                       THEN IF IsThreaded(w) THEN "stray" ELSE "cancelled"
                       ELSE calls[attempt][w]] \in [Judges -> CallStates]
  BY DEF CallsInv, CallStates
<1>2. [w \in Judges |-> IF phase = "calling" /\ calls[attempt][w] = "open"
                       THEN IF IsThreaded(w) THEN "stray" ELSE "cancelled"
                       ELSE calls[attempt][w]] \in [Judges -> CallStates]
  BY DEF CallsInv, CallStates
<1> QED BY <1>1, <1>2 DEF CallsInv, Abandoned

LEMMA CallsInvNext ==
  ASSUME IInv, CallsInv, [JudgeNext]_allVars
  PROVE  CallsInv'
<1>1. attempt \in Attempts
  BY DEF IInv, TypeOK, Attempts
<1>2. ASSUME NEW v \in Judges, Answers(v)
      PROVE  CallsInv'
  <2>1. PICK reading \in Readings[team[v]] :
          /\ replies' = [replies EXCEPT ![v] = reading]
          /\ IF reading.made = "malformed"
             THEN Fail("malformed") /\ calls' = LeftAlone(v) /\ UNCHANGED verdict
             ELSE /\ calls' = [calls EXCEPT ![attempt][v] = "answered"]
                  /\ IF \A w \in Judges \ {v} : calls[attempt][w] = "answered"
                     THEN /\ Return
                          /\ verdict' = IF Combined([w \in Judges |-> replies'[w].made])
                                        THEN "pass" ELSE "fail"
                     ELSE UNCHANGED <<vars, verdict>>
    BY <1>2 DEF Answers
  <2>2. reading \in ReplySet /\ reading.made \in {"pass", "fail", "malformed"}
    BY ReadingIsReply DEF CallsInv
  <2>3. replies' \in [Judges' -> ReplySet] /\ team' = team /\ policy' = policy
    BY <1>2, <2>1, <2>2 DEF Answers, CallsInv, Judges
  <2>4. CASE reading.made = "malformed"
    BY <1>1, <2>1, <2>3, <2>4, CallsTyped DEF CallsInv, Fail, Judges
  <2>5. CASE reading.made # "malformed"
    <3>1. calls' = [calls EXCEPT ![attempt][v] = "answered"] /\ attempt' = attempt
      BY <2>1, <2>5 DEF Return, vars
    <3>2. calls' \in [Attempts -> [Judges -> CallStates]]
      BY <1>1, <3>1 DEF CallsInv, CallStates
    <3>3. verdict' \in {"none", "pass", "fail"}
      BY <2>1, <2>5 DEF CallsInv
    <3>4. \A w \in Judges : /\ calls'[attempt][w] \in {"open", "answered"}
                            /\ calls'[attempt][w] = "answered" => replies'[w].made \in {"pass", "fail"}
      BY <1>1, <1>2, <2>1, <2>2, <2>5, <3>1 DEF CallsInv, Answers
    <3>5. Judges' = Judges
      BY <2>3 DEF Judges
    <3>6. calls' \in [Attempts -> [Judges' -> CallStates]]
      BY <3>2, <3>5
    <3>7. \A w \in Judges' : /\ calls'[attempt'][w] \in {"open", "answered"}
                             /\ calls'[attempt'][w] = "answered" => replies'[w].made \in {"pass", "fail"}
      BY <3>1, <3>4, <3>5
    <3>8. team' \in Teams /\ policy' \in {"all_must_pass", "any_must_pass"}
      BY <2>3 DEF CallsInv
    <3> QED BY <2>3, <3>3, <3>6, <3>7, <3>8 DEF CallsInv
  <2> QED BY <2>4, <2>5
<1>3. ASSUME NEW v \in Judges, Raises(v)
      PROVE  CallsInv'
  BY <1>1, <1>3, CallsTyped DEF Raises, Fail, IsTransient, CallsInv, Judges
<1>4. ASSUME NEW v \in Judges, NEW a \in Attempts, EnterLock(a, v)
      PROVE  CallsInv'
  BY <1>4 DEF EnterLock, vars, CallsInv, Judges
<1>5. ASSUME NEW v \in Judges, NEW a \in Attempts, StrayEnds(a, v)
      PROVE  CallsInv'
  <2>1. calls' \in [Attempts -> [Judges -> CallStates]]
    BY <1>5 DEF StrayEnds, CallsInv, CallStates
  <2>2. phase = "calling" => a # attempt \/ calls[a][v] # "stray"
    BY DEF CallsInv
  <2> QED BY <1>1, <1>5, <2>1, <2>2 DEF StrayEnds, vars, CallsInv, Judges
<1>6. CASE AttemptTimesOut
  BY <1>1, <1>6, AbandonedTyped DEF AttemptTimesOut, TimesOut, Fail, CallsInv, Judges
<1>7. CASE CallerCancels
  <2>1. phase' # "calling"
    BY <1>7 DEF CallerCancels, Cancel, Fail, IsTransient
  <2>2. calls' \in [Attempts -> [Judges -> CallStates]]
    BY <1>1, <1>7, AbandonedTyped DEF CallerCancels
  <2> QED BY <1>7, <2>1, <2>2 DEF CallerCancels, CallsInv, Judges
<1>8. CASE NextAttempt
  <2>1. attempt' \in Attempts /\ Started \in [Judges -> CallStates]
    BY <1>8, RetryAssumption
    DEF NextAttempt, Wake, IInv, TypeOK, BudgetInv, Attempts, Started, CallStates
  <2>2. calls' \in [Attempts -> [Judges -> CallStates]] /\ calls'[attempt'] = Started
    BY <1>8, <2>1 DEF NextAttempt, CallsInv
  <2>3. replies' \in [Judges -> ReplySet]
    BY <1>8 DEF NextAttempt, NoReading, ReplySet
  <2> QED BY <1>8, <2>2, <2>3 DEF NextAttempt, Started, CallsInv, Judges
<1>9. CASE Waiting \/ UNCHANGED allVars
  BY <1>9 DEF Waiting, Tick, Ended, judgeVars, allVars, vars, CallsInv, Judges
<1> QED BY <1>2, <1>3, <1>4, <1>5, <1>6, <1>7, <1>8, <1>9 DEF JudgeNext

LEMMA Calls == JudgeSpec => [](IInv /\ CallsInv)
<1>1. IInv /\ CallsInv /\ IInv' /\ [JudgeNext]_allVars => CallsInv'
  BY CallsInvNext
<1> QED BY <1>1, JudgedByPolicy, Invariance, CallsInvInit, PTL DEF JudgeSpec

(* Only threads, and calls whose twin raised or could not be read, go on   *)
(* unwaited for, and none while its attempt is under way, for any team of  *)
(* judges and number of retries (_retry.py:57-71,                          *)
(* backends/composite.py:41, local/transformers_backend.py:61).            *)
THEOREM NoCauselessStray == JudgeSpec => []StraysHaveCause
<1>1. JudgeInit => StraysHaveCause
  BY DEF JudgeInit, Started, StraysHaveCause
<1>2. IInv /\ CallsInv /\ StraysHaveCause /\ [JudgeNext]_allVars => StraysHaveCause'
  <2> SUFFICES ASSUME IInv, CallsInv, StraysHaveCause, [JudgeNext]_allVars
               PROVE  StraysHaveCause'
    OBVIOUS
  <2>1. attempt \in Attempts /\ team' = team /\ Judges' = Judges
        /\ \A v \in Judges : IsThreaded(v)' = IsThreaded(v)
    BY DEF IInv, TypeOK, Attempts, Judges, IsThreaded, JudgeNext, Answers, Raises, EnterLock,
           StrayEnds, AttemptTimesOut, CallerCancels, NextAttempt, Waiting, judgeVars, allVars
  <2> DEFINE Caused(c) == \A a \in Attempts : \A v \in Judges :
               c[a][v] = "stray" => IsThreaded(v) \/ \E w \in Judges \ {v} : c[a][w] = "failed"
  <2>2. SUFFICES Caused(calls')
    <3>1. CallsInv'
      BY CallsInvNext
    <3>2. \A v \in Judges : phase' = "calling" => calls'[attempt'][v] # "stray"
      BY <2>1, <3>1 DEF CallsInv
    <3> QED BY <2>1, <3>2 DEF StraysHaveCause, Attempts
  <2>3. ASSUME NEW v \in Judges
        PROVE  Caused(LeftAlone(v))
    BY <2>1 DEF LeftAlone, CallsInv, StraysHaveCause
  <2>4. Caused(Abandoned(TRUE)) /\ Caused(Abandoned(phase = "calling"))
    BY <2>1 DEF Abandoned, CallsInv, StraysHaveCause
  <2>5. ASSUME NEW a \in Attempts, NEW v \in Judges, calls[a][v] # "failed",
               NEW end \in {"answered", "over"}, calls' = [calls EXCEPT ![a][v] = end]
        PROVE  Caused(calls')
    BY <2>5 DEF CallsInv, StraysHaveCause
  <2>6. ASSUME NEW v \in Judges, Answers(v)
        PROVE  Caused(calls')
    <3>1. /\ calls[attempt][v] = "open"
          /\ calls' = LeftAlone(v) \/ calls' = [calls EXCEPT ![attempt][v] = "answered"]
      BY <2>6 DEF Answers
    <3> QED BY <2>1, <2>3, <2>5, <3>1
  <2>7. ASSUME NEW v \in Judges, Raises(v)
        PROVE  Caused(calls')
    BY <2>3, <2>7 DEF Raises
  <2>8. ASSUME NEW v \in Judges, NEW a \in Attempts, EnterLock(a, v) \/ StrayEnds(a, v)
        PROVE  Caused(calls')
    BY <2>5, <2>8 DEF EnterLock, StrayEnds, StraysHaveCause
  <2>9. CASE AttemptTimesOut \/ CallerCancels
    <3>1. calls' = Abandoned(TRUE) \/ calls' = Abandoned(phase = "calling")
      BY <2>9 DEF AttemptTimesOut, CallerCancels
    <3> HIDE DEF Caused
    <3> QED BY <2>4, <3>1, Zenon
  <2>10. CASE NextAttempt
    BY <2>10 DEF NextAttempt, Started, CallsInv, StraysHaveCause
  <2>11. CASE Waiting \/ UNCHANGED allVars
    BY <2>11 DEF Waiting, judgeVars, allVars, StraysHaveCause
  <2> QED BY <2>6, <2>7, <2>8, <2>9, <2>10, <2>11 DEF JudgeNext
<1> QED BY <1>1, <1>2, Calls, PTL DEF JudgeSpec

(* What a judgement was made of: the replies of the last attempt, all of   *)
(* them given and read.                                                    *)
VoteInv ==
  phase = "returned" =>
    /\ \A v \in Judges : replies[v].made \in {"pass", "fail"} /\ calls[attempt][v] = "answered"
    /\ verdict = IF Combined([v \in Judges |-> replies[v].made]) THEN "pass" ELSE "fail"

LEMMA VoteInvNext ==
  ASSUME IInv, CallsInv, CallsInv', VoteInv, [JudgeNext]_allVars
  PROVE  VoteInv'
<1>1. attempt \in Attempts
  BY DEF IInv, TypeOK, Attempts
<1>2. ASSUME NEW v \in Judges, Answers(v), phase' = "returned"
      PROVE  VoteInv'
  <2>1. PICK reading \in Readings[team[v]] :
          /\ replies' = [replies EXCEPT ![v] = reading]
          /\ reading.made # "malformed"
          /\ calls' = [calls EXCEPT ![attempt][v] = "answered"]
          /\ IF \A w \in Judges \ {v} : calls[attempt][w] = "answered"
             THEN /\ Return
                  /\ verdict' = IF Combined([w \in Judges |-> replies'[w].made])
                                THEN "pass" ELSE "fail"
             ELSE UNCHANGED <<vars, verdict>>
    BY <1>2 DEF Answers, Fail
  <2>2. reading.made \in {"pass", "fail"}
    BY <2>1, ReadingIsReply DEF CallsInv
  <2>3. phase = "calling" /\ Judges' = Judges /\ policy' = policy
    BY <1>2 DEF Answers, Judges
  <2>4. /\ \A w \in Judges \ {v} : calls[attempt][w] = "answered"
        /\ Return
        /\ verdict' = IF Combined([w \in Judges |-> replies'[w].made]) THEN "pass" ELSE "fail"
    BY <1>2, <2>1, <2>3 DEF vars
  <2>5. attempt' = attempt
    BY <2>4 DEF Return
  <2>6. \A w \in Judges : replies'[w].made \in {"pass", "fail"} /\ calls'[attempt][w] = "answered"
    BY <1>1, <2>1, <2>2, <2>3, <2>4 DEF CallsInv
  <2>7. Combined([w \in Judges |-> replies[w].made])'
          <=> Combined([w \in Judges |-> replies'[w].made])
    BY <2>3 DEF Combined
  <2> QED BY <2>3, <2>4, <2>5, <2>6, <2>7 DEF VoteInv
<1>3. ASSUME NEW v \in Judges, NEW a \in Attempts, StrayEnds(a, v)
      PROVE  VoteInv'
  <2>1. UNCHANGED <<phase, attempt, team, policy, replies, verdict>> /\ Judges' = Judges
        /\ calls' = [calls EXCEPT ![a][v] = "over"]
        /\ calls[a][v] = "stray"
    BY <1>3 DEF StrayEnds, vars, Judges
  <2>2. \A w \in Judges : calls[attempt][w] = "answered" => calls'[attempt][w] = "answered"
    BY <1>1, <2>1 DEF CallsInv
  <2> QED BY <2>1, <2>2 DEF VoteInv, Combined
<1>4. ASSUME NEW v \in Judges, NEW a \in Attempts, EnterLock(a, v)
      PROVE  VoteInv'
  BY <1>4 DEF EnterLock, vars, VoteInv, Combined, Judges
<1>5. ASSUME NEW v \in Judges, Raises(v)
      PROVE  VoteInv'
  BY <1>5 DEF Raises, Fail, VoteInv
<1>6. CASE AttemptTimesOut \/ NextAttempt
  BY <1>6 DEF AttemptTimesOut, TimesOut, Fail, NextAttempt, Wake, VoteInv
<1>7. CASE CallerCancels
  BY <1>7 DEF CallerCancels, Cancel, Fail, VoteInv
<1>8. CASE Waiting \/ UNCHANGED allVars
  <2>1. UNCHANGED <<calls, attempt, team, policy, replies, verdict>>
        /\ (phase' = "returned" => phase = "returned")
    BY <1>8 DEF Waiting, Tick, Ended, judgeVars, allVars, vars
  <2> QED BY <2>1 DEF VoteInv, Combined, Judges
<1>9. CASE phase' # "returned"
  BY <1>9 DEF VoteInv
<1> QED BY <1>2, <1>3, <1>4, <1>5, <1>6, <1>7, <1>8, <1>9 DEF JudgeNext

(* Every reply of the attempt under way was read as JSON's grammar reads   *)
(* it, whatever the models reply (_json.py:16-58).                         *)
THEOREM RepliesReadAsMeant == JudgeSpec => []ReadAsMeant
<1>1. JudgeInit => ReadAsMeant
  BY DEF JudgeInit, ReadAsMeant, NoReading
<1>2. CallsInv /\ ReadAsMeant /\ [JudgeNext]_allVars => ReadAsMeant'
  <2> SUFFICES ASSUME CallsInv, ReadAsMeant, [JudgeNext]_allVars PROVE ReadAsMeant'
    OBVIOUS
  <2>1. Judges' = Judges
    BY DEF Judges, JudgeNext, Answers, Raises, EnterLock, StrayEnds, AttemptTimesOut,
           CallerCancels, NextAttempt, Waiting, judgeVars, allVars
  <2>2. ASSUME NEW v \in Judges, Answers(v)
        PROVE  ReadAsMeant'
    <3>1. PICK reading \in Readings[team[v]] : replies' = [replies EXCEPT ![v] = reading]
      BY <2>2 DEF Answers
    <3>2. reading.made = reading.meant
      BY ReadingIsReply DEF CallsInv
    <3> QED BY <2>1, <3>1, <3>2 DEF ReadAsMeant, CallsInv
  <2>3. CASE NextAttempt
    BY <2>1, <2>3 DEF NextAttempt, NoReading, ReadAsMeant
  <2>4. CASE replies' = replies
    BY <2>1, <2>4 DEF ReadAsMeant
  <2> QED BY <2>2, <2>3, <2>4 DEF JudgeNext, Raises, EnterLock, StrayEnds, AttemptTimesOut,
             CallerCancels, Waiting, judgeVars, allVars
<1> QED BY <1>1, <1>2, Calls, PTL DEF JudgeSpec

(* The judgement is the vote of what the last attempt's replies mean, for  *)
(* any team, policy, number of retries and replies                         *)
(* (backends/composite.py:41-48).                                          *)
THEOREM VotesAreCounted == JudgeSpec => []VerdictIsTheVote
<1>1. JudgeInit => VoteInv
  BY DEF JudgeInit, Init, VoteInv
<1>2. IInv /\ CallsInv /\ CallsInv' /\ VoteInv /\ [JudgeNext]_allVars => VoteInv'
  BY VoteInvNext
<1>3. CallsInv /\ VoteInv /\ ReadAsMeant => VerdictIsTheVote
  BY ZenonT(40) DEF CallsInv, VoteInv, ReadAsMeant, VerdictIsTheVote, Combined
<1> QED BY <1>1, <1>2, <1>3, Calls, RepliesReadAsMeant, PTL DEF JudgeSpec
=============================================================================
