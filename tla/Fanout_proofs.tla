---------------------------- MODULE Fanout_proofs ----------------------------
(***************************************************************************)
(* Proofs about Fanout and Dispatch, for every finite set of rules, every  *)
(* order of them and every limit.                                          *)
(***************************************************************************)
EXTENDS Dispatch, FiniteSetTheorems, SequenceTheorems, TLAPS

-----------------------------------------------------------------------------
(* The inductive invariant.                                                *)

Types ==
  /\ pc \in {"idle", "loop", "cleanup", "returned"}
  /\ task \in [Rules -> {"none", "waiting", "judging", "finished"}]
  /\ reply \in [Rules -> Verdicts \cup {"none", "cancelled"}]
  /\ cancelling \in SUBSET Rules
  /\ permits \in Nat
  /\ completed \in Seq(Rules)
  /\ seen \in SUBSET Rules
  /\ succeeded \in Nat
  /\ outcome \in [kind : {"none", "pass", "block", "raise", "cancelled"},
                  degraded : BOOLEAN]

(* Every permit is free or held by a judging task. *)
PermitsInv == permits + Cardinality(Judging) = MaxConcurrent

(* A task is finished exactly when it has a reply. *)
TaskInv ==
  /\ \A r \in Rules : task[r] = "finished" <=> reply[r] # "none"
  /\ \A r \in Rules : pc = "idle" <=> task[r] = "none"

(* The queue holds finished tasks, each once, and none the loop has taken. *)
QueueInv ==
  /\ \A i \in 1..Len(completed) : /\ reply[completed[i]] \in Verdicts
                                  /\ completed[i] \notin seen
  /\ \A i, j \in 1..Len(completed) : completed[i] = completed[j] => i = j

Judged == {r \in seen : reply[r] # "error"}

(* succeeded counts the judged replies among those taken. *)
CountInv ==
  /\ \A r \in seen : reply[r] \in Verdicts
  /\ succeeded = Cardinality(Judged)

(* What is known of the outcome at each place of the call. *)
PhaseInv ==
  /\ pc \in {"idle", "loop"} => /\ outcome = NoOutcome
                                /\ cancelling = {}
                                /\ seen # Rules
                                /\ Replied("fail") \cap seen = {}
  /\ pc = "cleanup" => /\ Live \subseteq cancelling
                       /\ outcome.kind \in {"none", "block", "cancelled"}
  /\ outcome.kind = "none" => outcome = NoOutcome
  /\ outcome.kind = "cancelled" => ~outcome.degraded
  /\ (pc = "cleanup" /\ outcome = NoOutcome) =>
       /\ seen = Rules
       /\ Replied("fail") = {}
  /\ pc = "returned" => Live = {} /\ outcome.kind # "none"

OutcomeInv ==
  /\ PassIsJustified
  /\ RaiseMeansTotalFailure /\ (outcome.kind = "raise" => ~outcome.degraded)
  /\ UndegradedMeansFullCoverage
  /\ outcome.kind = "block" => Replied("fail") # {}

IInv == Types /\ PermitsInv /\ TaskInv /\ QueueInv /\ CountInv /\ PhaseInv /\ OutcomeInv

-----------------------------------------------------------------------------
(* Facts about finite sets of rules, and about the queue of replies.       *)

LEMMA RuleSets ==
  ASSUME NEW S \in SUBSET Rules
  PROVE  /\ IsFiniteSet(S)
         /\ Cardinality(S) \in Nat
         /\ Cardinality(Rules) \in Nat
         /\ Cardinality(S) <= Cardinality(Rules)
         /\ Cardinality(S) = Cardinality(Rules) => S = Rules
         /\ Cardinality(S) = 0 <=> S = {}
  BY FanoutAssumption, FS_Subset, FS_CardinalityType, FS_EmptySet

LEMMA RuleSetGrows ==
  ASSUME NEW S \in SUBSET Rules, NEW r \in Rules, r \notin S
  PROVE  Cardinality(S \cup {r}) = Cardinality(S) + 1
  BY RuleSets, FS_AddElement

LEMMA RuleSetShrinks ==
  ASSUME NEW S \in SUBSET Rules, NEW r \in Rules, r \in S
  PROVE  Cardinality(S \ {r}) = Cardinality(S) - 1
  BY RuleSets, FS_RemoveElement

-----------------------------------------------------------------------------
LEMMA InitIInv == Init => IInv
<1> SUFFICES ASSUME Init PROVE IInv
  OBVIOUS
<1>1. Types
  BY FanoutAssumption DEF Init, Types, NoOutcome
<1>2. PermitsInv
  <2>1. Judging = {}
    BY DEF Init, Judging
  <2> QED BY <2>1, FS_EmptySet, FanoutAssumption DEF Init, PermitsInv
<1>3. TaskInv /\ QueueInv
  BY DEF Init, TaskInv, QueueInv
<1>4. CountInv
  <2>1. Judged = {}
    BY DEF Init, Judged
  <2> QED BY <2>1, FS_EmptySet DEF Init, CountInv
<1>5. PhaseInv
  BY FanoutAssumption DEF Init, PhaseInv, NoOutcome
<1>6. OutcomeInv
  BY DEF Init, OutcomeInv, NoOutcome, PassIsJustified, RaiseMeansTotalFailure,
         UndegradedMeansFullCoverage
<1> QED BY <1>1, <1>2, <1>3, <1>4, <1>5, <1>6 DEF IInv

LEMMA DispatchKeepsIInv == IInv /\ Dispatch => IInv'
<1> SUFFICES ASSUME IInv, Dispatch PROVE IInv'
  OBVIOUS
<1> USE DEF IInv, Dispatch
<1>1. Types'
  BY DEF Types
<1>2. PermitsInv'
  <2>1. Judging = {} /\ Judging' = {}
    BY DEF Judging, TaskInv, Types
  <2> QED BY <2>1 DEF PermitsInv
<1>3. TaskInv' /\ QueueInv'
  BY DEF TaskInv, QueueInv, Types
<1>4. CountInv'
  BY DEF CountInv, Judged
<1>5. PhaseInv'
  BY DEF PhaseInv, Replied
<1>6. OutcomeInv'
  BY DEF OutcomeInv, PassIsJustified, RaiseMeansTotalFailure,
         UndegradedMeansFullCoverage, Replied
<1> QED BY <1>1, <1>2, <1>3, <1>4, <1>5, <1>6

LEMMA AcquireKeepsIInv ==
  ASSUME IInv, NEW r \in Rules, Acquire(r)
  PROVE  IInv'
<1> USE DEF IInv, Acquire, MayEnter
<1>1. Types'
  BY DEF Types
<1>2. PermitsInv'
  <2>1. Judging' = Judging \cup {r} /\ r \notin Judging
    BY DEF Judging, Types
  <2>2. Cardinality(Judging') = Cardinality(Judging) + 1
    BY <2>1, RuleSetGrows DEF Judging
  <2>3. Cardinality(Judging) \in Nat
    BY RuleSets DEF Judging
  <2> QED BY <2>2, <2>3, FanoutAssumption DEF PermitsInv, Types
<1>3. TaskInv' /\ QueueInv'
  BY DEF TaskInv, QueueInv, Types
<1>4. CountInv'
  BY DEF CountInv, Judged
<1>5. PhaseInv'
  <2>1. Live' = Live
    BY DEF Live, Types
  <2> QED BY <2>1 DEF PhaseInv, Replied
<1>6. OutcomeInv'
  BY DEF OutcomeInv, PassIsJustified, RaiseMeansTotalFailure,
         UndegradedMeansFullCoverage, Replied
<1> QED BY <1>1, <1>2, <1>3, <1>4, <1>5, <1>6

(* What a task that finishes changes, whether it answers or is unwound.    *)
LEMMA FinishKeepsOutcome ==
  ASSUME IInv, NEW r \in Rules, task[r] \in {"waiting", "judging"},
         NEW a \in Verdicts \cup {"cancelled"},
         task' = [task EXCEPT ![r] = "finished"],
         reply' = [reply EXCEPT ![r] = a],
         UNCHANGED <<pc, cancelling, seen, succeeded, outcome>>
  PROVE  TaskInv' /\ CountInv' /\ PhaseInv' /\ OutcomeInv'
<1> USE DEF IInv, Types
<1>1. reply[r] = "none" /\ r \notin seen
  BY DEF TaskInv, CountInv, Verdicts
<1>2. TaskInv'
  BY DEF TaskInv, Verdicts
<1>3. CountInv'
  <2>1. \A x \in seen : reply'[x] = reply[x]
    BY <1>1
  <2>2. Judged' = Judged
    BY <2>1 DEF Judged
  <2> QED BY <2>1, <2>2 DEF CountInv
<1>4. PhaseInv'
  <2>1. Live' = Live \ {r} /\ r \in Live
    BY DEF Live
  <2>2. seen # Rules /\ pc # "returned"
    BY <1>1, <2>1 DEF PhaseInv
  <2>3. Replied("fail")' \cap seen = Replied("fail") \cap seen
    BY <1>1 DEF Replied
  <2> QED BY <2>1, <2>2, <2>3 DEF PhaseInv
<1>5. OutcomeInv'
  <2>1. r \notin Replied("pass") /\ r \notin Replied("fail") /\ r \notin Replied("error")
    BY <1>1 DEF Replied
  <2>2. outcome.kind # "pass" /\ outcome.kind # "raise"
    BY <2>1 DEF OutcomeInv, PassIsJustified, RaiseMeansTotalFailure
  <2>3. ~(outcome.kind = "block" /\ ~outcome.degraded)
    BY <2>1 DEF OutcomeInv, UndegradedMeansFullCoverage
  <2>4. Replied("fail") \subseteq Replied("fail")'
    BY <1>1 DEF Replied
  <2> QED BY <2>2, <2>3, <2>4 DEF OutcomeInv, PassIsJustified, RaiseMeansTotalFailure,
             UndegradedMeansFullCoverage
<1> QED BY <1>2, <1>3, <1>4, <1>5

LEMMA AnswerKeepsIInv ==
  ASSUME IInv, NEW r \in Rules, Answer(r)
  PROVE  IInv'
<1> USE DEF IInv
<1>a. PICK a \in Verdicts : reply' = [reply EXCEPT ![r] = a]
  BY DEF Answer
<1>b. /\ task[r] = "judging"
      /\ task' = [task EXCEPT ![r] = "finished"]
      /\ permits' = permits + 1
      /\ completed' = Append(completed, r)
      /\ UNCHANGED <<pc, cancelling, seen, succeeded, outcome>>
  BY DEF Answer
<1>1. Types'
  BY <1>a, <1>b, AppendProperties DEF Types, Verdicts
<1>2. PermitsInv'
  <2>1. Judging' = Judging \ {r} /\ r \in Judging
    BY <1>b DEF Judging, Types
  <2>2. Cardinality(Judging') = Cardinality(Judging) - 1
    BY <2>1, RuleSetShrinks DEF Judging
  <2>3. Cardinality(Judging) \in Nat
    BY RuleSets DEF Judging
  <2> QED BY <1>b, <2>2, <2>3, FanoutAssumption DEF PermitsInv, Types
<1>3. TaskInv' /\ CountInv' /\ PhaseInv' /\ OutcomeInv'
  BY <1>a, <1>b, FinishKeepsOutcome
<1>4. QueueInv'
  <2>1. reply[r] = "none" /\ r \notin seen
    BY <1>b DEF TaskInv, CountInv, Verdicts, Types
  <2>2. /\ Len(completed') = Len(completed) + 1
        /\ Len(completed) \in Nat
        /\ \A i \in 1..Len(completed) : completed'[i] = completed[i] /\ completed[i] \in Rules
        /\ completed'[Len(completed) + 1] = r
    BY <1>b, AppendProperties, LenProperties, ElementOfSeq DEF Types
  <2>3. \A i \in 1..Len(completed) : completed[i] # r
    BY <2>1 DEF QueueInv, Verdicts
  <2>4. reply'[r] \in Verdicts /\ \A x \in Rules \ {r} : reply'[x] = reply[x]
    BY <1>a DEF Types
  <2>5. seen' = seen
    BY <1>b
  <2>6. ASSUME NEW i \in 1..Len(completed')
        PROVE  reply'[completed'[i]] \in Verdicts /\ completed'[i] \notin seen'
    <3>1. CASE i = Len(completed) + 1
      BY <3>1, <2>1, <2>2, <2>4, <2>5
    <3>2. CASE i \in 1..Len(completed)
      BY <3>2, <2>2, <2>3, <2>4, <2>5 DEF QueueInv
    <3> QED BY <3>1, <3>2, <2>2
  <2>7. ASSUME NEW i \in 1..Len(completed'), NEW j \in 1..Len(completed'),
               completed'[i] = completed'[j]
        PROVE  i = j
    BY <2>2, <2>3, <2>7 DEF QueueInv
  <2> QED BY <2>6, <2>7 DEF QueueInv
<1> QED BY <1>1, <1>2, <1>3, <1>4

LEMMA UnwindKeepsIInv ==
  ASSUME IInv, NEW r \in Rules, Unwind(r)
  PROVE  IInv'
<1> USE DEF IInv, Unwind
<1>1. Types'
  BY DEF Types, Verdicts
<1>2. PermitsInv'
  <2>1. CASE task[r] = "judging"
    <3>1. Judging' = Judging \ {r} /\ r \in Judging
      BY <2>1 DEF Judging, Types
    <3>2. Cardinality(Judging') = Cardinality(Judging) - 1
      BY <3>1, RuleSetShrinks DEF Judging
    <3>3. Cardinality(Judging) \in Nat
      BY RuleSets DEF Judging
    <3> QED BY <2>1, <3>2, <3>3, FanoutAssumption DEF PermitsInv, Types
  <2>2. CASE task[r] = "waiting"
    <3>1. Judging' = Judging
      BY <2>2 DEF Judging, Types
    <3> QED BY <2>2, <3>1 DEF PermitsInv
  <2> QED BY <2>1, <2>2
<1>3. TaskInv' /\ CountInv' /\ PhaseInv' /\ OutcomeInv'
  BY FinishKeepsOutcome
<1>4. QueueInv'
  <2>1. reply[r] = "none"
    BY DEF TaskInv, Types
  <2>2. \A i \in 1..Len(completed) : completed[i] \in Rules /\ completed[i] # r
    BY <2>1, ElementOfSeq DEF QueueInv, Verdicts, Types
  <2> QED BY <2>2 DEF QueueInv, Types
<1> QED BY <1>1, <1>2, <1>3, <1>4

(* "for fut in as_completed(tasks)": the reply of r is taken from the queue. *)
LEMMA ConsumeKeepsIInv ==
  ASSUME IInv, Consume
  PROVE  IInv'
<1> DEFINE r == Head(completed)
<1> USE DEF IInv
<1>a. /\ r \in Rules
      /\ Tail(completed) \in Seq(Rules)
      /\ Len(completed) \in Nat \ {0}
      /\ Len(Tail(completed)) = Len(completed) - 1
      /\ \A i \in 1..Len(Tail(completed)) : Tail(completed)[i] = completed[i + 1]
      /\ r = completed[1]
  BY HeadTailProperties, EmptySeq DEF Consume, Types
<1>b. r \notin seen /\ reply[r] \in Verdicts
  BY <1>a DEF QueueInv
<1>c. /\ pc = "loop"
      /\ seen' = seen \cup {r}
      /\ succeeded' = IF reply[r] # "error" THEN succeeded + 1 ELSE succeeded
      /\ completed' = Tail(completed)
      /\ UNCHANGED <<task, reply, permits>>
  BY DEF Consume, Counts
<1>d. \/ /\ reply[r] = "fail"
         /\ outcome' = [kind |-> "block", degraded |-> succeeded' < Cardinality(Rules)]
         /\ pc' = "cleanup"
         /\ cancelling' = cancelling \cup Live
      \/ /\ reply[r] # "fail"
         /\ outcome' = outcome
         /\ seen' = Rules
         /\ pc' = "cleanup"
         /\ cancelling' = cancelling \cup Live
      \/ /\ reply[r] # "fail"
         /\ outcome' = outcome
         /\ seen' # Rules
         /\ pc' = pc /\ cancelling' = cancelling
  BY DEF Consume, EnterFinally, Last
<1>e. outcome = NoOutcome /\ seen # Rules /\ Replied("fail") \cap seen = {}
  BY <1>c DEF PhaseInv
<1>1. Types'
  <2>1. Live \subseteq Rules
    BY DEF Live
  <2>2. outcome' \in [kind : {"none", "pass", "block", "raise", "cancelled"},
                      degraded : BOOLEAN]
    <3> DEFINE partial == succeeded' < Cardinality(Rules)
    <3>1. partial \in BOOLEAN
      OBVIOUS
    <3>2. outcome' = [kind |-> "block", degraded |-> partial] \/ outcome' = outcome
      BY <1>d
    <3> HIDE DEF partial
    <3> QED BY <3>1, <3>2 DEF Types
  <2> QED BY <1>a, <1>c, <1>d, <2>1, <2>2 DEF Types
<1>2. PermitsInv' /\ TaskInv'
  BY <1>c, <1>d DEF PermitsInv, TaskInv, Judging
<1>3. QueueInv'
  <2>1. ASSUME NEW i \in 1..Len(completed')
        PROVE  reply'[completed'[i]] \in Verdicts /\ completed'[i] \notin seen'
    <3>1. i + 1 \in 1..Len(completed) /\ i + 1 # 1 /\ completed'[i] = completed[i + 1]
      BY <1>a, <1>c
    <3>2. completed[i + 1] # r
      BY <1>a, <3>1 DEF QueueInv
    <3> QED BY <1>c, <3>1, <3>2 DEF QueueInv
  <2>2. ASSUME NEW i \in 1..Len(completed'), NEW j \in 1..Len(completed'),
               completed'[i] = completed'[j]
        PROVE  i = j
    <3>1. /\ i + 1 \in 1..Len(completed) /\ completed'[i] = completed[i + 1]
          /\ j + 1 \in 1..Len(completed) /\ completed'[j] = completed[j + 1]
      BY <1>a, <1>c
    <3>2. i + 1 = j + 1
      BY <2>2, <3>1 DEF QueueInv
    <3> QED BY <3>2
  <2> QED BY <2>1, <2>2 DEF QueueInv
<1>4. CountInv'
  <2>1. \A x \in seen' : reply'[x] \in Verdicts
    BY <1>b, <1>c DEF CountInv
  <2>2. Judged' = IF reply[r] # "error" THEN Judged \cup {r} ELSE Judged
    BY <1>c DEF Judged
  <2>3. r \notin Judged /\ Judged \in SUBSET Rules
    BY <1>b DEF Judged, Types
  <2>4. Cardinality(Judged \cup {r}) = Cardinality(Judged) + 1
    BY <1>a, <2>3, RuleSetGrows
  <2> QED BY <1>c, <2>1, <2>2, <2>4 DEF CountInv
<1>5. PhaseInv'
  <2>1. Live' = Live /\ Replied("fail")' = Replied("fail")
    BY <1>c DEF Live, Replied
  <2>2. Replied("fail") \cap (seen \cup {r}) = IF reply[r] = "fail" THEN {r} ELSE {}
    BY <1>a, <1>e DEF Replied
  <2>3. (reply[r] # "fail" /\ seen' = Rules) => Replied("fail") = {}
    BY <1>c, <2>2 DEF Replied
  <2> QED BY <1>c, <1>d, <1>e, <2>1, <2>2, <2>3 DEF PhaseInv, NoOutcome
<1>6. OutcomeInv'
  <2>1. CASE outcome' = outcome
    BY <1>e, <2>1 DEF OutcomeInv, PassIsJustified, RaiseMeansTotalFailure,
       UndegradedMeansFullCoverage, NoOutcome
  <2>2. CASE reply[r] = "fail" /\
             outcome' = [kind |-> "block", degraded |-> succeeded' < Cardinality(Rules)]
    <3>1. r \in Replied("fail")'
      BY <1>a, <1>c, <2>2 DEF Replied
    <3>2. Judged' \subseteq (Replied("pass") \cup Replied("fail"))' /\ Judged' \in SUBSET Rules
      BY <1>1, <1>4 DEF Judged, Replied, CountInv, Verdicts, Types
    <3>3. ~(succeeded' < Cardinality(Rules)) => Judged' = Rules
      BY <1>4, <3>2, RuleSets DEF CountInv
    <3>4. UndegradedMeansFullCoverage'
      BY <2>2, <3>2, <3>3 DEF UndegradedMeansFullCoverage, Replied
    <3> QED BY <2>2, <3>1, <3>4 DEF OutcomeInv, PassIsJustified, RaiseMeansTotalFailure
  <2> QED BY <1>d, <2>1, <2>2
<1> QED BY <1>1, <1>2, <1>3, <1>4, <1>5, <1>6

LEMMA CallerCancelKeepsIInv == IInv /\ CallerCancel => IInv'
<1> SUFFICES ASSUME IInv, CallerCancel PROVE IInv'
  OBVIOUS
<1> USE DEF IInv, CallerCancel, EnterFinally
<1>1. Types'
  BY DEF Types, Live
<1>2. PermitsInv' /\ TaskInv' /\ QueueInv' /\ CountInv'
  BY DEF PermitsInv, TaskInv, QueueInv, CountInv, Judging, Judged
<1>3. PhaseInv'
  BY DEF PhaseInv, Live, NoOutcome
<1>4. OutcomeInv'
  BY DEF OutcomeInv, PassIsJustified, RaiseMeansTotalFailure, UndegradedMeansFullCoverage
<1> QED BY <1>1, <1>2, <1>3, <1>4

(* The code behind the "finally" concludes from the replies of all rules.  *)
LEMMA ConclusionIsRight ==
  ASSUME IInv, pc = "cleanup", outcome = NoOutcome
  PROVE  /\ Conclusion.kind = "pass" =>
              /\ Replied("pass") \cup Replied("error") = Rules
              /\ Replied("pass") # {}
              /\ Conclusion.degraded <=> Replied("error") # {}
         /\ Conclusion.kind = "raise" => Replied("error") = Rules /\ ~Conclusion.degraded
         /\ Conclusion \in [kind : {"pass", "raise"}, degraded : BOOLEAN]
<1> USE DEF IInv
<1>1. seen = Rules /\ Replied("fail") = {}
  BY DEF PhaseInv
<1>2. Judged = Replied("pass")
  BY <1>1 DEF Judged, Replied, CountInv, Verdicts
<1>3. Replied("pass") \cup Replied("error") = Rules
  BY <1>1 DEF CountInv, Replied, Verdicts
<1>4. Replied("pass") \cap Replied("error") = {}
  BY DEF Replied
<1>5. succeeded = 0 <=> Replied("pass") = {}
  BY <1>2, RuleSets DEF CountInv, Replied
<1>6. succeeded < Cardinality(Rules) <=> Replied("error") # {}
  <2>1. succeeded <= Cardinality(Rules) /\ (succeeded = Cardinality(Rules) => Replied("pass") = Rules)
    BY <1>2, RuleSets DEF CountInv, Replied
  <2>2. Replied("error") = {} => Replied("pass") = Rules
    BY <1>3
  <2> QED BY <1>2, <1>3, <1>4, <2>1, <2>2, RuleSets DEF CountInv, Types
<1>7. CASE succeeded = 0
  BY <1>3, <1>5, <1>7 DEF Conclusion
<1>8. CASE succeeded # 0
  <2> DEFINE partial == succeeded < Cardinality(Rules)
  <2>1. partial \in BOOLEAN /\ (partial <=> Replied("error") # {})
    BY <1>6
  <2>2. Conclusion = [kind |-> "pass", degraded |-> partial]
    BY <1>8 DEF Conclusion
  <2> HIDE DEF partial
  <2> QED BY <1>3, <1>5, <1>8, <2>1, <2>2
<1> QED BY <1>7, <1>8

LEMMA GatheredKeepsIInv == IInv /\ Gathered => IInv'
<1> SUFFICES ASSUME IInv, Gathered PROVE IInv'
  OBVIOUS
<1> USE DEF IInv, Gathered, TasksDone
<1>1. CASE outcome = NoOutcome
  <2>1. Types'
    BY <1>1, ConclusionIsRight DEF Types
  <2>2. PermitsInv' /\ TaskInv' /\ QueueInv' /\ CountInv'
    BY DEF PermitsInv, TaskInv, QueueInv, CountInv, Judging, Judged
  <2>3. PhaseInv'
    BY <1>1, ConclusionIsRight DEF PhaseInv, Live
  <2>4. OutcomeInv'
    <3>1. PassIsJustified' /\ RaiseMeansTotalFailure' /\ (outcome'.kind = "raise" => ~outcome'.degraded)
      BY <1>1, ConclusionIsRight DEF PassIsJustified, RaiseMeansTotalFailure, Replied
    <3>2. UndegradedMeansFullCoverage'
      <4>1. (outcome'.kind = "pass" /\ ~outcome'.degraded) => Replied("pass") = Rules
        BY <1>1, ConclusionIsRight
      <4>2. Replied("fail") = {} /\ outcome'.kind # "block"
        BY <1>1, ConclusionIsRight DEF PhaseInv
      <4> QED BY <4>1, <4>2 DEF UndegradedMeansFullCoverage, Replied
    <3>3. outcome'.kind # "block"
      BY <1>1, ConclusionIsRight
    <3> QED BY <3>1, <3>2, <3>3 DEF OutcomeInv
  <2> QED BY <2>1, <2>2, <2>3, <2>4
<1>2. CASE outcome # NoOutcome
  <2>1. outcome' = outcome
    BY <1>2
  <2>2. Types' /\ PermitsInv' /\ TaskInv' /\ QueueInv' /\ CountInv'
    BY <2>1 DEF Types, PermitsInv, TaskInv, QueueInv, CountInv, Judging, Judged
  <2>3. PhaseInv'
    BY <1>2, <2>1 DEF PhaseInv, Live
  <2>4. OutcomeInv'
    BY <2>1 DEF OutcomeInv, PassIsJustified, RaiseMeansTotalFailure,
       UndegradedMeansFullCoverage, Replied
  <2> QED BY <2>2, <2>3, <2>4
<1> QED BY <1>1, <1>2

LEMMA StutterKeepsIInv == IInv /\ UNCHANGED vars => IInv'
BY DEF vars, IInv, Types, PermitsInv, TaskInv, QueueInv, CountInv, PhaseInv, OutcomeInv,
       Judging, Judged, Live, Replied, PassIsJustified, RaiseMeansTotalFailure,
       UndegradedMeansFullCoverage

THEOREM Invariance == Spec => []IInv
<1>1. Init => IInv
  BY InitIInv
<1>2. IInv /\ [Next]_vars => IInv'
  <2> SUFFICES ASSUME IInv, [Next]_vars PROVE IInv'
    OBVIOUS
  <2>1. CASE Dispatch
    BY <2>1, DispatchKeepsIInv
  <2>2. ASSUME NEW r \in Rules, Acquire(r) PROVE IInv'
    BY <2>2, AcquireKeepsIInv
  <2>3. ASSUME NEW r \in Rules, Answer(r) PROVE IInv'
    BY <2>3, AnswerKeepsIInv
  <2>4. ASSUME NEW r \in Rules, Unwind(r) PROVE IInv'
    BY <2>4, UnwindKeepsIInv
  <2>5. CASE Consume
    BY <2>5, ConsumeKeepsIInv
  <2>6. CASE CallerCancel
    BY <2>6, CallerCancelKeepsIInv
  <2>7. CASE Gathered
    BY <2>7, GatheredKeepsIInv
  <2>8. CASE UNCHANGED vars
    BY <2>8, StutterKeepsIInv
  <2> QED BY <2>1, <2>2, <2>3, <2>4, <2>5, <2>6, <2>7, <2>8 DEF Next, Returned
<1> QED BY <1>1, <1>2, PTL DEF Spec

-----------------------------------------------------------------------------
(* What the invariant gives.                                               *)

(* The state is well typed; in particular the semaphore's value stays      *)
(* between 0 and max_concurrent_judges (protector.py:458).                 *)
THEOREM TypeCorrect == Spec => []TypeOK
<1>1. IInv => TypeOK
  <2> SUFFICES ASSUME IInv PROVE TypeOK
    OBVIOUS
  <2>1. Cardinality(Judging) \in Nat
    BY RuleSets DEF Judging
  <2>2. permits \in 0..MaxConcurrent
    BY <2>1, FanoutAssumption DEF IInv, Types, PermitsInv
  <2> QED BY <2>2 DEF IInv, Types, TypeOK
<1> QED BY <1>1, Invariance, PTL

(* At most max_concurrent_judges calls of a request are in flight, whatever *)
(* is cancelled or fails meanwhile (protector.py:458, 463).                *)
THEOREM FanoutBounded == Spec => []BoundedFanout
<1>1. IInv => BoundedFanout
  <2> SUFFICES ASSUME IInv PROVE BoundedFanout
    OBVIOUS
  <2>1. Cardinality(Judging) \in Nat
    BY RuleSets DEF Judging
  <2> QED BY <2>1, FanoutAssumption DEF IInv, Types, PermitsInv, BoundedFanout
<1> QED BY <1>1, Invariance, PTL

(* No judge call outlives the audit that started it (protector.py:507-511). *)
THEOREM NoOrphans == Spec => []NoOrphanJudge
<1>1. IInv => NoOrphanJudge
  BY DEF IInv, PhaseInv, NoOrphanJudge
<1> QED BY <1>1, Invariance, PTL

(* The three outcomes follow from the answers (protector.py:495-524).      *)
THEOREM OutcomesFollowAnswers ==
  Spec => [](PassIsJustified /\ RaiseMeansTotalFailure /\ UndegradedMeansFullCoverage)
<1>1. IInv => PassIsJustified /\ RaiseMeansTotalFailure /\ UndegradedMeansFullCoverage
  BY DEF IInv, OutcomeInv
<1> QED BY <1>1, Invariance, PTL

(* No rule is put to the judge once the outcome is settled                 *)
(* (protector.py:508-510).                                                 *)
THEOREM DecisionStopsJudging == Spec => NoJudgeAfterDecision
<1>1. IInv /\ [Next]_vars => [pc = "cleanup" => Judging' \subseteq Judging]_vars
  <2> SUFFICES ASSUME IInv, Next, pc = "cleanup"
               PROVE  Judging' \subseteq Judging
    BY DEF vars
  <2>1. ASSUME NEW r \in Rules, Acquire(r) PROVE FALSE
    BY <2>1 DEF Acquire, MayEnter, IInv, PhaseInv, Live
  <2>2. ASSUME NEW r \in Rules, Answer(r) \/ Unwind(r) PROVE Judging' \subseteq Judging
    BY <2>2 DEF Answer, Unwind, Judging, IInv, Types
  <2>3. CASE CallerCancel \/ Gathered \/ Returned
    BY <2>3 DEF CallerCancel, Gathered, Returned, Judging, vars
  <2> QED BY <2>1, <2>2, <2>3 DEF Next, Dispatch, Consume
<1> QED BY <1>1, Invariance, PTL DEF Spec, NoJudgeAfterDecision

-----------------------------------------------------------------------------
(* Fanout implements AuditVerdict: a task that finishes teaches the audit  *)
(* one answer, the return publishes the outcome, all else is stuttering.   *)

LEMMA InitImplements == Init => Promise!Init
BY DEF Init, Promise!Init, NoOutcome, Promise!NoOutcome

LEMMA FinishImplements ==
  ASSUME IInv, NEW r \in Rules, Answer(r) \/ Unwind(r)
  PROVE  Promise!Next
<1>1. task[r] # "finished"
  BY DEF Answer, Unwind
<1>2. reply[r] = "none" /\ pc # "returned"
  BY <1>1 DEF IInv, TaskInv, PhaseInv, Live, Types
<1>3. pc' = pc /\ outcome' = outcome
  BY DEF Answer, Unwind
<1>4. \E a \in Verdicts \cup {"cancelled"} : reply' = [reply EXCEPT ![r] = a]
  BY DEF Answer, Unwind
<1>5. PICK a \in Verdicts \cup {"cancelled"} : reply' = [reply EXCEPT ![r] = a]
  BY <1>4
<1>6. [x \in {r} |-> a] \in [{r} -> Verdicts \cup {"cancelled"}]
  OBVIOUS
<1>7. reply' = [x \in Rules |-> IF x \in {r} THEN [y \in {r} |-> a][x] ELSE reply[x]]
  BY <1>5 DEF IInv, Types
<1>8. Promise!Learn({r})
  BY <1>2, <1>3, <1>6, <1>7 DEF Promise!Learn, Promise!Verdicts, Verdicts
<1> QED BY <1>8 DEF Promise!Next

LEMMA GatheredImplements ==
  ASSUME IInv, Gathered
  PROVE  Promise!Next
<1> DEFINE tells == IF pc = "returned" THEN outcome ELSE NoOutcome
<1>1. tells = NoOutcome /\ tells' = outcome' /\ reply' = reply
  BY DEF Gathered
<1>2. IInv'
  BY GatheredKeepsIInv
<1>3. outcome'.kind \in {"pass", "block", "raise", "cancelled"} /\ outcome'.degraded \in BOOLEAN
      /\ outcome' = [kind |-> outcome'.kind, degraded |-> outcome'.degraded]
  BY <1>2 DEF IInv, Types, PhaseInv, Gathered
<1>4. Live = {}
  BY DEF Gathered, TasksDone
<1> USE DEF Promise!NoOutcome, NoOutcome, Promise!Answered, Replied
<1>5. CASE outcome'.kind = "pass"
  <2>1. /\ Replied("pass") \cup Replied("error") = Rules
        /\ Replied("pass") # {}
        /\ outcome'.degraded <=> Replied("error") # {}
    BY <1>1, <1>2, <1>5 DEF IInv, OutcomeInv, PassIsJustified
  <2>2. outcome'.degraded = (Replied("error") # {})
    BY <1>3, <2>1
  <2>3. Promise!Pass
    BY <1>1, <1>3, <1>5, <2>1, <2>2 DEF Promise!Pass
  <2> QED BY <2>3 DEF Promise!Next
<1>6. CASE outcome'.kind = "block"
  <2>1. /\ Replied("fail") # {}
        /\ outcome'.degraded \/ Replied("pass") \cup Replied("fail") = Rules
    BY <1>1, <1>2, <1>6 DEF IInv, OutcomeInv, UndegradedMeansFullCoverage
  <2>2. Promise!Block
    BY <1>1, <1>3, <1>6, <2>1 DEF Promise!Block
  <2> QED BY <2>2 DEF Promise!Next
<1>7. CASE outcome'.kind = "raise"
  <2>1. Replied("error") = Rules /\ outcome'.degraded = FALSE
    BY <1>1, <1>2, <1>3, <1>7 DEF IInv, OutcomeInv, RaiseMeansTotalFailure
  <2>2. Promise!Raise
    BY <1>1, <1>3, <1>7, <2>1 DEF Promise!Raise
  <2> QED BY <2>2 DEF Promise!Next
<1>8. CASE outcome'.kind = "cancelled"
  <2>1. outcome'.degraded = FALSE
    BY <1>2, <1>3, <1>8 DEF IInv, PhaseInv
  <2>2. \A r \in Rules : reply[r] # "none"
    BY <1>4 DEF IInv, TaskInv, Live
  <2>3. Promise!Abandon
    BY <1>1, <1>3, <1>8, <2>1, <2>2 DEF Promise!Abandon
  <2> QED BY <2>3 DEF Promise!Next
<1> QED BY <1>3, <1>5, <1>6, <1>7, <1>8

(* A steps that is none of these leaves what the caller sees alone. *)
LEMMA OthersStutter ==
  ASSUME IInv, Dispatch \/ Consume \/ CallerCancel \/ Returned
         \/ (\E r \in Rules : Acquire(r)) \/ UNCHANGED vars
  PROVE  UNCHANGED Promise!vars
<1>1. CASE Dispatch \/ Consume \/ CallerCancel \/ (\E r \in Rules : Acquire(r))
  <2>1. reply' = reply
    BY <1>1 DEF Dispatch, Consume, CallerCancel, Acquire
  <2>2. CASE pc # "returned"
    <3>1. pc' # "returned"
      BY <1>1, <2>2 DEF Dispatch, Consume, CallerCancel, Acquire, EnterFinally
    <3> QED BY <2>1, <2>2, <3>1 DEF Promise!vars
  <2>3. CASE pc = "returned"
    BY <1>1, <2>3 DEF Dispatch, Consume, CallerCancel, Acquire, IInv, PhaseInv, Live
  <2> QED BY <2>2, <2>3
<1>2. CASE Returned \/ UNCHANGED vars
  BY <1>2 DEF Returned, vars, Promise!vars
<1> QED BY <1>1, <1>2

LEMMA PromiseStep ==
  ASSUME IInv, [Next]_vars
  PROVE  Promise!Next \/ UNCHANGED Promise!vars
<1>1. CASE Gathered
  BY <1>1, GatheredImplements
<1>2. ASSUME NEW r \in Rules, Answer(r) \/ Unwind(r)
      PROVE  Promise!Next
  BY <1>2, FinishImplements
<1>3. CASE ~Gathered /\ ~(\E r \in Rules : Answer(r) \/ Unwind(r))
  BY <1>3, OthersStutter DEF Next
<1> QED BY <1>1, <1>2, <1>3

(* The detailed audit keeps the promise of AuditVerdict, for any rules and *)
(* any concurrency limit (protector.py:450-524).                           *)
THEOREM Implementation == Spec => ImplementsAuditVerdict
<1>1. IInv /\ [Next]_vars => [Promise!Next]_(Promise!vars)
  BY PromiseStep
<1> QED BY <1>1, InitImplements, Invariance, PTL DEF Spec, ImplementsAuditVerdict, Promise!Spec

-----------------------------------------------------------------------------
(* Dispatch: what is fanned out is a Fanout, and the other ways keep the   *)
(* same promise.                                                           *)

(* Every step of a dispatched audit is one of the fan-out or leaves it     *)
(* alone, so whatever holds of Fanout holds of Dispatch.                   *)
THEOREM FansOut == DispatchSpec => Spec
<1>1. DispatchInit => Init
  BY DEF DispatchInit
<1>2. [DispatchNext]_dispatchVars => [Next]_vars
  BY DEF DispatchNext, OneCallEnds, Conclude, FanOut, Told, dispatchVars, vars
<1> QED BY <1>1, <1>2, PTL DEF DispatchSpec, Spec

(* A batched list has a judgement for every rule, a single call one, and   *)
(* nothing is told before the call has ended.                              *)
DInv ==
  /\ way \in {"default", "batch", "per_rule"}
  /\ ended \in {"no", "judged", "error", "cancelled"}
  /\ ended = "judged" =>
       /\ judgements \in Seq({"pass", "fail"})
       /\ way = "default" => Len(judgements) = 1
       /\ way = "batch" => Len(judgements) = Len(Order)
  /\ ended = "no" => told = NoOutcome
  /\ way = "per_rule" => ended = "no"

LEMMA JudgeBatchCovers ==
  ASSUME NEW verdicts \in Lists,
         \A i \in 1..Len(JudgeBatch(verdicts)) : JudgeBatch(verdicts)[i] # "no_object"
  PROVE  /\ JudgeBatch(verdicts) \in Seq({"pass", "fail"})
         /\ Len(JudgeBatch(verdicts)) = Len(Order)
<1> DEFINE n == Len(Order)
           list == JudgeBatch(verdicts)
<1>1. n \in Nat
  BY DispatchAssumption DEF DispatchAssumption
<1>2. verdicts \in Seq(Entries)
  BY DEF Lists
<1>3. list = [i \in 1..n |-> IF i <= Len(verdicts) THEN verdicts[i] ELSE "fail"]
  BY DEF JudgeBatch
<1>4. \A i \in 1..n : list[i] \in Entries
  BY <1>1, <1>2, <1>3 DEF Entries
<1>5. Len(list) = n /\ DOMAIN list = 1..n
  BY <1>1, <1>3
<1> HIDE DEF list
<1>6. \A i \in 1..n : list[i] \in {"pass", "fail"}
  BY <1>4, <1>5 DEF Entries, list
<1>7. list = [i \in 1..n |-> list[i]]
  BY <1>3
<1>8. list \in [1..n -> {"pass", "fail"}]
  BY <1>6, <1>7
<1>9. list \in Seq({"pass", "fail"})
  BY <1>1, <1>8
<1> QED BY <1>5, <1>9 DEF list

LEMMA DInvInit == DispatchInit => DInv
BY DEF DispatchInit, DInv, Way

LEMMA DInvNext == DInv /\ [DispatchNext]_dispatchVars => DInv'
<1> SUFFICES ASSUME DInv, [DispatchNext]_dispatchVars PROVE DInv'
  OBVIOUS
<1>1. CASE OneCallEnds
  <2>1. way' = way /\ told' = told /\ told = NoOutcome /\ way # "per_rule"
    BY <1>1 DEF OneCallEnds, DInv
  <2>2. CASE CallFails("error") \/ CallFails("cancelled")
    BY <2>1, <2>2 DEF CallFails, DInv
  <2>3. ASSUME way = "default", NEW j \in {"pass", "fail"}, CallReturns(<<j>>)
        PROVE  DInv'
    BY <2>1, <2>3 DEF CallReturns, DInv
  <2>4. ASSUME way = "batch", NEW verdicts \in Lists, CallReturns(JudgeBatch(verdicts)),
               \A i \in 1..Len(JudgeBatch(verdicts)) : JudgeBatch(verdicts)[i] # "no_object"
        PROVE  DInv'
    BY <2>1, <2>4, JudgeBatchCovers DEF CallReturns, DInv
  <2> QED BY <1>1, <2>2, <2>3, <2>4 DEF OneCallEnds
<1>2. CASE Conclude
  BY <1>2 DEF Conclude, DInv
<1>3. CASE FanOut
  BY <1>3 DEF FanOut, callVars, DInv
<1>4. CASE UNCHANGED dispatchVars
  BY <1>4 DEF dispatchVars, DInv
<1> QED BY <1>1, <1>2, <1>3, <1>4 DEF DispatchNext, Told

(* A fanned-out audit is seen through Verdict as through Promise. *)
LEMMA SameView ==
  ASSUME way = "per_rule", way' = way, [Promise!Next]_(Promise!vars)
  PROVE  [Verdict!Next]_(Verdict!vars)
BY DEF Promise!Next, Promise!vars, Promise!Learn, Promise!Pass, Promise!Block, Promise!Raise,
       Promise!Abandon, Promise!Answered, Promise!Verdicts, Promise!NoOutcome,
       Verdict!Next, Verdict!vars, Verdict!Learn, Verdict!Pass, Verdict!Block, Verdict!Raise,
       Verdict!Abandon, Verdict!Answered, Verdict!Verdicts, Verdict!NoOutcome

LEMMA PlaceOf ==
  ASSUME NEW r \in Rules
  PROVE  Place(r) \in 1..Len(Order) /\ Order[Place(r)] = r
BY DispatchAssumption DEF DispatchAssumption, Place

LEMMA PlaceIsUnique ==
  ASSUME NEW i \in 1..Len(Order)
  PROVE  Order[i] \in Rules /\ Place(Order[i]) = i
<1>1. Order[i] \in Rules
  BY DispatchAssumption DEF DispatchAssumption
<1> QED BY <1>1, PlaceOf, DispatchAssumption DEF DispatchAssumption

(* There is a rule, so the list of them is not empty. *)
LEMMA SomeRule == Len(Order) \in Nat \ {0}
<1>1. PICK r \in Rules : TRUE
  BY FanoutAssumption DEF FanoutAssumption
<1> QED BY <1>1, PlaceOf, DispatchAssumption DEF DispatchAssumption

LEMMA OneCallImplements ==
  ASSUME DInv, DInv', OneCallEnds
  PROVE  Verdict!Next
<1> DEFINE before == [r \in Rules |-> Said(r)]
<1>1. way' = way /\ way # "per_rule" /\ ended = "no" /\ told' = told
      /\ ended' \in {"judged", "error", "cancelled"}
  BY DEF OneCallEnds, CallFails, CallReturns
<1>2. \A r \in Rules : Said(r) = "none"
  BY <1>1 DEF Said
<1>3. \A r \in Rules : Said(r)' \in Verdicts \cup {"cancelled"}
  <2> SUFFICES ASSUME NEW r \in Rules
               PROVE  Said(r)' \in Verdicts \cup {"cancelled"}
    OBVIOUS
  <2>1. CASE ended' # "judged"
    BY <1>1, <2>1 DEF Said, Verdicts
  <2>2. CASE ended' = "judged"
    BY <1>1, <2>2, PlaceOf DEF Said, Verdicts, DInv
  <2> QED BY <2>1, <2>2
<1> DEFINE given == [r \in Rules |-> Said(r)']
<1>4. given \in [Rules -> Verdict!Verdicts \cup {"cancelled"}]
  BY <1>3 DEF Verdicts, Verdict!Verdicts
<1>5. before' = [r \in Rules |-> IF r \in Rules THEN given[r] ELSE before[r]]
  OBVIOUS
<1> HIDE DEF given
<1>6. \A r \in Rules : before[r] = "none"
  BY <1>2
<1> HIDE DEF before
<1>7. Rules # {} /\ Rules \in SUBSET Rules
  BY FanoutAssumption DEF FanoutAssumption
<1>8. Verdict!Learn(Rules)
  BY <1>1, <1>4, <1>5, <1>6, <1>7 DEF Verdict!Learn, before
<1> QED BY <1>7, <1>8 DEF Verdict!Next

LEMMA ConcludeImplements ==
  ASSUME DInv, Conclude
  PROVE  Verdict!Next
<1> DEFINE says == [r \in Rules |-> Said(r)]
<1>1. way' = way /\ way # "per_rule" /\ told = NoOutcome /\ told' = Concluded
  BY DEF Conclude, DInv
<1>2. says' = says
  BY DEF Conclude, Said
<1>3. \A a : Verdict!Answered(a) = {r \in Rules : Said(r) = a}
  BY <1>1 DEF Verdict!Answered
<1>4. CASE ended = "error"
  <2>1. \A r \in Rules : Said(r) = "error"
    BY <1>4 DEF Said
  <2>2. Concluded = [kind |-> "raise", degraded |-> FALSE]
    BY <1>4 DEF Concluded
  <2>3. Verdict!Raise
    BY <1>1, <1>2, <1>3, <2>1, <2>2 DEF Verdict!Raise, NoOutcome, Verdict!NoOutcome
  <2> QED BY <2>3 DEF Verdict!Next
<1>5. CASE ended = "cancelled"
  <2>1. \A r \in Rules : Said(r) = "cancelled"
    BY <1>5 DEF Said
  <2>2. Concluded = [kind |-> "cancelled", degraded |-> FALSE]
    BY <1>5 DEF Concluded
  <2>3. Verdict!Abandon
    BY <1>1, <1>2, <2>1, <2>2 DEF Verdict!Abandon, NoOutcome, Verdict!NoOutcome
  <2> QED BY <2>3 DEF Verdict!Next
<1>6. CASE ended = "judged"
  <2>1. \A r \in Rules : Said(r) \in {"pass", "fail"}
    BY <1>1, <1>6, PlaceOf DEF Said, DInv
  <2>2. \A r \in Rules : \E i \in Paired : judgements[i] = Said(r)
    BY <1>1, <1>6, PlaceOf, SomeRule DEF Said, DInv, Paired
  <2>3. ASSUME NEW i \in Paired
        PROVE  \E r \in Rules : Said(r) = judgements[i]
    <3>1. i \in 1..Len(judgements) /\ i <= Len(Order) /\ i \in 1..Len(Order)
      BY <1>6, SomeRule DEF Paired, DInv
    <3>2. Said(Order[i]) = judgements[i] /\ Order[i] \in Rules
      BY <1>1, <1>6, <3>1, PlaceIsUnique DEF Said, DInv
    <3> QED BY <3>2
  <2>4. CASE \E i \in Paired : judgements[i] = "fail"
    <3>1. Concluded = [kind |-> "block", degraded |-> FALSE]
      BY <1>6, <2>4 DEF Concluded
    <3>2. \E r \in Rules : Said(r) = "fail"
      BY <2>3, <2>4
    <3>3. Verdict!Block
      BY <1>1, <1>2, <1>3, <2>1, <3>1, <3>2 DEF Verdict!Block, NoOutcome, Verdict!NoOutcome
    <3> QED BY <3>3 DEF Verdict!Next
  <2>5. CASE ~(\E i \in Paired : judgements[i] = "fail")
    <3>1. Concluded = [kind |-> "pass", degraded |-> FALSE]
      BY <1>6, <2>5 DEF Concluded
    <3>2. \A r \in Rules : Said(r) = "pass"
      BY <2>1, <2>2, <2>5
    <3>3. Rules # {}
      BY FanoutAssumption DEF FanoutAssumption
    <3>4. Verdict!Pass
      BY <1>1, <1>2, <1>3, <3>1, <3>2, <3>3 DEF Verdict!Pass, NoOutcome, Verdict!NoOutcome
    <3> QED BY <3>4 DEF Verdict!Next
  <2> QED BY <2>4, <2>5
<1> QED BY <1>4, <1>5, <1>6 DEF Conclude, DInv

(* The audit keeps the promise of AuditVerdict, for every list of rules,   *)
(* limit and list of judgements, whichever way the rules are put to the    *)
(* auditor (protector.py:377-524).                                         *)
THEOREM DispatchImplements == DispatchSpec => EveryWayImplementsAuditVerdict
<1>1. DispatchInit => Verdict!Init
  <2> SUFFICES ASSUME DispatchInit PROVE Verdict!Init
    OBVIOUS
  <2>1. \A r \in Rules : Said(r) = "none" /\ reply[r] = "none"
    BY DEF DispatchInit, Init, Said
  <2>2. told = NoOutcome /\ pc # "returned" /\ reply = [r \in Rules |-> "none"]
    BY DEF DispatchInit, Init
  <2> QED BY <2>1, <2>2 DEF Verdict!Init, Verdict!NoOutcome, NoOutcome
<1>2. IInv /\ DInv /\ DInv' /\ [DispatchNext]_dispatchVars => [Verdict!Next]_(Verdict!vars)
  <2> SUFFICES ASSUME IInv, DInv, DInv', [DispatchNext]_dispatchVars
               PROVE  Verdict!Next \/ UNCHANGED Verdict!vars
    OBVIOUS
  <2>1. CASE OneCallEnds
    BY <2>1, OneCallImplements
  <2>2. CASE Conclude
    BY <2>2, ConcludeImplements
  <2>3. CASE FanOut
    BY <2>3, PromiseStep, SameView DEF FanOut
  <2>4. CASE UNCHANGED dispatchVars
    BY <2>4 DEF dispatchVars, Verdict!vars, Said
  <2> QED BY <2>1, <2>2, <2>3, <2>4 DEF DispatchNext, Told
<1> QED BY <1>1, <1>2, FansOut, Invariance, DInvInit, DInvNext, PTL
        DEF DispatchSpec, EveryWayImplementsAuditVerdict, Verdict!Spec
=============================================================================
