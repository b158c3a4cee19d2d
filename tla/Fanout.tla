------------------------------- MODULE Fanout -------------------------------
(***************************************************************************)
(* PromptProtector._judge_per_rule (protector.py:450-524): one asyncio     *)
(* task per rule, at most MaxConcurrent of them past the semaphore, the    *)
(* replies awaited in completion order, an early return on the first       *)
(* violation, and a "finally" that cancels the rest and waits for them.    *)
(* The caller may be cancelled at either of the two awaits.                *)
(*                                                                         *)
(* A judge call with its timeout and retries (_call_with_policy) is one    *)
(* step here, Answer; Retry.tla opens it.  Which of the waiting tasks gets *)
(* a free permit is left open.                                             *)
(***************************************************************************)
EXTENDS Integers, Sequences, FiniteSets

CONSTANTS Rules,          \* the rules of the request
          MaxConcurrent   \* self._max_concurrent_judges

(* _judge_per_rule is called with at least one rule, and the constructor   *)
(* raises a limit below 1 to 1.                                            *)
ASSUME FanoutAssumption ==
  /\ IsFiniteSet(Rules) /\ Rules # {}
  /\ MaxConcurrent \in Nat \ {0}

Verdicts == {"pass", "fail", "error"}    \* judge_one's j.passed, not j.passed, j None
NoOutcome == [kind |-> "none", degraded |-> FALSE]

VARIABLES
  pc,          \* where the call is: "idle", "loop", "cleanup" or "returned"
  task,        \* rule -> "none", "waiting" (for a permit), "judging" or "finished"
  reply,       \* rule -> "none", a verdict, or "cancelled"
  cancelling,  \* the tasks t.cancel() was called on
  permits,     \* the semaphore's value
  completed,   \* as_completed's queue: finished tasks the loop has not awaited
  seen,        \* rules whose reply the loop has taken
  succeeded,   \* the counter of the same name
  outcome      \* what the call is about to return or raise

vars == <<pc, task, reply, cancelling, permits, completed, seen, succeeded, outcome>>

Init ==
  /\ pc = "idle"
  /\ task = [r \in Rules |-> "none"]
  /\ reply = [r \in Rules |-> "none"]
  /\ cancelling = {}
  /\ permits = MaxConcurrent
  /\ completed = <<>>
  /\ seen = {}
  /\ succeeded = 0
  /\ outcome = NoOutcome

Live == {r \in Rules : task[r] # "finished"}
Judging == {r \in Rules : task[r] = "judging"}
Replied(a) == {r \in Rules : reply[r] = a}

(* tasks = [asyncio.create_task(judge_one(r)) for r in rules] *)
Dispatch ==
  /\ pc = "idle"
  /\ pc' = "loop"
  /\ task' = [r \in Rules |-> "waiting"]
  /\ UNCHANGED <<reply, cancelling, permits, completed, seen, succeeded, outcome>>

UncountedMayEnter(r) == r \notin cancelling
DeafMayEnter(r) == permits > 0

(* "async with sem": a permit is free, and a task whose cancellation is    *)
(* pending never gets past it.                                             *)
MayEnter(r) == permits > 0 /\ r \notin cancelling

Acquire(r) ==
  /\ task[r] = "waiting"
  /\ MayEnter(r)
  /\ task' = [task EXCEPT ![r] = "judging"]
  /\ permits' = permits - 1
  /\ UNCHANGED <<pc, reply, cancelling, completed, seen, succeeded, outcome>>

(* judge_one returns (rule, j, exc).  A cancelled task can still get here: *)
(* before Python 3.12 asyncio.wait_for hands over an answer that arrived   *)
(* together with the cancellation.                                         *)
Answer(r) ==
  /\ task[r] = "judging"
  /\ \E a \in Verdicts : reply' = [reply EXCEPT ![r] = a]
  /\ task' = [task EXCEPT ![r] = "finished"]
  /\ permits' = permits + 1
  /\ completed' = Append(completed, r)
  /\ UNCHANGED <<pc, cancelling, seen, succeeded, outcome>>

(* CancelledError leaves judge_one, from the semaphore or from the call. *)
Unwind(r) ==
  /\ r \in cancelling
  /\ task[r] \in {"waiting", "judging"}
  /\ task' = [task EXCEPT ![r] = "finished"]
  /\ reply' = [reply EXCEPT ![r] = "cancelled"]
  /\ permits' = IF task[r] = "judging" THEN permits + 1 ELSE permits
  /\ UNCHANGED <<pc, cancelling, completed, seen, succeeded, outcome>>

(* The first half of the "finally": cancel whatever is not done, then gather. *)
EnterFinally ==
  /\ pc' = "cleanup"
  /\ cancelling' = cancelling \cup Live

LateLast(r) == seen = Rules

(* Rule r's reply is the last one the loop awaits: the for statement ends. *)
Last(r) == seen \cup {r} = Rules

(* j is not None: the rule was judged. *)
Counts(r) == reply[r] # "error"

(* One turn of "for fut in asyncio.as_completed(tasks)". *)
Consume ==
  /\ pc = "loop"
  /\ completed # <<>>
  /\ LET r == Head(completed) IN
       /\ seen' = seen \cup {r}
       /\ succeeded' = IF Counts(r) THEN succeeded + 1 ELSE succeeded
       /\ IF reply[r] = "fail"
          THEN /\ outcome' = [kind |-> "block", degraded |-> succeeded' < Cardinality(Rules)]
               /\ EnterFinally
          ELSE /\ UNCHANGED outcome
               /\ IF Last(r) THEN EnterFinally ELSE UNCHANGED <<pc, cancelling>>
  /\ completed' = Tail(completed)
  /\ UNCHANGED <<task, reply, permits>>

(* The request is cancelled at "await fut" or at "await asyncio.gather". *)
CallerCancel ==
  /\ pc \in {"loop", "cleanup"}
  /\ outcome.kind # "cancelled"
  /\ outcome' = [kind |-> "cancelled", degraded |-> FALSE]
  /\ EnterFinally
  /\ UNCHANGED <<task, reply, permits, completed, seen, succeeded>>

(* The code behind the "finally", reached when no rule was violated. *)
Conclusion ==
  IF succeeded = 0
  THEN [kind |-> "raise", degraded |-> FALSE]
  ELSE [kind |-> "pass", degraded |-> succeeded < Cardinality(Rules)]

NobodyIsWaitedFor == TRUE

(* Every task is done, cancelled or not. *)
TasksDone == Live = {}

(* await asyncio.gather( *tasks, return_exceptions=True), and the return. *)
Gathered ==
  /\ pc = "cleanup"
  /\ TasksDone
  /\ pc' = "returned"
  /\ outcome' = IF outcome = NoOutcome THEN Conclusion ELSE outcome
  /\ UNCHANGED <<task, reply, cancelling, permits, completed, seen, succeeded>>

(* The call has returned: nothing is left to happen. *)
Returned == pc = "returned" /\ UNCHANGED vars

Next ==
  \/ Dispatch
  \/ \E r \in Rules : Acquire(r) \/ Answer(r) \/ Unwind(r)
  \/ Consume
  \/ CallerCancel
  \/ Gathered
  \/ Returned

Spec == Init /\ [][Next]_vars

-----------------------------------------------------------------------------
TypeOK ==
  /\ pc \in {"idle", "loop", "cleanup", "returned"}
  /\ task \in [Rules -> {"none", "waiting", "judging", "finished"}]
  /\ reply \in [Rules -> Verdicts \cup {"none", "cancelled"}]
  /\ cancelling \in SUBSET Rules
  /\ permits \in 0..MaxConcurrent
  /\ completed \in Seq(Rules)
  /\ seen \in SUBSET Rules
  /\ succeeded \in Nat
  /\ outcome \in [kind : {"none", "pass", "block", "raise", "cancelled"},
                  degraded : BOOLEAN]

(* At most max_concurrent_judges judge calls of a request are in flight,   *)
(* whatever is cancelled or fails meanwhile (protector.py:458, 463).       *)
BoundedFanout == Cardinality(Judging) <= MaxConcurrent

(* When the audit has returned or raised, no judge call of it still runs:  *)
(* neither an early return nor a cancellation leaves a task behind         *)
(* (the "finally" at protector.py:507-511).                                *)
NoOrphanJudge == pc = "returned" => Live = {}

(* A pass is only ever reported when every rule was judged or crashed,     *)
(* none was violated, and one at least was judged; it is degraded exactly  *)
(* when a judge crashed (protector.py:513-524).                            *)
PassIsJustified ==
  outcome.kind = "pass" =>
    /\ Replied("pass") \cup Replied("error") = Rules
    /\ Replied("pass") # {}
    /\ outcome.degraded <=> Replied("error") # {}

(* The failure mode is only reached when the auditor answered for no rule  *)
(* at all (protector.py:513-519).                                          *)
RaiseMeansTotalFailure == outcome.kind = "raise" => Replied("error") = Rules

(* A verdict not marked degraded has judged every rule, also when it is a  *)
(* block that returned early (protector.py:505).                           *)
UndegradedMeansFullCoverage ==
  (outcome.kind \in {"pass", "block"} /\ ~outcome.degraded) =>
    Replied("pass") \cup Replied("fail") = Rules

(* Once the outcome is settled no further rule is put to the judge: tasks  *)
(* still waiting for the semaphore never spend a call (protector.py:508).  *)
NoJudgeAfterDecision ==
  [][pc = "cleanup" => Judging' \subseteq Judging]_vars

(* The audit keeps the promise of AuditVerdict: the caller learns of the   *)
(* outcome when the call returns.                                          *)
Promise == INSTANCE AuditVerdict WITH
             answers <- reply,
             out <- IF pc = "returned" THEN outcome ELSE NoOutcome
ImplementsAuditVerdict == Promise!Spec
=============================================================================
