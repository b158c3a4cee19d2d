------------------------------ MODULE Dispatch ------------------------------
(***************************************************************************)
(* PromptProtector._run_auditor (protector.py:377-448): a request without  *)
(* rules gets one judge call, one for an output with several rules may get *)
(* one batched call (judge_batch of openai_backend.py and                  *)
(* anthropic_backend.py), and any other is fanned out (Fanout.tla).        *)
(*                                                                         *)
(* A judge call with its timeout and retries is one step, as in Fanout.    *)
(***************************************************************************)
EXTENDS Fanout

CONSTANT Order            \* the rules as the request lists them

ASSUME DispatchAssumption ==
  /\ Order \in Seq(Rules)
  /\ \A r \in Rules : \E i \in 1..Len(Order) : Order[i] = r
  /\ \A i, j \in 1..Len(Order) : Order[i] = Order[j] => i = j

VARIABLES
  way,          \* "default", "batch" or "per_rule"
  ended,        \* how the one call ended: "no", "judged", "error", "cancelled"
  judgements,   \* what judge or judge_batch returned
  told          \* what _run_auditor returned or raised after that call

callVars == <<ended, judgements, told>>
dispatchVars == <<pc, task, reply, cancelling, permits, completed, seen, succeeded, outcome,
                  way, ended, judgements, told>>

(* The branches, by what the caller and the constructor were given. *)
Way(hasRules, isOutput, batchRules, isBatchAuditor) ==
  IF ~hasRules THEN "default"
  ELSE IF isOutput /\ batchRules /\ isBatchAuditor /\ Cardinality(Rules) > 1 THEN "batch"
  ELSE "per_rule"

DispatchInit ==
  /\ Init
  /\ \E r, o, b, a \in BOOLEAN : way = Way(r, o, b, a)
  /\ ended = "no" /\ judgements = <<>> /\ told = NoOutcome

(* data.get("verdicts") or []: a list, of entries that hold a judgement or *)
(* are no objects.  What is true but no list raises when it is indexed.    *)
Entries == {"pass", "fail", "no_object"}
Lists == UNION {[1..n -> Entries] : n \in 0..(Len(Order) + 1)}

OnlyThoseThere(verdicts) ==
  IF Len(verdicts) > Len(Order) THEN SubSeq(verdicts, 1, Len(Order)) ELSE verdicts

(* judge_batch: an entry for every rule, a refusal where the model gave none. *)
JudgeBatch(verdicts) ==
  [i \in 1..Len(Order) |-> IF i <= Len(verdicts) THEN verdicts[i] ELSE "fail"]

CallFails(how) == ended' = how /\ judgements' = <<>>
CallReturns(list) == ended' = "judged" /\ judgements' = list

(* The call of the default or the batched way ends, or its caller's does. *)
OneCallEnds ==
  /\ way # "per_rule" /\ ended = "no"
  /\ \/ CallFails("error")
     \/ CallFails("cancelled")
     \/ way = "default" /\ \E j \in {"pass", "fail"} : CallReturns(<<j>>)
     \/ way = "batch" /\ \E verdicts \in Lists :
          LET list == JudgeBatch(verdicts)
          IN IF \E i \in 1..Len(list) : list[i] = "no_object"
             THEN CallFails("error") ELSE CallReturns(list)
  /\ UNCHANGED <<vars, way, told>>

IgnoresLast == {i \in 1..Len(judgements) : i < Len(Order)}

(* zip(rules, judgements): as far as both lists go. *)
Paired == {i \in 1..Len(judgements) : i <= Len(Order)}

(* The rest of _run_auditor: a judgement that did not pass blocks. *)
Concluded ==
  [kind |-> CASE ended = "error" -> "raise"
              [] ended = "cancelled" -> "cancelled"
              [] OTHER -> IF \E i \in Paired : judgements[i] = "fail" THEN "block" ELSE "pass",
   degraded |-> FALSE]

Conclude ==
  /\ ended # "no" /\ told = NoOutcome
  /\ told' = Concluded
  /\ UNCHANGED <<vars, way, ended, judgements>>

FanOut == way = "per_rule" /\ Next /\ UNCHANGED <<way, callVars>>

Told == told # NoOutcome /\ UNCHANGED dispatchVars

DispatchNext == OneCallEnds \/ Conclude \/ FanOut \/ Told

DispatchSpec == DispatchInit /\ [][DispatchNext]_dispatchVars

(* The event loop runs every ready callback, and every judge call ends: its *)
(* attempts are bounded in number and each by timeout_s (Retry.tla).       *)
DispatchFairSpec ==
  /\ DispatchSpec
  /\ WF_dispatchVars(OneCallEnds) /\ WF_dispatchVars(Conclude)
  /\ WF_dispatchVars(FanOut /\ (Dispatch \/ Consume \/ Gathered))
  /\ \A r \in Rules : /\ WF_dispatchVars(FanOut /\ Acquire(r))
                      /\ WF_dispatchVars(FanOut /\ (Answer(r) \/ Unwind(r)))

-----------------------------------------------------------------------------
Place(r) == CHOOSE i \in 1..Len(Order) : Order[i] = r

(* What the one call has said of a rule; the answer to a request without   *)
(* rules stands for whatever it might have asked.                          *)
Said(r) ==
  IF ended # "judged" THEN IF ended = "no" THEN "none" ELSE ended
  ELSE IF way = "default" THEN judgements[1]
  ELSE IF Place(r) \in 1..Len(judgements) THEN judgements[Place(r)] ELSE "none"

(* Every audit ends, whichever way it goes (protector.py:377-524).         *)
AuditEnds == <>(told # NoOutcome \/ pc = "returned")

(* Whichever way the rules are put to the auditor, the audit keeps the     *)
(* promise of AuditVerdict: a batched pass has a passing judgement for     *)
(* every rule too, however short, long or odd the model's list was         *)
(* (protector.py:414-443, openai_backend.py:94-99).                        *)
Verdict == INSTANCE AuditVerdict WITH
  answers <- IF way = "per_rule" THEN reply ELSE [r \in Rules |-> Said(r)],
  out <- IF way # "per_rule" THEN told ELSE IF pc = "returned" THEN outcome ELSE NoOutcome
EveryWayImplementsAuditVerdict == Verdict!Spec
=============================================================================
