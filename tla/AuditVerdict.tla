---------------------------- MODULE AuditVerdict ----------------------------
(***************************************************************************)
(* What an audit promises, without tasks, permits or queues: every rule is *)
(* put to the judge at most once, and the audit's outcome follows from the *)
(* answers.  Fanout.tla implements it, and so does Dispatch.tla.           *)
(***************************************************************************)
EXTENDS FiniteSets

CONSTANT Rules            \* the rules of the request

Verdicts == {"pass", "fail", "error"}            \* what a judge call may end with
NoOutcome == [kind |-> "none", degraded |-> FALSE]

VARIABLES answers,        \* rule -> what its judge call ended with
          out             \* what the audit has told its caller

vars == <<answers, out>>

Init == /\ answers = [r \in Rules |-> "none"]
        /\ out = NoOutcome

(* Judge calls end, with answers or because the audit gave them up: one    *)
(* rule's call, or one that was about several rules.                       *)
Learn(S) ==
  /\ S # {} /\ \A r \in S : answers[r] = "none"
  /\ \E given \in [S -> Verdicts \cup {"cancelled"}] :
       answers' = [r \in Rules |-> IF r \in S THEN given[r] ELSE answers[r]]
  /\ UNCHANGED out

Answered(a) == {r \in Rules : answers[r] = a}

(* No rule was violated, at least one was judged; crashed ones degrade it. *)
Pass ==
  /\ out = NoOutcome
  /\ Answered("pass") \cup Answered("error") = Rules
  /\ Answered("pass") # {}
  /\ out' = [kind |-> "pass", degraded |-> Answered("error") # {}]
  /\ UNCHANGED answers

(* Some rule was violated; an undegraded block has judged every rule. *)
Block ==
  /\ out = NoOutcome
  /\ Answered("fail") # {}
  /\ \E d \in BOOLEAN :
       /\ d \/ Answered("pass") \cup Answered("fail") = Rules
       /\ out' = [kind |-> "block", degraded |-> d]
  /\ UNCHANGED answers

(* The auditor is down: no rule got an answer. *)
Raise ==
  /\ out = NoOutcome
  /\ Answered("error") = Rules
  /\ out' = [kind |-> "raise", degraded |-> FALSE]
  /\ UNCHANGED answers

(* The caller cancelled the request: it gets no verdict at all. *)
Abandon ==
  /\ out = NoOutcome
  /\ \A r \in Rules : answers[r] # "none"
  /\ out' = [kind |-> "cancelled", degraded |-> FALSE]
  /\ UNCHANGED answers

Next == (\E S \in SUBSET Rules : Learn(S)) \/ Pass \/ Block \/ Raise \/ Abandon

Spec == Init /\ [][Next]_vars
=============================================================================
