-------------------------------- MODULE Gate --------------------------------
(***************************************************************************)
(* What PromptProtector promises when it enforces and fails closed: nothing *)
(* passes that the auditor has not passed.  How verdicts are reused, what  *)
(* fails on the way and what is cancelled is left open.  Pipeline.tla      *)
(* implements it.                                                          *)
(***************************************************************************)
CONSTANTS Reqs,           \* the requests
          Texts           \* what may be audited

VARIABLES subject,        \* request -> the text its answer is about
          verdicts,       \* <<text, passed>> pairs the auditor has returned
          answer          \* request -> "none", "pass", "block" or "dropped"

vars == <<subject, verdicts, answer>>

Init == /\ subject \in [Reqs -> Texts]
        /\ verdicts = {}
        /\ answer = [r \in Reqs |-> "none"]

(* The auditor judges a text. *)
Judge == /\ \E t \in Texts, p \in BOOLEAN : verdicts' = verdicts \cup {<<t, p>>}
         /\ UNCHANGED <<subject, answer>>

Tell(r, a) == /\ answer[r] = "none"
              /\ answer' = [answer EXCEPT ![r] = a]
              /\ UNCHANGED subject

(* A request passes only on a verdict about its text. *)
Pass(r) == /\ <<subject[r], TRUE>> \in verdicts'
           /\ \/ verdicts' = verdicts
              \/ verdicts' = verdicts \cup {<<subject[r], TRUE>>}
           /\ Tell(r, "pass")

(* It may always be blocked; the verdict may arrive with the answer. *)
Block(r) == /\ \/ verdicts' = verdicts
               \/ verdicts' = verdicts \cup {<<subject[r], FALSE>>}
            /\ Tell(r, "block")

(* It may be cancelled, or end in an exception. *)
Drop(r) == Tell(r, "dropped") /\ UNCHANGED verdicts

Next == Judge \/ \E r \in Reqs : Pass(r) \/ Block(r) \/ Drop(r)

Spec == Init /\ [][Next]_vars
=============================================================================
