---------------------------- MODULE Stream_proofs ----------------------------
(***************************************************************************)
(* Proofs about Stream, for every window, chunk size and passage.          *)
(***************************************************************************)
EXTENDS Stream, SequenceTheorems, TLAPS

(* Only the pending audit is under way, and no verdict is overlooked. *)
TaskInv ==
  \A i \in 1..Len(tasks) :
    /\ i # pending => tasks[i] \in Done
    /\ (i # pending /\ tasks[i] = "failed") => pc \in {"violation", "closed"} /\ why # "none"
    /\ pc = "closed" => tasks[i] # "running"

(* How far the caller is behind the upstream. *)
FlowInv ==
  /\ pc \in {"chunk", "drain", "final"} => given = seen
  /\ pc = "upstream" => given = seen
  /\ pc = "violation" <=> (why # "none" /\ outcome = "none")
  /\ pc = "closed" <=> outcome # "none"
  /\ pc \in {"upstream", "chunk", "drain", "final"} => why = "none"
  /\ (Short(passage) /\ pc \in {"upstream", "chunk", "drain", "final"}) => seen < passage.to
  /\ Short(passage) => given < passage.to

(* What is known at the end of the stream. *)
EndInv ==
  /\ pc = "drain" => pending # 0 /\ upstream = "exhausted"
  /\ pc = "final" => pending = 0 /\ upstream = "exhausted"
  /\ outcome = "complete" => /\ upstream = "exhausted" /\ why = "none" /\ given = seen
                             /\ seen > 0 => final = "passed"
                             /\ pending = 0

IInv == TypeOK /\ TaskInv /\ FlowInv /\ EndInv

USE DEF Ongoing, Done

LEMMA InitIInv == Init => IInv
<1> SUFFICES ASSUME Init PROVE IInv
  OBVIOUS
<1>1. passage \in Piece /\ passage.from < passage.to
  BY StreamAssumption DEF Init
<1>2. tasks = <<>> /\ Len(tasks) = 0 /\ tasks \in Seq(Ongoing \cup Done)
  BY DEF Init
<1>3. TypeOK
  <2>1. given \in 0..seen /\ since \in 0..seen /\ pending \in 0..Len(tasks) /\ seen \in Nat
    BY <1>2 DEF Init
  <2> QED BY <1>2, <2>1 DEF Init, TypeOK
<1>4. TaskInv /\ FlowInv /\ EndInv
  BY <1>1, <1>2 DEF Init, TaskInv, FlowInv, EndInv, Piece
<1> QED BY <1>3, <1>4 DEF IInv

(* A chunk that completes a short passage is flagged. *)
LEMMA ShortIsFlagged ==
  ASSUME passage \in Passages, Short(passage), seen \in Nat, seen < passage.to,
         NEW n \in 0..MaxChunk, passage.to <= seen + n
  PROVE  Flagged(seen + n)
<1>1. passage.from \in Nat /\ passage.to \in Nat /\ HeurWindow \in Nat
  BY StreamAssumption DEF Piece, HeurWindow
<1> QED BY <1>1, StreamAssumption DEF Short, Flagged

LEMMA ChunkKeeps == ASSUME IInv, Chunk PROVE IInv'
<1>1. PICK n \in 0..MaxChunk :
        /\ seen' = seen + n /\ since' = since + n
        /\ IF Flagged(seen + n)
           THEN Yield("heuristic") /\ UNCHANGED <<given, pending>>
           ELSE /\ pending' = IF AuditFinished THEN 0 ELSE pending
                /\ IF AuditFailed
                   THEN Yield("window") /\ UNCHANGED given
                   ELSE pc' = "chunk" /\ given' = seen + n /\ UNCHANGED why
  BY DEF Chunk
<1>2. pc = "upstream" /\ UNCHANGED <<passage, tasks, final, upstream, reading, outcome>>
  BY DEF Chunk
<1>3. /\ seen \in Nat /\ n \in Nat /\ given = seen /\ since \in 0..seen /\ why = "none"
      /\ outcome = "none" /\ passage \in Passages
  BY <1>2, StreamAssumption DEF IInv, TypeOK, FlowInv
<1>4. passage.to \in Nat
  BY <1>3, StreamAssumption DEF Piece
<1>5. pending' \in {0, pending}
  BY <1>1
<1>6. TypeOK'
  <2>1. seen' \in Nat /\ since' \in 0..seen' /\ given' \in 0..seen'
    BY <1>1, <1>3
  <2>2. pc' \in {"chunk", "violation"} /\ why' \in {"none", "heuristic", "window"}
    BY <1>1, <1>3 DEF Yield
  <2>3. pending' \in 0..Len(tasks)
    BY <1>5 DEF IInv, TypeOK
  <2> QED BY <1>2, <2>1, <2>2, <2>3 DEF IInv, TypeOK
<1>7. TaskInv'
  <2> SUFFICES ASSUME NEW i \in 1..Len(tasks)
               PROVE  /\ i # pending' => tasks[i] \in Done
                      /\ (i # pending' /\ tasks[i] = "failed") =>
                           pc' \in {"violation", "closed"} /\ why' # "none"
                      /\ pc' = "closed" => tasks[i] # "running"
    BY <1>2 DEF TaskInv
  <2>1. pc' # "closed"
    BY <1>1 DEF Yield
  <2>2. CASE i # pending
    BY <1>2, <1>3, <2>1, <2>2 DEF IInv, TaskInv
  <2>3. CASE i = pending /\ pending' = pending
    BY <2>1, <2>3
  <2>4. CASE i = pending /\ pending' # pending
    BY <1>1, <2>1, <2>4 DEF AuditFinished, AuditFailed, Yield
  <2> QED BY <2>2, <2>3, <2>4
<1>8. FlowInv'
  <2>1. (pc' = "chunk" /\ Short(passage)) => seen' < passage.to
    <3> SUFFICES ASSUME pc' = "chunk", Short(passage), ~(seen + n < passage.to) PROVE FALSE
      BY <1>1
    <3>1. seen < passage.to
      BY <1>2 DEF IInv, FlowInv
    <3>2. Flagged(seen + n)
      BY <1>3, <1>4, <3>1, ShortIsFlagged
    <3> QED BY <1>1, <3>2 DEF Yield
  <2>2. Short(passage) => given < passage.to
    BY DEF IInv, FlowInv
  <2>3. \/ pc' = "chunk" /\ given' = seen' /\ why' = "none"
        \/ pc' = "violation" /\ given' = given /\ why' # "none"
    BY <1>1, <1>3 DEF Yield
  <2>4. Short(passage)' <=> Short(passage)
    BY <1>2 DEF Short
  <2> QED BY <1>2, <1>3, <2>1, <2>2, <2>3, <2>4 DEF FlowInv
<1>9. EndInv'
  BY <1>1, <1>2, <1>3 DEF EndInv, Yield
<1> QED BY <1>6, <1>7, <1>8, <1>9 DEF IInv

(* What the "finally" does to the tasks. *)
LEMMA CancelledTasks ==
  ASSUME TypeOK, TaskInv
  PROVE  /\ Cancelled \in Seq(Ongoing \cup Done) /\ Len(Cancelled) = Len(tasks)
         /\ \A i \in 1..Len(tasks) :
              /\ Cancelled[i] # "running"
              /\ Cancelled[i] \in {tasks[i], "cancelling"}
              /\ i # pending => Cancelled[i] = tasks[i]
<1>1. tasks \in Seq(Ongoing \cup Done) /\ pending \in 0..Len(tasks)
  BY DEF TypeOK
<1>2. \A i \in 1..Len(tasks) : i # pending => tasks[i] # "running"
  BY DEF TaskInv
<1>3. CASE pending # 0 /\ tasks[pending] = "running"
  <2>1. Cancelled = [tasks EXCEPT ![pending] = "cancelling"] /\ pending \in 1..Len(tasks)
    BY <1>1, <1>3 DEF Cancelled
  <2>2. Cancelled \in Seq(Ongoing \cup Done) /\ Len(Cancelled) = Len(tasks)
    BY <1>1, <2>1
  <2>3. \A i \in 1..Len(tasks) : Cancelled[i] = IF i = pending THEN "cancelling" ELSE tasks[i]
    BY <1>1, <2>1
  <2> QED BY <1>2, <2>2, <2>3
<1>4. CASE ~(pending # 0 /\ tasks[pending] = "running")
  <2>1. Cancelled = tasks
    BY <1>4 DEF Cancelled
  <2> QED BY <1>1, <1>2, <1>4, <2>1
<1> QED BY <1>3, <1>4

(* The ways out of the generator. *)
LEMMA CloseKeeps ==
  ASSUME IInv,
         NEW how \in {"complete", "violation", "upstream_error", "audit_error",
                      "cancelled", "left"},
         Close(how), UNCHANGED <<passage, seen, given, since, reading, why, pending>>,
         upstream' \in {"open", "exhausted", "raised", "closed"},
         final' \in {"none", "passed", "failed", "error"},
         how = "complete" => /\ upstream' = "exhausted" /\ why = "none" /\ given = seen
                             /\ seen > 0 => final' = "passed"
                             /\ pending = 0
  PROVE  IInv'
<1>1. pc' = "closed" /\ outcome' = how /\ tasks' = Cancelled
  BY DEF Close
<1>2. /\ tasks' \in Seq(Ongoing \cup Done) /\ Len(tasks') = Len(tasks)
      /\ \A i \in 1..Len(tasks) : /\ tasks'[i] # "running"
                                  /\ tasks'[i] \in {tasks[i], "cancelling"}
                                  /\ i # pending => tasks'[i] = tasks[i]
  BY <1>1, CancelledTasks DEF IInv
<1>3. TypeOK'
  BY <1>1, <1>2 DEF IInv, TypeOK
<1>4. TaskInv'
  BY <1>1, <1>2 DEF IInv, TaskInv
<1>5. FlowInv'
  <2>1. Short(passage)' <=> Short(passage)
    BY DEF Short
  <2> QED BY <1>1, <2>1 DEF IInv, FlowInv
<1>6. EndInv'
  BY <1>1 DEF EndInv
<1> QED BY <1>3, <1>4, <1>5, <1>6 DEF IInv

(* A violation of which the passage is not the reason. *)
LEMMA YieldKeeps ==
  ASSUME IInv, NEW reason \in {"drained", "final"}, Yield(reason),
         pc \in {"drain", "final"},
         UNCHANGED <<passage, seen, given, since, tasks, reading, upstream, outcome>>,
         final' \in {"none", "passed", "failed", "error"},
         pending' \in {0, pending}, pending # 0 => tasks[pending] \in Done
  PROVE  IInv'
<1>1. pc' = "violation" /\ why' = reason /\ outcome = "none"
  BY DEF Yield, IInv, FlowInv
<1>2. TypeOK'
  BY <1>1 DEF IInv, TypeOK
<1>3. TaskInv'
  BY <1>1 DEF IInv, TaskInv
<1>4. FlowInv'
  <2>1. Short(passage)' <=> Short(passage)
    BY DEF Short
  <2> QED BY <1>1, <2>1 DEF IInv, FlowInv
<1>5. EndInv'
  BY <1>1 DEF EndInv
<1> QED BY <1>2, <1>3, <1>4, <1>5 DEF IInv

(* The step to the final audit, or past it where there is no text.         *)
LEMMA ToFinalKeeps ==
  ASSUME IInv, ToFinal, UNCHANGED <<passage, seen, given, since, final, reading, why>>,
         pc \in {"upstream", "drain"}, upstream' = "exhausted", pending' = 0,
         \/ pending = 0
         \/ tasks[pending] \in Done \ {"failed"}
  PROVE  IInv'
<1>1. why = "none" /\ outcome = "none" /\ given = seen /\ tasks' = tasks /\ seen \in Nat
  BY DEF IInv, FlowInv, ToFinal, TypeOK
<1>2. \/ pc' = "final" /\ outcome' = "none"
      \/ pc' = "closed" /\ outcome' = "complete" /\ ~(seen > 0)
  BY <1>1 DEF ToFinal
<1>3. TypeOK'
  BY <1>1, <1>2 DEF IInv, TypeOK
<1>4. TaskInv'
  BY <1>1, <1>2 DEF IInv, TaskInv
<1>5. FlowInv'
  <2>1. Short(passage)' <=> Short(passage)
    BY DEF Short
  <2> QED BY <1>1, <1>2, <2>1 DEF IInv, FlowInv
<1>6. EndInv'
  BY <1>1, <1>2 DEF EndInv
<1> QED BY <1>3, <1>4, <1>5, <1>6 DEF IInv

LEMMA ExhaustKeeps == ASSUME IInv, Exhaust PROVE IInv'
<1>1. /\ pc = "upstream" /\ upstream' = "exhausted"
      /\ UNCHANGED <<passage, seen, given, since, pending, final, reading, why>>
  BY DEF Exhaust
<1>2. CASE pending # 0
  <2>1. pc' = "drain" /\ UNCHANGED <<tasks, outcome>>
    BY <1>2 DEF Exhaust
  <2>2. TypeOK'
    BY <1>1, <2>1 DEF IInv, TypeOK
  <2>3. TaskInv'
    BY <1>1, <2>1 DEF IInv, TaskInv
  <2>4. FlowInv'
    BY <1>1, <2>1 DEF IInv, FlowInv, Short
  <2>5. EndInv'
    BY <1>1, <1>2, <2>1 DEF IInv, EndInv, FlowInv
  <2> QED BY <2>2, <2>3, <2>4, <2>5 DEF IInv
<1>3. CASE pending = 0
  BY <1>1, <1>3, ToFinalKeeps DEF Exhaust
<1> QED BY <1>2, <1>3

LEMMA ResumeChunkKeeps == ASSUME IInv, ResumeChunk PROVE IInv'
<1>1. /\ pc = "chunk" /\ pc' = "upstream" /\ outcome = "none" /\ why = "none"
      /\ UNCHANGED <<passage, seen, given, final, upstream, reading, why, outcome>>
  BY DEF ResumeChunk, IInv, FlowInv
<1>2. FlowInv'
  BY <1>1 DEF IInv, FlowInv, Short
<1>3. EndInv'
  BY <1>1 DEF EndInv
<1>4. CASE StartsAudit
  <2>1. /\ tasks' = Append(tasks, "running") /\ pending' = Len(tasks) + 1 /\ since' = 0
        /\ pending = 0
    BY <1>4 DEF ResumeChunk, StartsAudit
  <2>2. tasks \in Seq(Ongoing \cup Done) /\ seen \in Nat
    BY DEF IInv, TypeOK
  <2>3. /\ tasks' \in Seq(Ongoing \cup Done) /\ Len(tasks') = Len(tasks) + 1
        /\ \A i \in 1..Len(tasks) : tasks'[i] = tasks[i]
    BY <2>1, <2>2
  <2>4. pending' \in 0..Len(tasks') /\ since' \in 0..seen
    BY <2>1, <2>2, <2>3
  <2>5. TypeOK'
    BY <1>1, <2>3, <2>4 DEF IInv, TypeOK
  <2>6. TaskInv'
    BY <1>1, <2>1, <2>2, <2>3 DEF IInv, TaskInv
  <2> QED BY <1>2, <1>3, <2>5, <2>6 DEF IInv
<1>5. CASE ~StartsAudit
  <2>1. UNCHANGED <<tasks, pending, since>>
    BY <1>5 DEF ResumeChunk
  <2>2. TypeOK' /\ TaskInv'
    BY <1>1, <2>1 DEF IInv, TypeOK, TaskInv
  <2> QED BY <1>2, <1>3, <2>2 DEF IInv
<1> QED BY <1>4, <1>5

LEMMA AuditEndsKeeps == ASSUME IInv, NEW i \in 1..Len(tasks), AuditEnds(i) PROVE IInv'
<1>1. /\ UNCHANGED <<pc, passage, seen, given, since, pending, final, upstream, reading, why, outcome>>
      /\ tasks[i] \in Ongoing
  BY DEF AuditEnds
<1>2. PICK s \in Done : tasks' = [tasks EXCEPT ![i] = s]
  BY DEF AuditEnds
<1>3. i = pending
  BY <1>1 DEF IInv, TaskInv
<1>4. /\ tasks' \in Seq(Ongoing \cup Done) /\ Len(tasks') = Len(tasks)
      /\ \A j \in 1..Len(tasks) : tasks'[j] = IF j = i THEN s ELSE tasks[j]
  BY <1>2 DEF IInv, TypeOK
<1>5. TypeOK'
  BY <1>1, <1>4 DEF IInv, TypeOK
<1>6. TaskInv'
  BY <1>1, <1>3, <1>4 DEF IInv, TaskInv
<1>7. FlowInv' /\ EndInv'
  BY <1>1 DEF IInv, FlowInv, EndInv, Short
<1> QED BY <1>5, <1>6, <1>7 DEF IInv

LEMMA DrainedKeeps == ASSUME IInv, Drained PROVE IInv'
<1>1. /\ pc = "drain" /\ tasks[pending] \in Done /\ upstream = "exhausted"
      /\ UNCHANGED <<passage, seen, given, since, final, upstream, reading>>
  BY DEF Drained, WaitIsOver, IInv, EndInv
<1>2. CASE tasks[pending] = "cancelled"
  <2>1. Close("cancelled") /\ UNCHANGED <<pending, why>>
    BY <1>2 DEF Drained
  <2> QED BY <1>1, <2>1, CloseKeeps DEF IInv, TypeOK
<1>3. CASE tasks[pending] = "failed"
  <2>1. pending' = 0 /\ Yield("drained") /\ UNCHANGED <<tasks, outcome>>
    BY <1>3 DEF Drained
  <2> QED BY <1>1, <2>1, YieldKeeps DEF IInv, TypeOK
<1>4. CASE tasks[pending] \notin {"cancelled", "failed"}
  <2>1. pending' = 0 /\ ToFinal /\ UNCHANGED why
    BY <1>4 DEF Drained
  <2> QED BY <1>1, <1>4, <2>1, ToFinalKeeps
<1> QED BY <1>2, <1>3, <1>4

LEMMA FinalEndsKeeps == ASSUME IInv, FinalEnds PROVE IInv'
<1>1. /\ pc = "final" /\ pending = 0 /\ upstream = "exhausted" /\ given = seen /\ why = "none"
      /\ UNCHANGED <<passage, seen, given, since, pending, upstream, reading>>
  BY DEF FinalEnds, IInv, EndInv, FlowInv
<1>2. PICK v \in {"passed", "failed", "error"} :
        /\ final' = v
        /\ CASE v = "passed" -> Close("complete") /\ UNCHANGED why
             [] v = "failed" -> Yield("final") /\ UNCHANGED <<tasks, outcome>>
             [] v = "error"  -> Close("audit_error") /\ UNCHANGED why
  BY DEF FinalEnds
<1>3. CASE v = "passed"
  BY <1>1, <1>2, <1>3, CloseKeeps DEF IInv, TypeOK
<1>4. CASE v = "failed"
  BY <1>1, <1>2, <1>4, YieldKeeps DEF IInv, TypeOK
<1>5. CASE v = "error"
  BY <1>1, <1>2, <1>5, CloseKeeps DEF IInv, TypeOK
<1> QED BY <1>3, <1>4, <1>5

LEMMA CancelKeeps == ASSUME IInv, Cancel PROVE IInv'
<1>1. /\ pc \in {"upstream", "drain", "final"}
      /\ UNCHANGED <<passage, seen, given, since, pending, final, reading, why>>
      /\ upstream' = IF pc = "upstream" THEN "raised" ELSE upstream
  BY DEF Cancel
<1>2. CASE pc = "drain" /\ tasks[pending] \in Ongoing
  <2>1. tasks' = Cancelled /\ UNCHANGED <<pc, outcome>> /\ upstream' = upstream
    BY <1>1, <1>2 DEF Cancel
  <2>2. /\ tasks' \in Seq(Ongoing \cup Done) /\ Len(tasks') = Len(tasks)
        /\ \A i \in 1..Len(tasks) : i # pending => tasks'[i] = tasks[i]
    BY <2>1, CancelledTasks DEF IInv
  <2>3. TypeOK'
    BY <1>1, <2>1, <2>2 DEF IInv, TypeOK
  <2>4. TaskInv'
    BY <1>1, <1>2, <2>1, <2>2 DEF IInv, TaskInv
  <2>5. FlowInv' /\ EndInv'
    BY <1>1, <2>1 DEF IInv, FlowInv, EndInv, Short
  <2> QED BY <2>3, <2>4, <2>5 DEF IInv
<1>3. CASE ~(pc = "drain" /\ tasks[pending] \in Ongoing)
  <2>1. Close("cancelled")
    BY <1>3 DEF Cancel
  <2> QED BY <1>1, <2>1, CloseKeeps DEF IInv, TypeOK
<1> QED BY <1>2, <1>3

THEOREM Invariance == Spec => []IInv
<1>1. IInv /\ [Next]_vars => IInv'
  <2> SUFFICES ASSUME IInv, [Next]_vars PROVE IInv'
    OBVIOUS
  <2>1. CASE UpstreamRaises
    BY <2>1, CloseKeeps DEF UpstreamRaises, IInv, TypeOK
  <2>2. CASE ResumeViolation
    BY <2>2, CloseKeeps DEF ResumeViolation, IInv, TypeOK
  <2>3. CASE Finalize
    BY <2>3, CloseKeeps DEF Finalize, IInv, TypeOK
  <2>4. CASE Leave
    BY <2>4 DEF Leave, IInv, TypeOK, TaskInv, FlowInv, EndInv, Short
  <2>5. CASE UNCHANGED vars
    BY <2>5 DEF vars, IInv, TypeOK, TaskInv, FlowInv, EndInv, Short
  <2>6. ASSUME NEW i \in 1..Len(tasks), AuditEnds(i) PROVE IInv'
    BY <2>6, AuditEndsKeeps
  <2> QED BY <2>1, <2>2, <2>3, <2>4, <2>5, <2>6, ChunkKeeps, ExhaustKeeps, ResumeChunkKeeps,
             DrainedKeeps, FinalEndsKeeps, CancelKeeps
          DEF Next, Upstream, Caller, Closed
<1> QED BY <1>1, InitIInv, PTL DEF Spec

-----------------------------------------------------------------------------
(* The generator's state has its type. *)
THEOREM TypeCorrect == Spec => []TypeOK
BY Invariance, PTL DEF IInv

(* No short enough passage ever reaches the caller in full, however the    *)
(* upstream cuts it into chunks (streaming.py:114-128).                    *)
THEOREM PassagesAreCaught == Spec => []HeuristicsInTime
<1>1. IInv => HeuristicsInTime
  BY DEF IInv, FlowInv, HeuristicsInTime
<1> QED BY <1>1, Invariance, PTL

(* One window audit at a time, and none left to itself. *)
THEOREM NoStrayAudit == Spec => []AuditsOwned
<1>1. IInv => AuditsOwned
  BY DEF IInv, TaskInv, AuditsOwned
<1> QED BY <1>1, Invariance, PTL

(* A stream that ends in silence was audited as a whole. *)
THEOREM CompletionIsAudited == Spec => []CompleteMeansAudited
<1>1. IInv => CompleteMeansAudited
  BY DEF IInv, TaskInv, EndInv, CompleteMeansAudited
<1> QED BY <1>1, Invariance, PTL

(* No chunk is handed on once a window audit has failed. *)
THEOREM FailureIsNext == Spec => NextItemIsViolation
<1>1. ASSUME IInv, [Next]_vars, given' # given
      PROVE  \A i \in 1..Len(tasks) : tasks[i] # "failed"
  <2>1. Chunk
    BY <1>1 DEF Next, Upstream, Caller, Exhaust, UpstreamRaises, ResumeChunk, ResumeViolation,
                Leave, Finalize, AuditEnds, Drained, FinalEnds, Cancel, Closed, vars
  <2>2. pc = "upstream" /\ ~AuditFailed /\ why = "none"
    BY <1>1, <2>1 DEF Chunk, IInv, FlowInv
  <2>3. SUFFICES ASSUME NEW i \in 1..Len(tasks), tasks[i] = "failed" PROVE FALSE
    OBVIOUS
  <2>4. i = pending
    BY <1>1, <2>2, <2>3 DEF IInv, TaskInv
  <2> QED BY <2>2, <2>3, <2>4 DEF AuditFailed, AuditFinished
<1> QED BY <1>1, Invariance, PTL DEF Spec, NextItemIsViolation
=============================================================================
