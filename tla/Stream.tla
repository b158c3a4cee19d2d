------------------------------- MODULE Stream -------------------------------
(***************************************************************************)
(* streaming.sanitize_stream (streaming.py:71-191): an async generator     *)
(* between an upstream and a caller.  It scans every chunk before it hands *)
(* it on, audits a sliding window in a background task, and audits the     *)
(* whole text at the end.  The caller may stop reading at any item, the    *)
(* upstream may end or raise, and the task that drives the generator may   *)
(* be cancelled at each of its three awaits.                               *)
(*                                                                         *)
(* A piece of the stream is [from, to): its characters from .. to-1.  What *)
(* a buffer shows is the end of the stream (RollingBuffer.tla).  An audit  *)
(* is a request of Pipeline.tla seen from outside.                         *)
(***************************************************************************)
EXTENDS Integers, Sequences

CONSTANTS
  SlidingWindow,   \* sliding_window_chars
  AuditEvery,      \* audit_every_chars
  Passages,        \* pieces the detectors would flag; a stream has one of them
  MaxChunk,        \* bound: the longest chunk
  MaxText          \* bound: the length of the stream

Piece == [from : Nat, to : Nat]

ASSUME StreamAssumption ==
  /\ SlidingWindow \in Nat /\ AuditEvery \in Nat
  /\ MaxChunk \in Nat /\ MaxText \in Nat
  /\ Passages \subseteq {p \in Piece : p.from < p.to}

VARIABLES
  pc,        \* the await or the yield the generator is at, or "closed"
  passage,   \* the flagged piece of this stream
  seen,      \* characters received from the upstream
  given,     \* characters handed to the caller
  since,     \* chars_since_audit
  tasks,     \* state of every window audit started so far
  pending,   \* pending_audit: which of the tasks, 0 for None
  final,     \* verdict on the whole text
  upstream,  \* "open", "exhausted", "raised" or "closed"
  reading,   \* the caller still asks for items
  why,       \* what the StreamViolation is about, "none" without one
  outcome    \* how the generator ended

vars == <<pc, passage, seen, given, since, tasks, pending, final, upstream, reading, why, outcome>>

Init ==
  /\ pc = "upstream"
  /\ passage \in Passages
  /\ seen = 0 /\ given = 0 /\ since = 0
  /\ tasks = <<>> /\ pending = 0
  /\ final = "none"
  /\ upstream = "open"
  /\ reading = TRUE
  /\ why = "none" /\ outcome = "none"

Ongoing == {"running", "cancelling"}
Done == {"passed", "failed", "error", "cancelled"}

(* heur_buf is twice as long, "to catch matches that straddle a boundary". *)
HeurWindow == 2 * SlidingWindow

FlaggedInAuditWindow(n) == passage.to <= n /\ n - SlidingWindow <= passage.from

(* The scan of the stream's last characters, up to n, finds the passage. *)
Flagged(n) == passage.to <= n /\ n - HeurWindow <= passage.from

(* pending_audit is not None and pending_audit.done() *)
AuditFinished == pending # 0 /\ tasks[pending] \in Done

LetsRun == tasks

(* The "finally": the window audit that is still under way is cancelled.   *)
Cancelled ==
  IF pending # 0 /\ tasks[pending] = "running"
  THEN [tasks EXCEPT ![pending] = "cancelling"] ELSE tasks

(* The generator is left, through the "finally". *)
Close(how) ==
  /\ pc' = "closed"
  /\ outcome' = how
  /\ tasks' = Cancelled

Yield(reason) == pc' = "violation" /\ why' = reason

-----------------------------------------------------------------------------
(* await upstream_iter.__anext__()                                         *)

OverlooksAudit == FALSE

(* A background audit has finished with a fail verdict.  One that raised   *)
(* or was cancelled is no verdict (_consume_audit_task).                   *)
AuditFailed == AuditFinished /\ tasks[pending] = "failed"

(* A chunk arrives: both scans, then it is handed on. *)
Chunk ==
  /\ pc = "upstream" /\ upstream = "open"
  /\ \E n \in 0..MaxChunk :
       /\ seen + n <= MaxText
       /\ seen' = seen + n
       /\ since' = since + n
       /\ IF Flagged(seen + n)
          THEN Yield("heuristic") /\ UNCHANGED <<given, pending>>
          ELSE /\ pending' = IF AuditFinished THEN 0 ELSE pending
               /\ IF AuditFailed
                  THEN Yield("window") /\ UNCHANGED given
                  ELSE pc' = "chunk" /\ given' = seen + n /\ UNCHANGED why
  /\ UNCHANGED <<passage, tasks, final, upstream, reading, outcome>>

SkipsFinal == /\ pc' = "closed" /\ outcome' = "complete" /\ UNCHANGED tasks

(* The final audit, where there is any text. *)
ToFinal ==
  IF seen > 0 THEN pc' = "final" /\ UNCHANGED <<tasks, outcome>>
  ELSE pc' = "closed" /\ outcome' = "complete" /\ UNCHANGED tasks

(* StopAsyncIteration *)
Exhaust ==
  /\ pc = "upstream" /\ upstream = "open"
  /\ upstream' = "exhausted"
  /\ IF pending # 0 THEN pc' = "drain" /\ UNCHANGED <<tasks, outcome>> ELSE ToFinal
  /\ UNCHANGED <<passage, seen, given, since, pending, final, reading, why>>

(* The upstream raises, and its exception reaches the caller. *)
UpstreamRaises ==
  /\ pc = "upstream" /\ upstream = "open"
  /\ upstream' = "raised"
  /\ Close("upstream_error")
  /\ UNCHANGED <<passage, seen, given, since, pending, final, reading, why>>

-----------------------------------------------------------------------------
(* The items: yield chunk, yield StreamViolation.                          *)

StartsAnyway == since >= AuditEvery

(* chars_since_audit >= audit_every_chars and pending_audit is None *)
StartsAudit == since >= AuditEvery /\ pending = 0

ResumeChunk ==
  /\ pc = "chunk" /\ reading
  /\ pc' = "upstream"
  /\ IF StartsAudit
     THEN /\ tasks' = Append(tasks, "running")
          /\ pending' = Len(tasks) + 1
          /\ since' = 0
     ELSE UNCHANGED <<tasks, pending, since>>
  /\ UNCHANGED <<passage, seen, given, final, upstream, reading, why, outcome>>

(* The caller asks on after a violation: the generator closes the upstream *)
(* unless it had ended, and returns.                                       *)
ResumeViolation ==
  /\ pc = "violation" /\ reading
  /\ upstream' = IF why \in {"heuristic", "window"} THEN "closed" ELSE upstream
  /\ Close("violation")
  /\ UNCHANGED <<passage, seen, given, since, pending, final, reading, why>>

(* The caller breaks out of its loop, as the module's docstring shows. *)
Leave ==
  /\ pc \in {"chunk", "violation"} /\ reading
  /\ reading' = FALSE
  /\ UNCHANGED <<pc, passage, seen, given, since, tasks, pending, final, upstream, why, outcome>>

(* The event loop's hook for abandoned generators runs aclose():           *)
(* GeneratorExit at the yield.                                             *)
Finalize ==
  /\ pc \in {"chunk", "violation"} /\ ~reading
  /\ Close("left")
  /\ UNCHANGED <<passage, seen, given, since, pending, final, upstream, reading, why>>

-----------------------------------------------------------------------------
(* The audits.                                                             *)

(* protector.sanitize_output in its own task; one that is being cancelled  *)
(* may still come to its end first.                                        *)
AuditEnds(i) ==
  /\ tasks[i] \in Ongoing
  /\ \E s \in Done :
       /\ s = "cancelled" => tasks[i] = "cancelling"
       /\ tasks' = [tasks EXCEPT ![i] = s]
  /\ UNCHANGED <<pc, passage, seen, given, since, pending, final, upstream, reading, why, outcome>>

WaitsForPass == tasks[pending] = "passed"

WaitIsOver == tasks[pending] \in Done

(* await pending_audit, at the end of the stream *)
Drained ==
  /\ pc = "drain"
  /\ WaitIsOver
  /\ IF tasks[pending] = "cancelled"
     THEN Close("cancelled") /\ UNCHANGED <<pending, why>>
     ELSE /\ pending' = 0
          /\ IF tasks[pending] = "failed"
             THEN Yield("drained") /\ UNCHANGED <<tasks, outcome>>
             ELSE ToFinal /\ UNCHANGED why
  /\ UNCHANGED <<passage, seen, given, since, final, upstream, reading>>

(* await protector.sanitize_output(final_text) *)
FinalEnds ==
  /\ pc = "final"
  /\ \E v \in {"passed", "failed", "error"} :
       /\ final' = v
       /\ CASE v = "passed" -> Close("complete") /\ UNCHANGED why
            [] v = "failed" -> Yield("final") /\ UNCHANGED <<tasks, outcome>>
            [] v = "error"  -> Close("audit_error") /\ UNCHANGED why
  /\ UNCHANGED <<passage, seen, given, since, pending, upstream, reading>>

(* The driving task is cancelled at an await.  Waiting for the window      *)
(* audit it cancels that one, and learns of it when it has ended; waiting   *)
(* for the upstream the exception goes through that one.                   *)
Cancel ==
  /\ pc \in {"upstream", "drain", "final"}
  /\ upstream' = IF pc = "upstream" THEN "raised" ELSE upstream
  /\ IF pc = "drain" /\ tasks[pending] \in Ongoing
     THEN tasks' = Cancelled /\ UNCHANGED <<pc, outcome>>
     ELSE Close("cancelled")
  /\ UNCHANGED <<passage, seen, given, since, pending, final, reading, why>>

Closed == pc = "closed" /\ UNCHANGED vars

Upstream == Chunk \/ Exhaust \/ UpstreamRaises
Caller == ResumeChunk \/ ResumeViolation \/ Finalize
Next ==
  \/ Upstream \/ Caller \/ Leave
  \/ \E i \in 1..Len(tasks) : AuditEnds(i)
  \/ Drained \/ FinalEnds \/ Cancel
  \/ Closed

Spec == Init /\ [][Next]_vars

(* The upstream goes on or ends, the caller asks on or is finalized, and   *)
(* audits end, as they do unless a cache hangs (OnlyTheCacheHangs of       *)
(* Pipeline.tla).                                                          *)
FairSpec ==
  /\ Spec
  /\ WF_vars(Upstream) /\ WF_vars(Caller)
  /\ WF_vars(\E i \in 1..Len(tasks) : AuditEnds(i))
  /\ WF_vars(Drained) /\ WF_vars(FinalEnds)

-----------------------------------------------------------------------------
TypeOK ==
  /\ pc \in {"upstream", "chunk", "violation", "drain", "final", "closed"}
  /\ passage \in Passages
  /\ seen \in Nat /\ given \in 0..seen /\ since \in 0..seen
  /\ tasks \in Seq(Ongoing \cup Done)
  /\ pending \in 0..Len(tasks)
  /\ final \in {"none", "passed", "failed", "error"}
  /\ upstream \in {"open", "exhausted", "raised", "closed"}
  /\ reading \in BOOLEAN
  /\ why \in {"none", "heuristic", "window", "drained", "final"}
  /\ outcome \in {"none", "complete", "violation", "upstream_error",
                  "audit_error", "cancelled", "left"}

(* A passage the detectors know never reaches the caller in full, wherever *)
(* chunk boundaries cut it, as long as it and the rest of its last chunk   *)
(* fit the heuristics window (streaming.py:90-93, 112-126).                *)
Short(p) == p.to - p.from + MaxChunk - 1 <= HeurWindow
HeuristicsInTime == Short(passage) => given < passage.to

(* "the next yielded item is the violation sentinel" (streaming.py:84-86):  *)
(* once any window audit has failed, no chunk is handed on.                *)
NextItemIsViolation ==
  [][given' # given => \A i \in 1..Len(tasks) : tasks[i] # "failed"]_vars

(* One window audit at a time, however slow it is, and none that nobody    *)
(* has cancelled once the generator is left by whatever way                *)
(* (streaming.py:147, 189-191).                                            *)
AuditsOwned ==
  /\ \A i, j \in 1..Len(tasks) : (tasks[i] \in Ongoing /\ tasks[j] \in Ongoing) => i = j
  /\ pc = "closed" => \A i \in 1..Len(tasks) : tasks[i] # "running"

(* A stream that ends without a violation was handed over whole, the whole *)
(* of it passed an audit, and no window of it had failed                   *)
(* (streaming.py:158-188).                                                 *)
CompleteMeansAudited ==
  outcome = "complete" =>
    /\ upstream = "exhausted" /\ why = "none" /\ given = seen
    /\ seen > 0 => final = "passed"
    /\ \A i \in 1..Len(tasks) : tasks[i] \notin {"failed", "running"}

(* A failed window audit ends the stream, also when no further chunk comes. *)
FailureStopsStream ==
  (\E i \in 1..Len(tasks) : tasks[i] = "failed") ~> (pc \in {"violation", "closed"})
=============================================================================
