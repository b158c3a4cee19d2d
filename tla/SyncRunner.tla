----------------------------- MODULE SyncRunner -----------------------------
(***************************************************************************)
(* _run_sync and _SyncRunner (protector.py:783-844), called from several   *)
(* threads.  Callers that already run inside an event loop share a         *)
(* background loop, started by the first of them, that runs their          *)
(* coroutines, and each waits a bounded time for its own; a caller outside *)
(* of any loop runs its own with asyncio.run.                              *)
(***************************************************************************)
EXTENDS Naturals, Sequences, FiniteSets

CONSTANTS Callers,
          Outside   \* the callers outside of any event loop

ASSUME RunnerAssumption == Outside \subseteq Callers

VARIABLES
  pc,         \* caller -> "idle", "waiting", "alone", "returned" or "timed_out"
  loops,      \* the event loops created so far: "starting", "running" or "stopped"
  current,    \* self._loop, as a position in loops, 0 for None
  home,       \* caller -> the loop its coroutine was handed to
  work,       \* caller -> how far its coroutine is
  cancelling  \* callers whose future.cancel() the loop has not seen yet

runnerVars == <<pc, loops, current, home, work, cancelling>>

RunnerInit ==
  /\ pc = [c \in Callers |-> "idle"]
  /\ loops = <<>>
  /\ current = 0
  /\ home = [c \in Callers |-> 0]
  /\ work = [c \in Callers |-> "none"]
  /\ cancelling = {}

(* self._loop is not None and self._loop.is_running() *)
LoopRuns == current # 0 /\ loops[current] = "running"

(* asyncio.new_event_loop() *)
NewLoop == Len(loops) + 1

(* The interpreter exits: _shutdown has stopped a loop. *)
Exiting == \E l \in 1..Len(loops) : loops[l] = "stopped"

(* asyncio.run(coro), which waits as long as the coroutine takes. *)
RunAlone(c) ==
  /\ c \in Outside /\ pc[c] = "idle" /\ ~Exiting
  /\ pc' = [pc EXCEPT ![c] = "alone"]
  /\ work' = [work EXCEPT ![c] = "running"]
  /\ UNCHANGED <<loops, current, home, cancelling>>

(* _ensure_loop, under the lock, and run_coroutine_threadsafe.  A thread   *)
(* that has just been started has not entered run_forever yet.             *)
Submit(c) ==
  /\ c \notin Outside /\ pc[c] = "idle" /\ ~Exiting
  /\ pc' = [pc EXCEPT ![c] = "waiting"]
  /\ work' = [work EXCEPT ![c] = "queued"]
  /\ IF LoopRuns
     THEN home' = [home EXCEPT ![c] = current] /\ UNCHANGED <<loops, current>>
     ELSE /\ loops' = Append(loops, "starting")
          /\ current' = NewLoop
          /\ home' = [home EXCEPT ![c] = NewLoop]
  /\ UNCHANGED cancelling

(* The thread of a loop enters run_forever. *)
LoopStarts(l) ==
  /\ loops[l] = "starting"
  /\ loops' = [loops EXCEPT ![l] = "running"]
  /\ UNCHANGED <<pc, current, home, work, cancelling>>

HomeRuns(c) == home[c] # 0 /\ loops[home[c]] = "running"

(* The loop starts the coroutine. *)
Begin(c) ==
  /\ work[c] = "queued" /\ c \notin cancelling
  /\ HomeRuns(c)
  /\ work' = [work EXCEPT ![c] = "running"]
  /\ UNCHANGED <<pc, loops, current, home, cancelling>>

(* The coroutine comes to its end, with a result or an exception. *)
Finish(c) ==
  /\ work[c] = "running" /\ (HomeRuns(c) \/ c \in Outside)
  /\ work' = [work EXCEPT ![c] = "done"]
  /\ UNCHANGED <<pc, loops, current, home, cancelling>>

(* The loop throws CancelledError into it. *)
TakeCancel(c) ==
  /\ c \in cancelling
  /\ HomeRuns(c)
  /\ cancelling' = cancelling \ {c}
  /\ work' = IF work[c] \in {"queued", "running"} THEN [work EXCEPT ![c] = "cancelled"] ELSE work
  /\ UNCHANGED <<pc, loops, current, home>>

(* future.result, or asyncio.run, gives what the coroutine ended with. *)
GetResult(c) ==
  /\ pc[c] \in {"waiting", "alone"}
  /\ work[c] = "done"
  /\ pc' = [pc EXCEPT ![c] = "returned"]
  /\ UNCHANGED <<loops, current, home, work, cancelling>>

NoCancel(c) == cancelling
CancelsLoop(c) == cancelling \cup {d \in Callers : home[d] = home[c]}

(* future.cancel() *)
WithCancel(c) == cancelling \cup {c}

WaitsForResult(c) == pc[c] = "waiting" /\ work[c] = "cancelled"

(* The wait may be over while the coroutine is not. *)
MayTimeOut(c) == pc[c] = "waiting" /\ work[c] # "done"

(* timeout + 1.0 seconds have passed *)
TimeOut(c) ==
  /\ MayTimeOut(c)
  /\ pc' = [pc EXCEPT ![c] = "timed_out"]
  /\ cancelling' = WithCancel(c)
  /\ UNCHANGED <<loops, current, home, work>>

(* atexit runs when the threads of the callers have been joined, and stops *)
(* the latest loop.                                                        *)
Shutdown ==
  /\ \A c \in Callers : pc[c] \notin {"waiting", "alone"}
  /\ LoopRuns
  /\ loops' = [loops EXCEPT ![current] = "stopped"]
  /\ UNCHANGED <<pc, current, home, work, cancelling>>

AllEnded == (Exiting \/ \A c \in Callers : pc[c] \in {"returned", "timed_out"}) /\ UNCHANGED runnerVars

RunnerNext ==
  \/ Shutdown
  \/ \E c \in Callers : \/ RunAlone(c) \/ Submit(c) \/ Begin(c) \/ Finish(c) \/ TakeCancel(c)
                        \/ GetResult(c) \/ TimeOut(c)
  \/ \E l \in 1..Len(loops) : LoopStarts(l)
  \/ AllEnded

RunnerSpec == RunnerInit /\ [][RunnerNext]_runnerVars

(* Threads are scheduled, loops run what is ready and the clock goes on;   *)
(* a coroutine need not end.                                               *)
FairSpec ==
  /\ RunnerSpec
  /\ \A c \in Callers : WF_runnerVars(Begin(c)) /\ WF_runnerVars(TakeCancel(c))
                        /\ WF_runnerVars(GetResult(c)) /\ WF_runnerVars(TimeOut(c))
  /\ \A l \in 1..Cardinality(Callers) : WF_runnerVars(l \in 1..Len(loops) /\ LoopStarts(l))

-----------------------------------------------------------------------------
(* A caller that waits was handed to a loop whose thread exists, and only a *)
(* coroutine whose caller has given up is ever cancelled, so a result that  *)
(* someone waits for is not lost (protector.py:796-805).                   *)
NobodyIsForgotten ==
  \A c \in Callers :
    /\ pc[c] = "waiting" => /\ home[c] # 0 /\ loops[home[c]] # "stopped"
                            /\ work[c] # "cancelled"
    /\ work[c] = "cancelled" => pc[c] = "timed_out"
    /\ pc[c] = "returned" => work[c] = "done"

(* "a bounded wait so a stuck auditor can't hang the calling thread        *)
(* forever" (protector.py:837-838): every call ends, also when its         *)
(* coroutine never does and whichever loop it was given to.                *)
CallsEnd == \A c \in Callers : pc[c] = "waiting" ~> pc[c] \in {"returned", "timed_out"}

(* A request whose caller has timed out does not live on: it is cancelled  *)
(* on its loop, unless it has ended by then or the program exits           *)
(* (protector.py:801-802).                                                 *)
AbandonedWorkEnds ==
  \A c \in Callers : pc[c] = "timed_out" ~> work[c] \in {"done", "cancelled"} \/ Exiting

(* protector.py:784: "One long-lived event loop in a worker thread".       *)
OneLoop == Len(loops) <= 1
=============================================================================
