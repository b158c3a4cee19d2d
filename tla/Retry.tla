-------------------------------- MODULE Retry --------------------------------
(***************************************************************************)
(* PromptProtector._call_with_policy (protector.py:526-531): one judge     *)
(* call made by retry_async (_retry.py:45-71), each attempt bounded by     *)
(* asyncio.wait_for, with jittered exponential backoff between attempts.   *)
(*                                                                         *)
(* Time is counted in ticks from the first attempt; the event loop serves  *)
(* a timer when it is due, so time does not pass over one.                 *)
(***************************************************************************)
EXTENDS Integers

CONSTANTS MaxRetries,     \* self._max_retries
          Timeout,        \* self._timeout_s, in ticks
          BaseDelay,      \* base_delay_s, in ticks
          MaxDelay        \* max_delay_s, in ticks

ASSUME RetryAssumption ==
  /\ MaxRetries \in Nat
  /\ Timeout \in Nat \ {0}
  /\ BaseDelay \in Nat /\ MaxDelay \in Nat

(* What an attempt may end with.  "malformed" is JSONParseError, raised by  *)
(* a backend that got an answer it cannot read.                            *)
Errors == {"transient", "timeout", "malformed", "permanent", "cancelled"}

VARIABLES
  phase,     \* "calling", "backoff", "returned" or "raised"
  attempt,   \* the counter of the same name: retries made so far
  last,      \* what the latest attempt ended with, "none" before
  now,       \* ticks since the first attempt started
  due        \* when the attempt times out, or the sleep ends

vars == <<phase, attempt, last, now, due>>

Init ==
  /\ phase = "calling"
  /\ attempt = 0
  /\ last = "none"
  /\ now = 0
  /\ due = Timeout

(* is_transient: asyncio's TimeoutError, the SDKs' connection errors, 5xx  *)
(* and 429.  CancelledError and JSONParseError are neither.                *)
IsTransient(e) == e \in {"transient", "timeout"}

(* min(max_delay_s, base_delay_s * 2 ** attempt) *)
Delay(a) == IF BaseDelay * 2 ^ a < MaxDelay THEN BaseDelay * 2 ^ a ELSE MaxDelay

JitteredAbove(a) == {d \in 0 .. 2 * Delay(a) : Delay(a) <= d}

(* delay * (0.5 + random.random()): between half of it and one and a half. *)
Jittered(a) == {d \in 0 .. 2 * Delay(a) : Delay(a) <= 2 * d /\ 2 * d <= 3 * Delay(a)}

(* The retries are used up. *)
Exhausted == attempt >= MaxRetries

(* The except clause: re-raise, or sleep before the next attempt. *)
Fail(e) ==
  /\ last' = e
  /\ IF ~IsTransient(e) \/ Exhausted
     THEN phase' = "raised" /\ UNCHANGED due
     ELSE /\ phase' = "backoff"
          /\ \E d \in Jittered(attempt) : due' = now + d
  /\ UNCHANGED <<attempt, now>>

(* The judge call returns a judgement in time. *)
Return ==
  /\ phase = "calling"
  /\ phase' = "returned"
  /\ last' = "value"
  /\ UNCHANGED <<attempt, now, due>>

(* The judge call raises in time. *)
Raise ==
  /\ phase = "calling"
  /\ \E e \in Errors \ {"timeout", "cancelled"} : Fail(e)

TimesOutTooLate == phase = "calling" /\ now > due /\ Fail("timeout")

(* asyncio.wait_for gives the attempt up. *)
TimesOut ==
  /\ phase = "calling"
  /\ now = due
  /\ Fail("timeout")

(* asyncio.sleep is over: the next attempt starts. *)
Wake ==
  /\ phase = "backoff"
  /\ now = due
  /\ phase' = "calling"
  /\ attempt' = attempt + 1
  /\ due' = now + Timeout
  /\ UNCHANGED <<last, now>>

(* The task is cancelled, in an attempt or in the sleep outside the "try". *)
Cancel ==
  \/ phase = "calling" /\ Fail("cancelled")
  \/ /\ phase = "backoff"
     /\ phase' = "raised"
     /\ last' = "cancelled"
     /\ UNCHANGED <<attempt, now, due>>

Tick ==
  /\ phase \in {"calling", "backoff"}
  /\ now < due
  /\ now' = now + 1
  /\ UNCHANGED <<phase, attempt, last, due>>

Ended == phase \in {"returned", "raised"} /\ UNCHANGED vars

Next == Return \/ Raise \/ TimesOut \/ Wake \/ Cancel \/ Tick \/ Ended

(* Time passes, and the event loop serves the timers that are due.  Nothing *)
(* is assumed of the judge: it may never answer.                           *)
Spec == Init /\ [][Next]_vars
FairSpec == Spec /\ WF_vars(Tick) /\ WF_vars(TimesOut) /\ WF_vars(Wake)

-----------------------------------------------------------------------------
TypeOK ==
  /\ phase \in {"calling", "backoff", "returned", "raised"}
  /\ attempt \in 0..MaxRetries
  /\ last \in Errors \cup {"none", "value"}
  /\ now \in Nat
  /\ due \in Nat
  /\ now <= due

(* An error other than a cancellation reaches the caller only when it is   *)
(* permanent or when every retry was spent on transient ones               *)
(* (_retry.py:53-54, 62).                                                  *)
RaisesOnlyWhenDone ==
  (phase = "raised" /\ last \in {"transient", "timeout"}) => attempt = MaxRetries

(* A further attempt is only ever made after a transient error: an auth or *)
(* client error, a cancellation or an answer never costs another call      *)
(* (_retry.py:3-4).                                                        *)
RetriesOnlyTransient == [][attempt' # attempt => last \in {"transient", "timeout"}]_vars

(* Every policy call is over after (max_retries + 1) timeouts and          *)
(* max_retries delays of at most one and a half times max_delay_s, even    *)
(* with a judge that never answers (protector.py:526-531).                 *)
WithinBudget == 2 * now <= 2 * ((MaxRetries + 1) * Timeout) + 3 * (MaxRetries * MaxDelay)

(* Every policy call ends (_retry.py:57-71). *)
CallEnds == <>(phase \in {"returned", "raised"})
=============================================================================
