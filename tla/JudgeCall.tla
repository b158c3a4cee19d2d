------------------------------ MODULE JudgeCall ------------------------------
(***************************************************************************)
(* What one attempt of a policy call (Retry.tla) sets going: a judge call  *)
(* of a single backend, or of the two of DualVoteAuditor.judge             *)
(* (backends/composite.py:40-56), which asyncio.gather starts together.    *)
(* gather raises with the first exception and leaves the other call        *)
(* running; a timeout or a cancellation of the attempt cancels both.  A    *)
(* local classifier runs in a thread (asyncio.to_thread), which no         *)
(* cancellation stops, and TransformersClassifierAuditor lets its threads  *)
(* in one at a time (local/transformers_backend.py:63-68).                 *)
(*                                                                         *)
(* Every step is one of Retry.tla, or leaves its variables as they are.    *)
(***************************************************************************)
EXTENDS Retry, Replies

CONSTANTS
  Teams,       \* the backends that may be asked: functions from judge to backend
  ReplyTexts   \* what a generative model may reply

Generative == {"openai", "anthropic", "llamacpp", "ollama"}
Classifiers == {"onnx", "transformers"}
Threaded == {"llamacpp", "onnx", "transformers"}
Locked == {"transformers"}

ASSUME JudgeCallAssumption ==
  /\ \A t \in Teams : \A v \in DOMAIN t : t[v] \in Generative \union Classifiers
  /\ ReplyTexts \subseteq Seq(Tokens)

(* What each backend may make of a reply, with what JSON says the reply is *)
(* (Replies.tla).  A classifier gives scores, which need no reading.       *)
Readings ==
  [b \in Generative \union Classifiers |->
     IF b \in Classifiers THEN {[made |-> m, meant |-> m] : m \in {"pass", "fail"}}
     ELSE UNION {{[made |-> Judged(b, r), meant |-> m] : m \in Meant(b, r)} : r \in ReplyTexts}]

VARIABLES
  team,      \* judge -> its backend; two judges are a dual vote
  policy,    \* "all_must_pass" or "any_must_pass"
  calls,     \* attempt -> judge -> its call: "none"; "open" while the attempt
             \* waits for it, then "answered", "failed" (it raised, or could
             \* not be read), "cancelled", or "stray" when it goes on
             \* unwaited for, and "over" when such a call has ended
  holder,    \* judge -> the attempt whose call is inside _pipe_lock, or None
  replies,   \* judge -> how its call in this attempt was read, NoReading before
  verdict    \* what judge returned

judgeVars == <<team, policy, calls, holder, replies, verdict>>
allVars == <<phase, attempt, last, now, due, team, policy, calls, holder, replies, verdict>>

NoReading == [made |-> "none", meant |-> "none"]
None == -1
Judges == DOMAIN team
Attempts == 0..MaxRetries

Started == [v \in Judges |-> "open"]

JudgeInit ==
  /\ Init
  /\ team \in Teams
  /\ policy \in {"all_must_pass", "any_must_pass"}
  /\ calls = [a \in Attempts |-> IF a = 0 THEN Started ELSE [v \in Judges |-> "none"]]
  /\ holder = [v \in Judges |-> None]
  /\ replies = [v \in Judges |-> NoReading]
  /\ verdict = "none"

UnderWay(a, v) == calls[a][v] \in {"open", "stray"}
IsThreaded(v) == team[v] \in Threaded
IsLocked(v) == team[v] \in Locked

(* with self._pipe_lock *)
EnterLock(a, v) ==
  /\ IsLocked(v) /\ UnderWay(a, v) /\ holder[v] = None
  /\ holder' = [holder EXCEPT ![v] = a]
  /\ UNCHANGED <<vars, team, policy, calls, replies, verdict>>

KeepsTheLock(v) == holder

(* A call comes to its end, and its thread leaves the lock. *)
CanEnd(a, v) == UnderWay(a, v) /\ (IsLocked(v) => holder[v] = a)
Released(v) == IF IsLocked(v) THEN [holder EXCEPT ![v] = None] ELSE holder

CombinedAny(made) == \E v \in Judges : made[v] = "pass"

(* a.passed and b.passed, or a.passed or b.passed; one judge is its own vote. *)
Combined(made) ==
  IF policy = "all_must_pass" THEN \A v \in Judges : made[v] = "pass"
                              ELSE \E v \in Judges : made[v] = "pass"

(* The others are not cancelled: gather only stops waiting for them.       *)
LeftAlone(v) ==
  [calls EXCEPT ![attempt] = [w \in Judges |->
     IF w = v THEN "failed" ELSE IF @[w] = "open" THEN "stray" ELSE @[w]]]

(* A judge's call of this attempt returns a judgement, or the JSON error   *)
(* of a reply it cannot read.  The last one ends the attempt.              *)
Answers(v) ==
  /\ phase = "calling" /\ calls[attempt][v] = "open" /\ CanEnd(attempt, v)
  /\ holder' = Released(v)
  /\ \E reading \in Readings[team[v]] :
       /\ replies' = [replies EXCEPT ![v] = reading]
       /\ IF reading.made = "malformed"
          THEN /\ Fail("malformed")
               /\ calls' = LeftAlone(v)
               /\ UNCHANGED verdict
          ELSE /\ calls' = [calls EXCEPT ![attempt][v] = "answered"]
               /\ IF \A w \in Judges \ {v} : calls[attempt][w] = "answered"
                  THEN /\ Return
                       /\ verdict' = IF Combined([w \in Judges |-> replies'[w].made])
                                     THEN "pass" ELSE "fail"
                  ELSE UNCHANGED <<vars, verdict>>
  /\ UNCHANGED <<team, policy>>

(* A judge's call of this attempt raises: gather raises with it.           *)
Raises(v) ==
  /\ phase = "calling" /\ calls[attempt][v] = "open" /\ CanEnd(attempt, v)
  /\ \E e \in {"transient", "permanent"} : Fail(e)
  /\ calls' = LeftAlone(v)
  /\ holder' = Released(v)
  /\ UNCHANGED <<team, policy, replies, verdict>>

CancelsNobody(open) == [calls EXCEPT ![attempt] = [w \in Judges |->
  IF open /\ @[w] = "open" THEN "stray" ELSE @[w]]]

(* asyncio.wait_for cancels what the attempt waits for.  A thread goes on. *)
Abandoned(open) ==
  [calls EXCEPT ![attempt] = [w \in Judges |->
     IF open /\ @[w] = "open" THEN IF IsThreaded(w) THEN "stray" ELSE "cancelled" ELSE @[w]]]

AttemptTimesOut ==
  /\ TimesOut
  /\ calls' = Abandoned(TRUE)
  /\ UNCHANGED <<team, policy, holder, replies, verdict>>

CallerCancels ==
  /\ Cancel
  /\ calls' = Abandoned(phase = "calling")
  /\ UNCHANGED <<team, policy, holder, replies, verdict>>

(* A call nobody waits for ends; what it returns or raises is dropped.     *)
StrayEnds(a, v) ==
  /\ calls[a][v] = "stray" /\ CanEnd(a, v)
  /\ calls' = [calls EXCEPT ![a][v] = "over"]
  /\ holder' = Released(v)
  /\ UNCHANGED <<vars, team, policy, replies, verdict>>

(* The next attempt asks every judge again. *)
NextAttempt ==
  /\ Wake
  /\ calls' = [calls EXCEPT ![attempt'] = Started]
  /\ replies' = [v \in Judges |-> NoReading]
  /\ UNCHANGED <<team, policy, holder, verdict>>

Waiting == (Tick \/ Ended) /\ UNCHANGED judgeVars

JudgeNext ==
  \/ \E v \in Judges : Answers(v) \/ Raises(v)
  \/ \E v \in Judges : \E a \in Attempts : EnterLock(a, v) \/ StrayEnds(a, v)
  \/ AttemptTimesOut \/ CallerCancels \/ NextAttempt \/ Waiting

JudgeSpec == JudgeInit /\ [][JudgeNext]_allVars

(* As in Retry.tla; and threads get the lock, and classifiers come to an   *)
(* end.  Nothing is assumed of a model that is asked over a network.       *)
JudgeFairSpec ==
  /\ JudgeSpec
  /\ WF_allVars(Waiting /\ Tick) /\ WF_allVars(AttemptTimesOut) /\ WF_allVars(NextAttempt)
  /\ WF_allVars(\E v \in Judges : \E a \in Attempts : EnterLock(a, v))
  /\ WF_allVars(\E v \in Judges : \E a \in Attempts : IsThreaded(v) /\ StrayEnds(a, v))

-----------------------------------------------------------------------------
(* A reply is read as JSON's grammar reads the object that begins at its   *)
(* first brace: prose around it, and braces, quotes and escapes in its     *)
(* strings, neither hide it nor end it early (_json.py:16-58).             *)
ReadAsMeant == \A v \in Judges : replies[v].made = replies[v].meant

(* A judgement is the vote of the replies to one attempt, its last: a call *)
(* an earlier attempt left behind has no say in it, and none is missing    *)
(* (backends/composite.py:41-48, _retry.py:57-71).                         *)
VerdictIsTheVote ==
  phase = "returned" =>
    LET meant == [v \in Judges |-> replies[v].meant]
        passes == {v \in Judges : meant[v] = "pass"}
    IN /\ \A v \in Judges : meant[v] \in {"pass", "fail"} /\ calls[attempt][v] = "answered"
       /\ verdict = "pass" <=> IF policy = "all_must_pass" THEN passes = Judges ELSE passes # {}

(* A call goes on without anybody waiting for it only once its attempt is  *)
(* over, and only if it is a thread or its twin in that attempt raised or  *)
(* could not be read: not when the twin answered, nor when a timeout or a  *)
(* cancellation ended them both (_retry.py:57-71,                          *)
(* backends/composite.py:41, local/transformers_backend.py:61).            *)
StraysHaveCause ==
  \A a \in Attempts : \A v \in Judges :
    calls[a][v] = "stray" =>
      /\ a # attempt \/ phase # "calling"
      /\ IsThreaded(v) \/ \E w \in Judges \ {v} : calls[a][w] = "failed"

(* The threads that attempts left behind come out of the lock one after    *)
(* the other: once the policy call is over, so are they, in time.          *)
ThreadsEnd ==
  phase \in {"returned", "raised"} ~>
    \A v \in Judges : IsThreaded(v) => \A a \in Attempts : ~UnderWay(a, v)
=============================================================================
