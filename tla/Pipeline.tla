------------------------------ MODULE Pipeline ------------------------------
(***************************************************************************)
(* PromptProtector._sanitize (protector.py:188-373): several requests in   *)
(* flight over one cache, one vault and one auditor.  A request runs       *)
(* without interruption between its awaits: the cache lookup, the auditor  *)
(* and the cache store.  At each of them it may be cancelled.              *)
(*                                                                         *)
(* A text stands for everything its cache key covers: kind, provider,      *)
(* model, rules and characters.  What the local stages do to it is given   *)
(* by the constants.  The auditor is Fanout's audit (or the single or the  *)
(* batched call) seen from outside.                                        *)
(***************************************************************************)
EXTENDS Integers, Sequences, FiniteSets

CONSTANTS
  Reqs,           \* the requests
  Texts,          \* what may be sanitized or audited
  Histories,      \* prior turns: a text, or None
  NumRedactors,   \* len(self._pre_redactors), where they are configured
  Configs,        \* constructor arguments, see ConfigType
  Oversized,      \* the texts longer than max_input_chars
  Cut,            \* oversized text -> its first max_input_chars characters
  Flagged,        \* texts with a heuristic match of score 0.85 or more
  Mask,           \* text -> what all redactors make of it
  Finds,          \* text -> the redactors that replace something in it, with
                  \* a mapping: only reversible redactors are counted
  None

ConfigType ==
  [mode : {"enforce", "shadow", "sample"},
   failure : {"fail_closed", "fail_open"},
   cache : BOOLEAN, auditor : BOOLEAN, redactors : BOOLEAN,
   vault : BOOLEAN, forward : BOOLEAN, truncate : BOOLEAN]

(* The constructor refuses a protector with neither auditor nor redactors. *)
ASSUME PipelineAssumption ==
  /\ None \notin Texts /\ None \notin Reqs
  /\ Histories \subseteq Texts \cup {None}
  /\ NumRedactors \in Nat
  /\ Configs \subseteq {c \in ConfigType : c.auditor \/ c.redactors}
  /\ Oversized \subseteq Texts
  /\ Cut \in [Oversized -> Texts \ Oversized]
  /\ Flagged \subseteq Texts
  /\ Mask \in [Texts -> Texts]
  /\ Finds \in [Texts -> SUBSET (1..NumRedactors)]

(* AuditResult: of "provider" only who decided, of "matches" the texts they *)
(* were found in, and vault_id is named after the request that made it.    *)
Result == [passed : BOOLEAN, degraded : BOOLEAN,
           provider : {"sampler", "size_guard", "heuristics", "local_only",
                       "failure_mode", "auditor"},
           matches : SUBSET Texts,
           redacted : Texts \cup {None},
           vault : Reqs \cup {None}]
Event == [passed : BOOLEAN, degraded : BOOLEAN, error : BOOLEAN]

VARIABLES
  config,    \* the constructor's arguments
  req,       \* request -> its text and history
  stage,     \* request -> "new", the await it is at, or how it ended
  result,    \* request -> the result it returned, None before
  pending,   \* request -> the auditor's result while it is being stored
  cache,     \* text -> cached result or None
  vault,     \* request -> the redactor whose mapping its vault entry holds, 0 for no entry
  events,    \* request -> what on_event was called with
  judged     \* what the auditor has judged: text, history and verdict

vars == <<config, req, stage, result, pending, cache, vault, events, judged>>

Init ==
  /\ config \in Configs
  /\ req \in [Reqs -> [text : Texts, history : Histories]]
  /\ stage = [r \in Reqs |-> "new"]
  /\ result = [r \in Reqs |-> None]
  /\ pending = [r \in Reqs |-> None]
  /\ cache = [t \in Texts |-> None]
  /\ vault = [r \in Reqs |-> 0]
  /\ events = [r \in Reqs |-> <<>>]
  /\ judged = {}

-----------------------------------------------------------------------------
(* What the local stages compute for a request.                            *)

(* text[: self._max_input_chars] *)
Text(r) == IF req[r].text \in Oversized /\ config.truncate
           THEN Cut[req[r].text] ELSE req[r].text
Found(r) == IF config.redactors THEN Finds[Text(r)] ELSE {}
Redacted(r) == IF Found(r) # {} THEN Mask[Text(r)] ELSE Text(r)

(* redacted_text if text_changed else None *)
RedactedField(r) == IF Redacted(r) # Text(r) THEN Redacted(r) ELSE None

(* text_for_audit *)
AuditText(r) == IF config.forward THEN Redacted(r) ELSE Text(r)

RedactedKey(r) == Redacted(r)

(* _cache_key: the hash covers what is audited, except the prior turns. *)
CacheKey(r) == AuditText(r)

LocalMatches(r) == IF Found(r) # {} THEN {Text(r)} ELSE {}

(* What the vault holds once the redactors of S have run: each puts its    *)
(* mapping under the same id, so that the last one's stays.                *)
VaultAfter(r, S) ==
  IF config.vault /\ Found(r) \cap S # {}
  THEN {n \in Found(r) \cap S : \A m \in Found(r) \cap S : m <= n}
  ELSE {vault[r]}

VaultMapping(r) == IF config.vault /\ Found(r) # {} THEN vault[r] ELSE None

(* vault_id, given out where redact() replaced something. *)
VaultId(r) == IF config.vault /\ Found(r) # {} THEN r ELSE None

(* _build_result and the auditor's result as completed at 362-368 *)
Build(r, p, d, by) ==
  [passed |-> p, degraded |-> d, provider |-> by, matches |-> LocalMatches(r),
   redacted |-> RedactedField(r), vault |-> VaultId(r)]

InvertedFailureResult(r) == Build(r, config.failure # "fail_open", TRUE, "failure_mode")

(* _apply_failure_mode *)
FailureResult(r) == Build(r, config.failure = "fail_open", TRUE, "failure_mode")

LocalResult(r) == Build(r, TRUE, FALSE, "local_only")

PartlyShadowed(res) ==
  IF config.mode = "shadow" /\ res.provider # "failure_mode"
  THEN [res EXCEPT !.passed = TRUE] ELSE res

(* _maybe_shadow *)
Shadowed(res) == IF config.mode = "shadow" THEN [res EXCEPT !.passed = TRUE] ELSE res

ForeignVault(r, entry) == [entry EXCEPT !.redacted = RedactedField(r)]

(* replace(cached, redacted_text=..., vault_id=...) *)
FromCache(r, entry) == [entry EXCEPT !.redacted = RedactedField(r), !.vault = VaultId(r)]

ReportedIfJudged(r, res, error) ==
  IF error THEN events[r]
  ELSE Append(events[r], [passed |-> res.passed, degraded |-> res.degraded, error |-> error])

(* _emit *)
Reported(r, res, error) ==
  Append(events[r], [passed |-> res.passed, degraded |-> res.degraded, error |-> error])

(* The tail every audited path ends with: _maybe_shadow, _emit, return. *)
Finish(r, res, error) ==
  /\ stage' = [stage EXCEPT ![r] = "returned"]
  /\ result' = [result EXCEPT ![r] = Shadowed(res)]
  /\ events' = [events EXCEPT ![r] = Reported(r, Shadowed(res), error)]

StoredShadowed(res) == Shadowed(res)

(* What is handed to _cache_store: the result before _maybe_shadow. *)
Stored(res) == res

(* await self._cache_store(cache_key, result), or the tail without a cache. *)
StoreOrFinish(r, res) ==
  IF config.cache
  THEN /\ stage' = [stage EXCEPT ![r] = "storing"]
       /\ pending' = [pending EXCEPT ![r] = Stored(res)]
       /\ UNCHANGED <<result, events>>
  ELSE Finish(r, res, FALSE) /\ UNCHANGED pending

NeedsAuditor(r) ==
  IF config.auditor
  THEN /\ stage' = [stage EXCEPT ![r] = "judging"]
       /\ UNCHANGED <<result, pending, events>>
  ELSE UNCHANGED <<stage, result, pending, events>>

(* Behind the cache lookup: the auditor, or the heuristics-only verdict. *)
ToAuditor(r) ==
  IF config.auditor
  THEN /\ stage' = [stage EXCEPT ![r] = "judging"]
       /\ UNCHANGED <<result, pending, events>>
  ELSE StoreOrFinish(r, LocalResult(r))

-----------------------------------------------------------------------------
(* Before the first await.                                                 *)

(* The sample gate: returned as it is, unaudited and unreported. *)
SampleOut(r) ==
  /\ stage[r] = "new"
  /\ config.mode = "sample"
  /\ stage' = [stage EXCEPT ![r] = "returned"]
  /\ result' = [result EXCEPT ![r] =
       [passed |-> TRUE, degraded |-> FALSE, provider |-> "sampler",
        matches |-> {}, redacted |-> None, vault |-> None]]
  /\ UNCHANGED <<config, req, pending, cache, vault, events, judged>>

TooLong(r) == req[r].text \in Oversized /\ ~config.truncate

(* The size guard with on_oversize = "reject". *)
RejectOversize(r) ==
  /\ stage[r] = "new"
  /\ TooLong(r)
  /\ Finish(r, [passed |-> FALSE, degraded |-> FALSE, provider |-> "size_guard",
                matches |-> {}, redacted |-> None, vault |-> None], FALSE)
  /\ UNCHANGED <<config, req, pending, cache, vault, judged>>

(* A heuristic match of score 0.85 or more. *)
BlockHeuristic(r) ==
  /\ stage[r] = "new"
  /\ ~TooLong(r)
  /\ Text(r) \in Flagged
  /\ Finish(r, [passed |-> FALSE, degraded |-> FALSE, provider |-> "heuristics",
                matches |-> {Text(r)}, redacted |-> None, vault |-> None], FALSE)
  /\ UNCHANGED <<config, req, pending, cache, vault, judged>>

(* A detector raises, or a redactor or vault.put does after n redactors.   *)
LocalStageRaises(r) ==
  /\ stage[r] = "new"
  /\ ~TooLong(r)
  /\ stage' = [stage EXCEPT ![r] = "raised"]
  /\ \/ UNCHANGED vault
     \/ /\ config.redactors /\ Text(r) \notin Flagged
        /\ \E n \in 0 .. NumRedactors - 1 :
             \E v \in VaultAfter(r, 1..n) : vault' = [vault EXCEPT ![r] = v]
  /\ UNCHANGED <<config, req, result, pending, cache, events, judged>>

(* Heuristics and redactors are through; the next await is the cache's get  *)
(* or the auditor.                                                         *)
PassLocalStages(r) ==
  /\ stage[r] = "new"
  /\ ~TooLong(r)
  /\ Text(r) \notin Flagged
  /\ \E v \in VaultAfter(r, 1..NumRedactors) : vault' = [vault EXCEPT ![r] = v]
  /\ IF config.cache
     THEN /\ stage' = [stage EXCEPT ![r] = "lookup"]
          /\ UNCHANGED <<result, pending, events>>
     ELSE ToAuditor(r)
  /\ UNCHANGED <<config, req, cache, judged>>

-----------------------------------------------------------------------------
(* The three awaits.                                                       *)

LookupHit(r) ==
  /\ stage[r] = "lookup"
  /\ cache[CacheKey(r)] # None
  /\ Finish(r, FromCache(r, cache[CacheKey(r)]), FALSE)
  /\ UNCHANGED <<config, req, pending, cache, vault, judged>>

(* No entry, or the cache's get raised and is taken for a miss. *)
LookupMiss(r) ==
  /\ stage[r] = "lookup"
  /\ ToAuditor(r)
  /\ UNCHANGED <<config, req, cache, vault, judged>>

(* _run_auditor returns a judgement. *)
AuditorAnswers(r) ==
  /\ stage[r] = "judging"
  /\ \E p, d \in BOOLEAN :
       /\ judged' = judged \cup {[text |-> AuditText(r), history |-> req[r].history,
                                  passed |-> p, degraded |-> d]}
       /\ StoreOrFinish(r, Build(r, p, d, "auditor"))
  /\ UNCHANGED <<config, req, cache, vault>>

(* _AuditorFailure: the failure mode decides, and nothing is cached. *)
AuditorFails(r) ==
  /\ stage[r] = "judging"
  /\ Finish(r, FailureResult(r), TRUE)
  /\ UNCHANGED <<config, req, pending, cache, vault, judged>>

(* The cache's set has taken effect, or has failed and is ignored. *)
Store(r) ==
  /\ stage[r] = "storing"
  /\ cache' \in {cache, [cache EXCEPT ![CacheKey(r)] = pending[r]]}
  /\ Finish(r, pending[r], FALSE)
  /\ UNCHANGED <<config, req, pending, vault, judged>>

(* CancelledError at an await; a set that is under way may take effect.    *)
Cancel(r) ==
  /\ stage[r] \in {"lookup", "judging", "storing"}
  /\ stage' = [stage EXCEPT ![r] = "cancelled"]
  /\ \/ UNCHANGED cache
     \/ stage[r] = "storing" /\ cache' = [cache EXCEPT ![CacheKey(r)] = pending[r]]
  /\ UNCHANGED <<config, req, result, pending, vault, events, judged>>

(* An entry expires or is evicted. *)
Forget(t) ==
  /\ cache[t] # None
  /\ cache' = [cache EXCEPT ![t] = None]
  /\ UNCHANGED <<config, req, stage, result, pending, vault, events, judged>>

Ended(r) == stage[r] \in {"returned", "raised", "cancelled"}
AllEnded == (\A r \in Reqs : Ended(r)) /\ UNCHANGED vars

Start(r) == SampleOut(r) \/ RejectOversize(r) \/ BlockHeuristic(r) \/ PassLocalStages(r)
Lookup(r) == LookupHit(r) \/ LookupMiss(r)
Audit(r) == AuditorAnswers(r) \/ AuditorFails(r)

Next ==
  \/ \E r \in Reqs : Start(r) \/ LocalStageRaises(r) \/ Lookup(r) \/ Audit(r)
                     \/ Store(r) \/ Cancel(r)
  \/ \E t \in Texts : Forget(t)
  \/ AllEnded

Spec == Init /\ [][Next]_vars

(* The event loop runs what is ready, and the auditor ends (Fanout.tla).   *)
(* Nothing is assumed of the cache: neither of the two awaits has a        *)
(* timeout, and the client of Redis is opened without one (cache.py:104).  *)
FairSpec == Spec /\ \A r \in Reqs : WF_vars(Start(r)) /\ WF_vars(Audit(r))

-----------------------------------------------------------------------------
TypeOK ==
  /\ config \in Configs
  /\ req \in [Reqs -> [text : Texts, history : Histories]]
  /\ stage \in [Reqs -> {"new", "lookup", "judging", "storing",
                         "returned", "raised", "cancelled"}]
  /\ result \in [Reqs -> Result \cup {None}]
  /\ pending \in [Reqs -> Result \cup {None}]
  /\ cache \in [Texts -> Result \cup {None}]
  /\ vault \in [Reqs -> 0..NumRedactors]
  /\ events \in [Reqs -> Seq(Event)]
  /\ judged \in SUBSET [text : Texts, history : Histories, passed : BOOLEAN, degraded : BOOLEAN]

Returned(r) == stage[r] = "returned"

(* The auditor has returned this verdict on the text. *)
HasVerdict(t, p, d) == \E j \in judged : j.text = t /\ j.passed = p /\ j.degraded = d

(* A result that may be given for t to whoever asks for it. *)
Sound(res, t) ==
  \/ res.provider = "auditor" /\ HasVerdict(t, res.passed, res.degraded)
  \/ res.provider = "local_only" /\ res.passed /\ ~config.auditor

(* What sits in the cache is what the auditor said of that text: neither a *)
(* failure-mode result nor shadow mode's "passed" ever poisons it, so both *)
(* stay local to their request (protector.py:302, 321, 370-371).           *)
CacheHoldsVerdicts == \A t \in Texts : cache[t] # None => Sound(cache[t], t)

Reason(r) ==
  \/ result[r].provider = "sampler" /\ config.mode = "sample"
  \/ result[r].provider = "local_only" /\ ~config.auditor
  \/ result[r].provider = "failure_mode" /\ config.failure = "fail_open"
  \/ result[r].provider = "auditor" /\ \E d \in BOOLEAN : HasVerdict(AuditText(r), TRUE, d)

(* No request passes without a reason: outside shadow mode it was sampled   *)
(* out, or there is no auditor, or the operator chose FAIL_OPEN, or the     *)
(* auditor has passed exactly this text (protector.py:188-373).            *)
PassHasReason ==
  \A r \in Reqs : (Returned(r) /\ result[r].passed /\ config.mode # "shadow") => Reason(r)

(* README.md: shadow mode "logs verdicts without blocking" - no path out of *)
(* the pipeline, cached, failed or local, blocks (protector.py:583-601).   *)
ShadowNeverBlocks ==
  \A r \in Reqs : (Returned(r) /\ config.mode = "shadow") => result[r].passed

(* A result only ever refers to its own request's vault entry and redacted  *)
(* text, also when the verdict was cached by another request, and the       *)
(* entry is there (protector.py:268-272, 299-300).                         *)
ResultIsOwn ==
  \A r \in Reqs : Returned(r) =>
    /\ result[r].vault \in {None, r}
    /\ result[r].vault = r => vault[r] \in Found(r)
    /\ result[r].redacted \in {None, Mask[Text(r)]}

(* Every returned result was reported to on_event once, as it was returned; *)
(* a request that was sampled out, cancelled or ended in an exception was   *)
(* not reported (protector.py:674-693 and its callers).                    *)
EventsTellResults ==
  \A r \in Reqs :
    IF Returned(r) /\ result[r].provider # "sampler"
    THEN /\ Len(events[r]) = 1
         /\ events[r][1].passed = result[r].passed
         /\ events[r][1].degraded = result[r].degraded
         /\ events[r][1].error <=> result[r].provider = "failure_mode"
    ELSE events[r] = <<>>

(* Nothing but a cache that does not answer holds a request up: whatever   *)
(* fails on its way and whatever the other requests do, it ends, or it     *)
(* waits for its own get or set for ever (protector.py:188-373).           *)
OnlyTheCacheHangs ==
  \A r \in Reqs : <>Ended(r) \/ <>[](stage[r] \in {"lookup", "storing"})

(* The strict gate: enforcing, failing closed, with an auditor. *)
Strict == config.mode = "enforce" /\ config.failure = "fail_closed" /\ config.auditor
Promise == INSTANCE Gate WITH
  subject <- [r \in Reqs |-> AuditText(r)],
  verdicts <- {<<j.text, j.passed>> : j \in judged},
  answer <- [r \in Reqs |->
              IF ~Strict \/ ~Ended(r) THEN "none"
              ELSE IF ~Returned(r) THEN "dropped"
              ELSE IF result[r].passed THEN "pass" ELSE "block"]
ImplementsGate == Promise!Spec

-----------------------------------------------------------------------------
(* What the documentation says, and the code does not do.                  *)

(* tests/test_regressions.py:234 of a cached result: a "stale value from    *)
(* any prior request must not bleed in".                                   *)
MatchesAreOwn ==
  \A r \in Reqs : Returned(r) => result[r].matches \subseteq {Text(r)}
=============================================================================
