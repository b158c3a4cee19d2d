--------------------------- MODULE Pipeline_proofs ---------------------------
(***************************************************************************)
(* Proofs about Pipeline, for any requests, texts and configurations.      *)
(***************************************************************************)
EXTENDS Pipeline, SequenceTheorems, TLAPS

-----------------------------------------------------------------------------
(* The inductive invariant, request by request.                            *)

(* The entry a request made for itself, or nothing. *)
OwnFields(r, res) == res.vault = VaultId(r) /\ res.redacted = RedactedField(r)
NoFields(res) == res.vault = None /\ res.redacted = None

(* The mapping the request's vault id stands for is there. *)
VaultFilled(r) == VaultId(r) = r => vault[r] \in Found(r)

ReportedOnce(r) ==
  /\ events[r] = << [passed |-> result[r].passed, degraded |-> result[r].degraded,
                     error |-> result[r].provider = "failure_mode"] >>

ReturnedInv(r) ==
  Returned(r) =>
    /\ result[r] \in Result
    /\ (result[r].passed /\ config.mode # "shadow") => Reason(r)
    /\ config.mode = "shadow" => result[r].passed
    /\ \/ OwnFields(r, result[r]) /\ VaultFilled(r)
       \/ NoFields(result[r])
    /\ result[r].provider # "sampler" => ReportedOnce(r)
    /\ result[r].provider = "sampler" => events[r] = <<>>

(* Between the local stages and the answer. *)
AuditingInv(r) ==
  /\ stage[r] \in {"lookup", "judging", "storing"} => VaultFilled(r)
  /\ stage[r] = "storing" => /\ pending[r] \in Result
                             /\ Sound(pending[r], AuditText(r))
                             /\ OwnFields(r, pending[r])

ReqInv(r) ==
  /\ ReturnedInv(r)
  /\ AuditingInv(r)
  /\ ~Returned(r) => events[r] = <<>>

IInv == TypeOK /\ CacheHoldsVerdicts /\ \A r \in Reqs : ReqInv(r)

-----------------------------------------------------------------------------
(* What a step of one request leaves alone.                                *)

LEMMA LocalsKeep ==
  ASSUME UNCHANGED <<config, req>>, NEW r
  PROVE  /\ Text(r)' = Text(r) /\ Found(r)' = Found(r)
         /\ Redacted(r)' = Redacted(r) /\ RedactedField(r)' = RedactedField(r)
         /\ AuditText(r)' = AuditText(r) /\ CacheKey(r)' = CacheKey(r)
         /\ VaultId(r)' = VaultId(r) /\ LocalMatches(r)' = LocalMatches(r)
BY DEF Text, Found, Redacted, RedactedField, AuditText, CacheKey, VaultId, LocalMatches

LEMMA VerdictsKeep ==
  ASSUME judged \subseteq judged', NEW t, NEW p, NEW d, HasVerdict(t, p, d)
  PROVE  HasVerdict(t, p, d)'
BY DEF HasVerdict

(* A pass of a text that a request still audits. *)
LEMMA PassKeeps ==
  ASSUME judged \subseteq judged', UNCHANGED <<config, req>>, NEW r,
         \E d \in BOOLEAN : HasVerdict(AuditText(r), TRUE, d)
  PROVE  \E d \in BOOLEAN : HasVerdict(AuditText(r), TRUE, d)'
BY LocalsKeep DEF HasVerdict

LEMMA SoundKeeps ==
  ASSUME judged \subseteq judged', config' = config, NEW res, NEW t, Sound(res, t)
  PROVE  \/ res.provider = "auditor" /\ HasVerdict(t, res.passed, res.degraded)'
         \/ res.provider = "local_only" /\ res.passed /\ ~config'.auditor
BY VerdictsKeep DEF Sound

(* The invariant of a request that takes no part in the step. *)
LEMMA OtherKeeps ==
  ASSUME NEW r \in Reqs, ReqInv(r), UNCHANGED <<config, req>>, judged \subseteq judged',
         stage'[r] = stage[r], result'[r] = result[r], pending'[r] = pending[r],
         vault'[r] = vault[r], events'[r] = events[r]
  PROVE  ReqInv(r)'
<1> USE DEF ReqInv
<1>1. VaultFilled(r)' <=> VaultFilled(r)
  BY LocalsKeep DEF VaultFilled
<1>2. ReturnedInv(r)'
  <2>1. SUFFICES ASSUME Returned(r) PROVE ReturnedInv(r)'
    BY DEF ReturnedInv, Returned
  <2>2. (result[r].passed /\ config.mode # "shadow") => Reason(r)'
    <3>1. SUFFICES ASSUME Reason(r) PROVE Reason(r)'
      BY <2>1 DEF ReturnedInv
    <3> QED BY <3>1, VerdictsKeep, LocalsKeep DEF Reason
  <2>3. (OwnFields(r, result[r]) <=> OwnFields(r, result[r])')
    BY LocalsKeep DEF OwnFields
  <2>4. ReportedOnce(r)' <=> ReportedOnce(r)
    BY DEF ReportedOnce
  <2> QED BY <1>1, <2>1, <2>2, <2>3, <2>4, LocalsKeep DEF ReturnedInv, NoFields, OwnFields
<1>3. AuditingInv(r)'
  <2>2. stage[r] = "storing" => Sound(pending[r], AuditText(r))'
    BY SoundKeeps, LocalsKeep DEF AuditingInv, Sound
  <2>3. OwnFields(r, pending[r])' <=> OwnFields(r, pending[r])
    BY LocalsKeep DEF OwnFields
  <2> QED BY <1>1, <2>2, <2>3 DEF AuditingInv
<1> QED BY <1>2, <1>3 DEF Returned

LEMMA CacheKeeps ==
  ASSUME CacheHoldsVerdicts, UNCHANGED config, judged \subseteq judged',
         \A t \in Texts : cache'[t] \in {cache[t], None}
  PROVE  CacheHoldsVerdicts'
<1> SUFFICES ASSUME NEW t \in Texts, cache'[t] # None PROVE Sound(cache[t], t)'
  BY DEF CacheHoldsVerdicts
<1>1. cache'[t] = cache[t] /\ Sound(cache[t], t)
  BY DEF CacheHoldsVerdicts
<1> QED BY <1>1, SoundKeeps DEF Sound

-----------------------------------------------------------------------------
(* The results a request builds, and the two ways it goes on with them.    *)

LEMMA BuiltResult ==
  ASSUME TypeOK, NEW r \in Reqs, NEW p \in BOOLEAN, NEW d \in BOOLEAN,
         NEW by \in {"local_only", "failure_mode", "auditor"}
  PROVE  /\ Build(r, p, d, by) \in Result
         /\ Build(r, p, d, by).passed = p /\ Build(r, p, d, by).degraded = d
         /\ Build(r, p, d, by).provider = by
         /\ OwnFields(r, Build(r, p, d, by))
<1>1. config \in ConfigType /\ req[r].text \in Texts
  BY PipelineAssumption DEF TypeOK
<1>2. Text(r) \in Texts
  BY <1>1, PipelineAssumption DEF Text
<1>3. Redacted(r) \in Texts
  BY <1>2, PipelineAssumption DEF Redacted
<1>4. LocalMatches(r) \in SUBSET Texts /\ RedactedField(r) \in Texts \cup {None}
      /\ VaultId(r) \in Reqs \cup {None}
  BY <1>2, <1>3 DEF LocalMatches, RedactedField, VaultId
<1> QED BY <1>4 DEF Build, Result, OwnFields

LEMMA AuditTextType ==
  ASSUME TypeOK, NEW r \in Reqs
  PROVE  Text(r) \in Texts /\ AuditText(r) \in Texts /\ CacheKey(r) \in Texts
<1>1. config \in ConfigType /\ req[r].text \in Texts
  BY PipelineAssumption DEF TypeOK
<1>2. Text(r) \in Texts
  BY <1>1, PipelineAssumption DEF Text
<1>3. Redacted(r) \in Texts
  BY <1>2, PipelineAssumption DEF Redacted
<1> QED BY <1>2, <1>3 DEF AuditText, CacheKey

LEMMA ShadowedResult ==
  ASSUME NEW res \in Result
  PROVE  /\ Shadowed(res) \in Result
         /\ Shadowed(res).passed = (config.mode = "shadow" \/ res.passed)
         /\ Shadowed(res).degraded = res.degraded
         /\ Shadowed(res).provider = res.provider
         /\ Shadowed(res).vault = res.vault
         /\ Shadowed(res).redacted = res.redacted
BY DEF Shadowed, Result

(* _maybe_shadow, _emit, return: a result that gives a reason for passing. *)
LEMMA FinishKeeps ==
  ASSUME TypeOK, NEW r \in Reqs, events[r] = <<>>, UNCHANGED <<config, req>>,
         NEW res \in Result, NEW error \in BOOLEAN, Finish(r, res, error),
         error = (res.provider = "failure_mode"), res.provider # "sampler",
         res.passed =>
           \/ res.provider = "local_only" /\ ~config.auditor
           \/ res.provider = "failure_mode" /\ config.failure = "fail_open"
           \/ res.provider = "auditor" /\ \E d \in BOOLEAN : HasVerdict(AuditText(r), TRUE, d)',
         (OwnFields(r, res) /\ VaultFilled(r)') \/ NoFields(res)
  PROVE  /\ ReqInv(r)'
         /\ stage' \in [Reqs -> {"new", "lookup", "judging", "storing",
                                 "returned", "raised", "cancelled"}]
         /\ result' \in [Reqs -> Result \cup {None}]
         /\ events' \in [Reqs -> Seq(Event)]
         /\ \A x \in Reqs \ {r} : stage'[x] = stage[x] /\ result'[x] = result[x]
                                  /\ events'[x] = events[x]
<1> DEFINE out == Shadowed(res)
           told == [passed |-> out.passed, degraded |-> out.degraded, error |-> error]
<1>1. /\ out \in Result
      /\ out.passed = (config.mode = "shadow" \/ res.passed)
      /\ out.degraded = res.degraded /\ out.provider = res.provider
      /\ out.vault = res.vault /\ out.redacted = res.redacted
  BY ShadowedResult
<1>2. told \in Event
  BY <1>1 DEF Result, Event
<1>3. /\ stage'[r] = "returned" /\ result'[r] = out /\ events'[r] = Append(<<>>, told)
      /\ \A x \in Reqs \ {r} : stage'[x] = stage[x] /\ result'[x] = result[x]
                               /\ events'[x] = events[x]
  BY DEF Finish, Reported, TypeOK
<1>4. events'[r] = <<told>>
  BY <1>3
<1>5. /\ stage' \in [Reqs -> {"new", "lookup", "judging", "storing",
                              "returned", "raised", "cancelled"}]
      /\ result' \in [Reqs -> Result \cup {None}]
  BY <1>1 DEF Finish, TypeOK
<1>6. events' \in [Reqs -> Seq(Event)]
  <2>1. events' = [events EXCEPT ![r] = Append(<<>>, told)]
    BY DEF Finish, Reported
  <2>2. Append(<<>>, told) \in Seq(Event)
    BY <1>2
  <2> QED BY <2>1, <2>2 DEF TypeOK
<1> HIDE DEF out
<1>7. (out.passed /\ config.mode # "shadow") => Reason(r)'
  BY <1>1, <1>3, LocalsKeep DEF Reason
<1>8. (OwnFields(r, result[r])' /\ VaultFilled(r)') \/ NoFields(result[r])'
  BY <1>1, <1>3, LocalsKeep DEF OwnFields, NoFields
<1>9. ReportedOnce(r)'
  BY <1>1, <1>3, <1>4 DEF ReportedOnce
<1>10. ReturnedInv(r)'
  BY <1>1, <1>3, <1>7, <1>8, <1>9 DEF ReturnedInv
<1>11. AuditingInv(r)' /\ Returned(r)'
  BY <1>3 DEF AuditingInv, Returned
<1> QED BY <1>3, <1>5, <1>6, <1>10, <1>11 DEF ReqInv

(* What Sound says of a result that passes. *)
LEMMA SoundPass ==
  ASSUME NEW res \in Result, NEW t, Sound(res, t), res.passed
  PROVE  \/ res.provider = "local_only" /\ ~config.auditor
         \/ res.provider = "auditor" /\ \E d \in BOOLEAN : HasVerdict(t, TRUE, d)
BY DEF Sound, Result

(* The auditor's verdict, stored first when there is a cache. *)
LEMMA StoreOrFinishKeeps ==
  ASSUME TypeOK, NEW r \in Reqs, events[r] = <<>>, UNCHANGED <<config, req>>,
         NEW res \in Result, StoreOrFinish(r, res), res.provider # "sampler",
         \/ res.provider = "auditor" /\ HasVerdict(AuditText(r), res.passed, res.degraded)'
         \/ res.provider = "local_only" /\ res.passed /\ ~config.auditor,
         OwnFields(r, res), VaultFilled(r)'
  PROVE  /\ ReqInv(r)'
         /\ stage' \in [Reqs -> {"new", "lookup", "judging", "storing",
                                 "returned", "raised", "cancelled"}]
         /\ result' \in [Reqs -> Result \cup {None}]
         /\ pending' \in [Reqs -> Result \cup {None}]
         /\ events' \in [Reqs -> Seq(Event)]
         /\ \A x \in Reqs \ {r} : stage'[x] = stage[x] /\ result'[x] = result[x]
                                  /\ pending'[x] = pending[x] /\ events'[x] = events[x]
<1>1. CASE config.cache
  <2>1. /\ stage' = [stage EXCEPT ![r] = "storing"]
        /\ pending' = [pending EXCEPT ![r] = res]
        /\ UNCHANGED <<result, events>>
    BY <1>1 DEF StoreOrFinish, Stored
  <2>2. stage'[r] = "storing" /\ pending'[r] = res /\ events'[r] = <<>>
    BY <2>1 DEF TypeOK
  <2>3. Sound(pending[r], AuditText(r))'
    BY <2>2, LocalsKeep DEF Sound
  <2>4. OwnFields(r, pending[r])'
    BY <2>2, LocalsKeep DEF OwnFields
  <2>5. ReqInv(r)'
    BY <2>2, <2>3, <2>4 DEF ReqInv, ReturnedInv, AuditingInv, Returned
  <2> QED BY <2>1, <2>5 DEF TypeOK
<1>2. CASE ~config.cache
  <2>1. Finish(r, res, FALSE) /\ UNCHANGED pending
    BY <1>2 DEF StoreOrFinish
  <2>2. FALSE = (res.provider = "failure_mode")
    OBVIOUS
  <2>3. res.passed =>
          \/ res.provider = "local_only" /\ ~config.auditor
          \/ res.provider = "failure_mode" /\ config.failure = "fail_open"
          \/ res.provider = "auditor" /\ \E d \in BOOLEAN : HasVerdict(AuditText(r), TRUE, d)'
    BY DEF Result
  <2>4. /\ ReqInv(r)'
        /\ stage' \in [Reqs -> {"new", "lookup", "judging", "storing",
                                "returned", "raised", "cancelled"}]
        /\ result' \in [Reqs -> Result \cup {None}]
        /\ events' \in [Reqs -> Seq(Event)]
        /\ \A x \in Reqs \ {r} : stage'[x] = stage[x] /\ result'[x] = result[x]
                                 /\ events'[x] = events[x]
    BY <2>1, <2>2, <2>3, FinishKeeps
  <2> QED BY <2>1, <2>4 DEF TypeOK
<1> QED BY <1>1, <1>2

(* Behind the cache lookup. *)
LEMMA ToAuditorKeeps ==
  ASSUME TypeOK, NEW r \in Reqs, events[r] = <<>>, UNCHANGED <<config, req>>,
         ToAuditor(r), VaultFilled(r)'
  PROVE  /\ ReqInv(r)'
         /\ stage' \in [Reqs -> {"new", "lookup", "judging", "storing",
                                 "returned", "raised", "cancelled"}]
         /\ result' \in [Reqs -> Result \cup {None}]
         /\ pending' \in [Reqs -> Result \cup {None}]
         /\ events' \in [Reqs -> Seq(Event)]
         /\ \A x \in Reqs \ {r} : stage'[x] = stage[x] /\ result'[x] = result[x]
                                  /\ pending'[x] = pending[x] /\ events'[x] = events[x]
<1>1. CASE config.auditor
  <2>1. stage' = [stage EXCEPT ![r] = "judging"] /\ UNCHANGED <<result, pending, events>>
    BY <1>1 DEF ToAuditor
  <2> QED BY <2>1 DEF TypeOK, ReqInv, ReturnedInv, AuditingInv, Returned
<1>2. CASE ~config.auditor
  <2>1. StoreOrFinish(r, LocalResult(r))
    BY <1>2 DEF ToAuditor
  <2>2. /\ LocalResult(r) \in Result /\ LocalResult(r).passed = TRUE
        /\ LocalResult(r).provider = "local_only" /\ OwnFields(r, LocalResult(r))
    BY BuiltResult DEF LocalResult
  <2> QED BY <1>2, <2>1, <2>2, StoreOrFinishKeeps
<1> QED BY <1>1, <1>2

(* A step of one request that does what the lemmas above say, and keeps the *)
(* cache and the other requests' vault entries.                            *)
LEMMA StepOfOne ==
  ASSUME IInv, NEW r \in Reqs, ReqInv(r)', UNCHANGED <<config, req>>, TypeOK',
         judged \subseteq judged',
         \A x \in Reqs \ {r} : /\ stage'[x] = stage[x] /\ result'[x] = result[x]
                               /\ pending'[x] = pending[x] /\ events'[x] = events[x]
                               /\ vault'[x] = vault[x],
         CacheHoldsVerdicts'
  PROVE  IInv'
<1>1. ASSUME NEW x \in Reqs PROVE ReqInv(x)'
  <2>1. CASE x = r
    BY <2>1
  <2>2. CASE x # r
    BY <2>2, OtherKeeps DEF IInv
  <2> QED BY <2>1, <2>2
<1> QED BY <1>1 DEF IInv

-----------------------------------------------------------------------------
(* The actions.                                                            *)

LEMMA InitIInv == Init => IInv
<1> SUFFICES ASSUME Init PROVE IInv
  OBVIOUS
<1>1. TypeOK
  BY PipelineAssumption DEF Init, TypeOK
<1>2. CacheHoldsVerdicts
  BY DEF Init, CacheHoldsVerdicts
<1>3. ASSUME NEW r \in Reqs PROVE ReqInv(r)
  BY DEF Init, ReqInv, ReturnedInv, AuditingInv, Returned
<1> QED BY <1>1, <1>2, <1>3 DEF IInv

LEMMA SampleOutKeeps == ASSUME IInv, NEW r \in Reqs, SampleOut(r) PROVE IInv'
<1> DEFINE res == [passed |-> TRUE, degraded |-> FALSE, provider |-> "sampler",
                   matches |-> {}, redacted |-> None, vault |-> None]
<1>1. TypeOK /\ events[r] = <<>>
  BY DEF SampleOut, IInv, ReqInv, Returned
<1>2. /\ res \in Result /\ res.provider = "sampler" /\ res.passed = TRUE
      /\ res.vault = None /\ res.redacted = None
  BY DEF Result
<1>3. /\ stage' = [stage EXCEPT ![r] = "returned"] /\ result' = [result EXCEPT ![r] = res]
      /\ UNCHANGED <<config, req, pending, cache, vault, events, judged>>
      /\ config.mode = "sample"
  BY DEF SampleOut
<1> HIDE DEF res
<1>4. TypeOK'
  BY <1>1, <1>2, <1>3 DEF TypeOK
<1>5. stage'[r] = "returned" /\ result'[r] = res /\ events'[r] = <<>>
  BY <1>1, <1>3 DEF TypeOK
<1>6. ReqInv(r)'
  BY <1>2, <1>3, <1>5 DEF ReqInv, ReturnedInv, AuditingInv, Returned, Reason, NoFields
<1>7. CacheHoldsVerdicts'
  BY <1>3, CacheKeeps DEF IInv
<1> QED BY <1>1, <1>3, <1>4, <1>6, <1>7, StepOfOne DEF TypeOK

(* The size guard and the heuristics: a block that refers to nothing.      *)
LEMMA EarlyBlockKeeps ==
  ASSUME IInv, NEW r \in Reqs, stage[r] = "new", NEW res \in Result, Finish(r, res, FALSE),
         res.passed = FALSE, res.provider \in {"size_guard", "heuristics"}, NoFields(res),
         UNCHANGED <<config, req, pending, cache, vault, judged>>
  PROVE  IInv'
<1>1. TypeOK /\ events[r] = <<>>
  BY DEF IInv, ReqInv, Returned
<1>2. FALSE = (res.provider = "failure_mode")
  OBVIOUS
<1>3. /\ ReqInv(r)'
      /\ stage' \in [Reqs -> {"new", "lookup", "judging", "storing",
                              "returned", "raised", "cancelled"}]
      /\ result' \in [Reqs -> Result \cup {None}]
      /\ events' \in [Reqs -> Seq(Event)]
      /\ \A x \in Reqs \ {r} : stage'[x] = stage[x] /\ result'[x] = result[x]
                               /\ events'[x] = events[x]
  BY <1>1, <1>2, FinishKeeps
<1>4. TypeOK'
  BY <1>1, <1>3 DEF TypeOK
<1>5. CacheHoldsVerdicts'
  BY CacheKeeps DEF IInv
<1> QED BY <1>3, <1>4, <1>5, StepOfOne

LEMMA RejectOversizeKeeps == ASSUME IInv, NEW r \in Reqs, RejectOversize(r) PROVE IInv'
<1> DEFINE res == [passed |-> FALSE, degraded |-> FALSE, provider |-> "size_guard",
                   matches |-> {}, redacted |-> None, vault |-> None]
<1>1. res \in Result /\ res.passed = FALSE /\ res.provider = "size_guard" /\ NoFields(res)
  BY DEF Result, NoFields
<1>2. stage[r] = "new" /\ Finish(r, res, FALSE)
      /\ UNCHANGED <<config, req, pending, cache, vault, judged>>
  BY DEF RejectOversize
<1> HIDE DEF res
<1> QED BY <1>1, <1>2, EarlyBlockKeeps

LEMMA BlockHeuristicKeeps == ASSUME IInv, NEW r \in Reqs, BlockHeuristic(r) PROVE IInv'
<1> DEFINE res == [passed |-> FALSE, degraded |-> FALSE, provider |-> "heuristics",
                   matches |-> {Text(r)}, redacted |-> None, vault |-> None]
<1>1. Text(r) \in Texts
  BY AuditTextType DEF IInv
<1>2. res \in Result /\ res.passed = FALSE /\ res.provider = "heuristics" /\ NoFields(res)
  BY <1>1 DEF Result, NoFields
<1>3. stage[r] = "new" /\ Finish(r, res, FALSE)
      /\ UNCHANGED <<config, req, pending, cache, vault, judged>>
  BY DEF BlockHeuristic
<1> HIDE DEF res
<1> QED BY <1>2, <1>3, EarlyBlockKeeps

LEMMA VaultAfterType ==
  ASSUME TypeOK, NEW r \in Reqs, NEW S, NEW v \in VaultAfter(r, S)
  PROVE  v \in 0..NumRedactors
<1>1. Text(r) \in Texts
  BY AuditTextType
<1>2. Found(r) \subseteq 1..NumRedactors
  BY <1>1, PipelineAssumption DEF Found
<1>3. vault[r] \in 0..NumRedactors
  BY DEF TypeOK
<1>4. v \in Found(r) \/ v = vault[r]
  BY DEF VaultAfter
<1> QED BY <1>2, <1>3, <1>4, PipelineAssumption

LEMMA LocalStageRaisesKeeps == ASSUME IInv, NEW r \in Reqs, LocalStageRaises(r) PROVE IInv'
<1>1. TypeOK /\ events[r] = <<>>
  BY DEF LocalStageRaises, IInv, ReqInv, Returned
<1>2. /\ stage' = [stage EXCEPT ![r] = "raised"]
      /\ UNCHANGED <<config, req, result, pending, cache, events, judged>>
  BY DEF LocalStageRaises
<1>3. \E v \in 0..NumRedactors : vault' = [vault EXCEPT ![r] = v]
  <2>1. CASE vault' = vault
    <3>1. vault' = [vault EXCEPT ![r] = vault[r]] /\ vault[r] \in 0..NumRedactors
      BY <1>1, <2>1 DEF TypeOK
    <3> QED BY <3>1
  <2>2. CASE vault' # vault
    <3>1. PICK n \in 0 .. NumRedactors - 1 :
            \E v \in VaultAfter(r, 1..n) : vault' = [vault EXCEPT ![r] = v]
      BY <2>2 DEF LocalStageRaises
    <3> QED BY <1>1, <3>1, VaultAfterType
  <2> QED BY <2>1, <2>2
<1>4. TypeOK'
  BY <1>1, <1>2, <1>3 DEF TypeOK
<1>5. \A x \in Reqs \ {r} : stage'[x] = stage[x] /\ vault'[x] = vault[x]
  BY <1>1, <1>2, <1>3 DEF TypeOK
<1>6. ReqInv(r)'
  BY <1>1, <1>2 DEF TypeOK, ReqInv, ReturnedInv, AuditingInv, Returned
<1>7. CacheHoldsVerdicts'
  BY <1>2, CacheKeeps DEF IInv
<1> QED BY <1>2, <1>4, <1>5, <1>6, <1>7, StepOfOne

LEMMA PassLocalStagesKeeps == ASSUME IInv, NEW r \in Reqs, PassLocalStages(r) PROVE IInv'
<1>1. TypeOK /\ events[r] = <<>>
  BY DEF PassLocalStages, IInv, ReqInv, Returned
<1>2. UNCHANGED <<config, req, cache, judged>>
  BY DEF PassLocalStages
<1>3. PICK v \in VaultAfter(r, 1..NumRedactors) : vault' = [vault EXCEPT ![r] = v]
  BY DEF PassLocalStages
<1>4. vault' \in [Reqs -> 0..NumRedactors] /\ \A x \in Reqs \ {r} : vault'[x] = vault[x]
  BY <1>1, <1>3, VaultAfterType DEF TypeOK
<1>5. VaultFilled(r)'
  <2>1. SUFFICES ASSUME VaultId(r) = r PROVE vault'[r] \in Found(r)
    BY <1>2, LocalsKeep DEF VaultFilled
  <2>2. config.vault /\ Found(r) # {}
    BY <2>1, PipelineAssumption DEF VaultId
  <2>3. Text(r) \in Texts
    BY <1>1, AuditTextType
  <2>4. Found(r) \subseteq 1..NumRedactors
    BY <2>3, PipelineAssumption DEF Found
  <2>5. v \in Found(r)
    BY <2>2, <2>4 DEF VaultAfter
  <2> QED BY <1>1, <1>3, <2>5 DEF TypeOK
<1>6. /\ ReqInv(r)'
      /\ stage' \in [Reqs -> {"new", "lookup", "judging", "storing",
                              "returned", "raised", "cancelled"}]
      /\ result' \in [Reqs -> Result \cup {None}]
      /\ pending' \in [Reqs -> Result \cup {None}]
      /\ events' \in [Reqs -> Seq(Event)]
      /\ \A x \in Reqs \ {r} : stage'[x] = stage[x] /\ result'[x] = result[x]
                               /\ pending'[x] = pending[x] /\ events'[x] = events[x]
  <2>1. CASE config.cache
    <3>1. stage' = [stage EXCEPT ![r] = "lookup"] /\ UNCHANGED <<result, pending, events>>
      BY <2>1 DEF PassLocalStages
    <3> QED BY <1>1, <1>5, <3>1 DEF TypeOK, ReqInv, ReturnedInv, AuditingInv, Returned
  <2>2. CASE ~config.cache
    <3>1. ToAuditor(r)
      BY <2>2 DEF PassLocalStages
    <3> QED BY <1>1, <1>2, <1>5, <3>1, ToAuditorKeeps
  <2> QED BY <2>1, <2>2
<1>7. TypeOK'
  BY <1>1, <1>2, <1>4, <1>6 DEF TypeOK
<1>8. CacheHoldsVerdicts'
  BY <1>2, CacheKeeps DEF IInv
<1> QED BY <1>2, <1>4, <1>6, <1>7, <1>8, StepOfOne

LEMMA LookupHitKeeps == ASSUME IInv, NEW r \in Reqs, LookupHit(r) PROVE IInv'
<1> DEFINE entry == cache[CacheKey(r)]
           res == FromCache(r, entry)
<1>1. TypeOK /\ events[r] = <<>> /\ VaultFilled(r)
  BY DEF LookupHit, IInv, ReqInv, AuditingInv, Returned
<1>2. UNCHANGED <<config, req, pending, cache, vault, judged>> /\ Finish(r, res, FALSE)
  BY DEF LookupHit
<1>3. CacheKey(r) = AuditText(r) /\ CacheKey(r) \in Texts
  BY <1>1, AuditTextType DEF CacheKey
<1>4. entry \in Result /\ Sound(entry, AuditText(r))
  BY <1>1, <1>3 DEF LookupHit, IInv, CacheHoldsVerdicts, TypeOK
<1>5. VaultId(r) \in Reqs \cup {None} /\ RedactedField(r) \in Texts \cup {None}
  <2>1. Text(r) \in Texts
    BY <1>1, AuditTextType
  <2>2. Redacted(r) \in Texts
    BY <2>1, PipelineAssumption DEF Redacted
  <2> QED BY <2>2 DEF VaultId, RedactedField
<1> HIDE DEF entry
<1>6. /\ res \in Result /\ res.passed = entry.passed /\ res.provider = entry.provider
      /\ OwnFields(r, res)
  BY <1>4, <1>5 DEF FromCache, Result, OwnFields
<1>7. entry.provider \in {"auditor", "local_only"}
  BY <1>4 DEF Sound
<1>8. res.passed =>
        \/ res.provider = "local_only" /\ ~config.auditor
        \/ res.provider = "failure_mode" /\ config.failure = "fail_open"
        \/ res.provider = "auditor" /\ \E d \in BOOLEAN : HasVerdict(AuditText(r), TRUE, d)'
  <2>1. SUFFICES ASSUME entry.passed
                 PROVE  \/ entry.provider = "local_only" /\ ~config.auditor
                        \/ entry.provider = "auditor"
                           /\ \E d \in BOOLEAN : HasVerdict(AuditText(r), TRUE, d)'
    BY <1>6
  <2>2. \/ entry.provider = "local_only" /\ ~config.auditor
        \/ entry.provider = "auditor" /\ \E d \in BOOLEAN : HasVerdict(AuditText(r), TRUE, d)
    BY <1>4, <2>1, SoundPass
  <2> QED BY <1>2, <2>2, PassKeeps
<1>9. FALSE = (res.provider = "failure_mode") /\ res.provider # "sampler"
  BY <1>6, <1>7
<1>10. VaultFilled(r)'
  BY <1>1, <1>2, LocalsKeep DEF VaultFilled
<1> HIDE DEF res
<1>11. /\ ReqInv(r)'
       /\ stage' \in [Reqs -> {"new", "lookup", "judging", "storing",
                               "returned", "raised", "cancelled"}]
       /\ result' \in [Reqs -> Result \cup {None}]
       /\ events' \in [Reqs -> Seq(Event)]
       /\ \A x \in Reqs \ {r} : stage'[x] = stage[x] /\ result'[x] = result[x]
                                /\ events'[x] = events[x]
  BY <1>1, <1>2, <1>6, <1>8, <1>9, <1>10, FinishKeeps
<1>12. TypeOK'
  BY <1>1, <1>2, <1>11 DEF TypeOK
<1>13. CacheHoldsVerdicts'
  BY <1>2, CacheKeeps DEF IInv
<1> QED BY <1>2, <1>11, <1>12, <1>13, StepOfOne

LEMMA LookupMissKeeps == ASSUME IInv, NEW r \in Reqs, LookupMiss(r) PROVE IInv'
<1>1. TypeOK /\ events[r] = <<>> /\ VaultFilled(r)
  BY DEF LookupMiss, IInv, ReqInv, AuditingInv, Returned
<1>2. UNCHANGED <<config, req, cache, vault, judged>> /\ ToAuditor(r)
  BY DEF LookupMiss
<1>3. VaultFilled(r)'
  BY <1>1, <1>2, LocalsKeep DEF VaultFilled
<1>4. /\ ReqInv(r)'
      /\ stage' \in [Reqs -> {"new", "lookup", "judging", "storing",
                              "returned", "raised", "cancelled"}]
      /\ result' \in [Reqs -> Result \cup {None}]
      /\ pending' \in [Reqs -> Result \cup {None}]
      /\ events' \in [Reqs -> Seq(Event)]
      /\ \A x \in Reqs \ {r} : stage'[x] = stage[x] /\ result'[x] = result[x]
                               /\ pending'[x] = pending[x] /\ events'[x] = events[x]
  BY <1>1, <1>2, <1>3, ToAuditorKeeps
<1>5. TypeOK'
  BY <1>1, <1>2, <1>4 DEF TypeOK
<1>6. CacheHoldsVerdicts'
  BY <1>2, CacheKeeps DEF IInv
<1> QED BY <1>2, <1>4, <1>5, <1>6, StepOfOne

LEMMA AuditorAnswersKeeps == ASSUME IInv, NEW r \in Reqs, AuditorAnswers(r) PROVE IInv'
<1>1. TypeOK /\ events[r] = <<>> /\ VaultFilled(r)
  BY DEF AuditorAnswers, IInv, ReqInv, AuditingInv, Returned
<1>2. PICK p \in BOOLEAN, d \in BOOLEAN :
        /\ judged' = judged \cup {[text |-> AuditText(r), history |-> req[r].history,
                                   passed |-> p, degraded |-> d]}
        /\ StoreOrFinish(r, Build(r, p, d, "auditor"))
  BY DEF AuditorAnswers
<1>3. UNCHANGED <<config, req, cache, vault>>
  BY DEF AuditorAnswers
<1>4. PICK res \in Result :
        /\ res = Build(r, p, d, "auditor")
        /\ res.passed = p /\ res.degraded = d /\ res.provider = "auditor"
        /\ OwnFields(r, res)
  BY <1>1, BuiltResult
<1>5. judged' \in SUBSET [text : Texts, history : Histories, passed : BOOLEAN, degraded : BOOLEAN]
  BY <1>1, <1>2, AuditTextType DEF TypeOK
<1>6. HasVerdict(AuditText(r), res.passed, res.degraded)'
  <2> DEFINE j == [text |-> AuditText(r), history |-> req[r].history, passed |-> p, degraded |-> d]
  <2>1. j \in judged' /\ j.text = AuditText(r) /\ j.passed = res.passed /\ j.degraded = res.degraded
    BY <1>2, <1>4
  <2>2. AuditText(r)' = AuditText(r)
    BY <1>3, LocalsKeep
  <2> HIDE DEF j
  <2> QED BY <2>1, <2>2 DEF HasVerdict
<1>7. VaultFilled(r)'
  BY <1>1, <1>3, LocalsKeep DEF VaultFilled
<1>8. /\ ReqInv(r)'
      /\ stage' \in [Reqs -> {"new", "lookup", "judging", "storing",
                              "returned", "raised", "cancelled"}]
      /\ result' \in [Reqs -> Result \cup {None}]
      /\ pending' \in [Reqs -> Result \cup {None}]
      /\ events' \in [Reqs -> Seq(Event)]
      /\ \A x \in Reqs \ {r} : stage'[x] = stage[x] /\ result'[x] = result[x]
                               /\ pending'[x] = pending[x] /\ events'[x] = events[x]
  <2>1. StoreOrFinish(r, res)
    BY <1>2, <1>4
  <2> QED BY <1>1, <1>3, <1>4, <1>6, <1>7, <2>1, StoreOrFinishKeeps
<1>9. TypeOK'
  BY <1>1, <1>3, <1>5, <1>8 DEF TypeOK
<1>10. CacheHoldsVerdicts' /\ judged \subseteq judged'
  BY <1>2, <1>3, CacheKeeps DEF IInv
<1> QED BY <1>3, <1>8, <1>9, <1>10, StepOfOne

LEMMA AuditorFailsKeeps == ASSUME IInv, NEW r \in Reqs, AuditorFails(r) PROVE IInv'
<1> DEFINE res == FailureResult(r)
<1>1. TypeOK /\ events[r] = <<>> /\ VaultFilled(r)
  BY DEF AuditorFails, IInv, ReqInv, AuditingInv, Returned
<1>2. UNCHANGED <<config, req, pending, cache, vault, judged>> /\ Finish(r, res, TRUE)
  BY DEF AuditorFails
<1>3. /\ res \in Result /\ res.passed = (config.failure = "fail_open")
      /\ res.provider = "failure_mode" /\ OwnFields(r, res)
  BY <1>1, BuiltResult DEF FailureResult
<1>4. TRUE = (res.provider = "failure_mode")
  BY <1>3
<1>5. VaultFilled(r)'
  BY <1>1, <1>2, LocalsKeep DEF VaultFilled
<1> HIDE DEF res
<1>6. /\ ReqInv(r)'
      /\ stage' \in [Reqs -> {"new", "lookup", "judging", "storing",
                              "returned", "raised", "cancelled"}]
      /\ result' \in [Reqs -> Result \cup {None}]
      /\ events' \in [Reqs -> Seq(Event)]
      /\ \A x \in Reqs \ {r} : stage'[x] = stage[x] /\ result'[x] = result[x]
                               /\ events'[x] = events[x]
  BY <1>1, <1>2, <1>3, <1>4, <1>5, FinishKeeps
<1>7. TypeOK'
  BY <1>1, <1>2, <1>6 DEF TypeOK
<1>8. CacheHoldsVerdicts'
  BY <1>2, CacheKeeps DEF IInv
<1> QED BY <1>2, <1>6, <1>7, <1>8, StepOfOne

(* What the cache holds once a sound pending result may have been written.  *)
LEMMA WriteKeepsCache ==
  ASSUME IInv, NEW r \in Reqs, stage[r] = "storing", UNCHANGED <<config, judged>>,
         cache' \in {cache, [cache EXCEPT ![CacheKey(r)] = pending[r]]}
  PROVE  CacheHoldsVerdicts' /\ cache' \in [Texts -> Result \cup {None}]
<1>1. CacheKey(r) = AuditText(r) /\ CacheKey(r) \in Texts
  BY AuditTextType DEF CacheKey, IInv
<1>2. pending[r] \in Result /\ Sound(pending[r], CacheKey(r))
  BY <1>1 DEF IInv, ReqInv, AuditingInv
<1>3. cache' \in [Texts -> Result \cup {None}]
  BY <1>1, <1>2 DEF IInv, TypeOK
<1>4. ASSUME NEW t \in Texts, cache'[t] # None PROVE Sound(cache'[t], t)
  <2>1. CASE cache'[t] = cache[t]
    BY <1>4, <2>1 DEF IInv, CacheHoldsVerdicts
  <2>2. CASE cache'[t] # cache[t]
    BY <1>1, <1>2, <2>2 DEF IInv, TypeOK
  <2> QED BY <2>1, <2>2
<1>5. CacheHoldsVerdicts'
  BY <1>4 DEF CacheHoldsVerdicts, Sound, HasVerdict
<1> QED BY <1>3, <1>5

LEMMA StoreKeeps == ASSUME IInv, NEW r \in Reqs, Store(r) PROVE IInv'
<1> DEFINE res == pending[r]
<1>1. TypeOK /\ events[r] = <<>> /\ VaultFilled(r) /\ stage[r] = "storing"
  BY DEF Store, IInv, ReqInv, AuditingInv, Returned
<1>2. UNCHANGED <<config, req, pending, vault, judged>> /\ Finish(r, res, FALSE)
  BY DEF Store
<1>3. res \in Result /\ Sound(res, AuditText(r)) /\ OwnFields(r, res)
  BY <1>1 DEF IInv, ReqInv, AuditingInv
<1>4. FALSE = (res.provider = "failure_mode") /\ res.provider # "sampler"
  BY <1>3 DEF Sound
<1>5. res.passed =>
        \/ res.provider = "local_only" /\ ~config.auditor
        \/ res.provider = "failure_mode" /\ config.failure = "fail_open"
        \/ res.provider = "auditor" /\ \E d \in BOOLEAN : HasVerdict(AuditText(r), TRUE, d)'
  <2>1. SUFFICES ASSUME res.passed
                 PROVE  \/ res.provider = "local_only" /\ ~config.auditor
                        \/ res.provider = "auditor"
                           /\ \E d \in BOOLEAN : HasVerdict(AuditText(r), TRUE, d)'
    OBVIOUS
  <2>2. \/ res.provider = "local_only" /\ ~config.auditor
        \/ res.provider = "auditor" /\ \E d \in BOOLEAN : HasVerdict(AuditText(r), TRUE, d)
    BY <1>3, <2>1, SoundPass
  <2> QED BY <1>2, <2>2, PassKeeps
<1>6. VaultFilled(r)'
  BY <1>1, <1>2, LocalsKeep DEF VaultFilled
<1>7. CacheHoldsVerdicts' /\ cache' \in [Texts -> Result \cup {None}]
  BY <1>1, <1>2, WriteKeepsCache DEF Store
<1> HIDE DEF res
<1>8. /\ ReqInv(r)'
      /\ stage' \in [Reqs -> {"new", "lookup", "judging", "storing",
                              "returned", "raised", "cancelled"}]
      /\ result' \in [Reqs -> Result \cup {None}]
      /\ events' \in [Reqs -> Seq(Event)]
      /\ \A x \in Reqs \ {r} : stage'[x] = stage[x] /\ result'[x] = result[x]
                               /\ events'[x] = events[x]
  BY <1>1, <1>2, <1>3, <1>4, <1>5, <1>6, FinishKeeps
<1>9. TypeOK'
  BY <1>1, <1>2, <1>7, <1>8 DEF TypeOK
<1> QED BY <1>2, <1>7, <1>8, <1>9, StepOfOne

LEMMA CancelKeeps == ASSUME IInv, NEW r \in Reqs, Cancel(r) PROVE IInv'
<1>1. TypeOK /\ events[r] = <<>>
  BY DEF Cancel, IInv, ReqInv, Returned
<1>2. /\ UNCHANGED <<config, req, result, pending, vault, events, judged>>
      /\ stage' = [stage EXCEPT ![r] = "cancelled"]
  BY DEF Cancel
<1>3. CacheHoldsVerdicts' /\ cache' \in [Texts -> Result \cup {None}]
  <2>1. CASE cache' = cache
    BY <1>1, <1>2, <2>1, CacheKeeps DEF IInv, TypeOK
  <2>2. CASE cache' # cache
    BY <1>2, <2>2, WriteKeepsCache DEF Cancel
  <2> QED BY <2>1, <2>2
<1>4. TypeOK' /\ \A x \in Reqs \ {r} : stage'[x] = stage[x]
  BY <1>1, <1>2, <1>3 DEF TypeOK
<1>5. ReqInv(r)'
  BY <1>1, <1>2 DEF TypeOK, ReqInv, ReturnedInv, AuditingInv, Returned
<1> QED BY <1>2, <1>3, <1>4, <1>5, StepOfOne

LEMMA ForgetKeeps == ASSUME IInv, NEW t \in Texts, Forget(t) PROVE IInv'
<1>1. /\ UNCHANGED <<config, req, stage, result, pending, vault, events, judged>>
      /\ cache' = [cache EXCEPT ![t] = None]
  BY DEF Forget
<1>2. TypeOK' /\ \A x \in Texts : cache'[x] \in {cache[x], None}
  BY <1>1 DEF IInv, TypeOK
<1>3. CacheHoldsVerdicts'
  BY <1>1, <1>2, CacheKeeps DEF IInv
<1>4. ASSUME NEW r \in Reqs PROVE ReqInv(r)'
  BY <1>1, OtherKeeps DEF IInv
<1> QED BY <1>2, <1>3, <1>4 DEF IInv

LEMMA StutterKeeps == IInv /\ UNCHANGED vars => IInv'
<1> SUFFICES ASSUME IInv, UNCHANGED vars PROVE IInv'
  OBVIOUS
<1>1. TypeOK' /\ CacheHoldsVerdicts'
  BY CacheKeeps DEF IInv, vars, TypeOK
<1>2. ASSUME NEW r \in Reqs PROVE ReqInv(r)'
  BY OtherKeeps DEF IInv, vars
<1> QED BY <1>1, <1>2 DEF IInv

THEOREM Invariance == Spec => []IInv
<1>1. Init => IInv
  BY InitIInv
<1>2. IInv /\ [Next]_vars => IInv'
  <2> SUFFICES ASSUME IInv, [Next]_vars PROVE IInv'
    OBVIOUS
  <2>1. ASSUME NEW r \in Reqs, Start(r) PROVE IInv'
    BY <2>1, SampleOutKeeps, RejectOversizeKeeps, BlockHeuristicKeeps, PassLocalStagesKeeps
    DEF Start
  <2>2. ASSUME NEW r \in Reqs, LocalStageRaises(r) PROVE IInv'
    BY <2>2, LocalStageRaisesKeeps
  <2>3. ASSUME NEW r \in Reqs, Lookup(r) PROVE IInv'
    BY <2>3, LookupHitKeeps, LookupMissKeeps DEF Lookup
  <2>4. ASSUME NEW r \in Reqs, Audit(r) PROVE IInv'
    BY <2>4, AuditorAnswersKeeps, AuditorFailsKeeps DEF Audit
  <2>5. ASSUME NEW r \in Reqs, Store(r) PROVE IInv'
    BY <2>5, StoreKeeps
  <2>6. ASSUME NEW r \in Reqs, Cancel(r) PROVE IInv'
    BY <2>6, CancelKeeps
  <2>7. ASSUME NEW t \in Texts, Forget(t) PROVE IInv'
    BY <2>7, ForgetKeeps
  <2>8. CASE UNCHANGED vars
    BY <2>8, StutterKeeps
  <2> QED BY <2>1, <2>2, <2>3, <2>4, <2>5, <2>6, <2>7, <2>8 DEF Next, AllEnded
<1> QED BY <1>1, <1>2, PTL DEF Spec

-----------------------------------------------------------------------------
(* What the invariant gives.                                               *)

(* Every request's state has its type, however requests interleave. *)
THEOREM TypeCorrect == Spec => []TypeOK
BY Invariance, PTL DEF IInv

(* What is cached is what the auditor said of that text, for any number of  *)
(* requests, evictions, failed lookups and cancelled stores.               *)
THEOREM CacheIsSound == Spec => []CacheHoldsVerdicts
BY Invariance, PTL DEF IInv

(* No request passes without a reason. *)
THEOREM PassesAreJustified == Spec => []PassHasReason
<1>1. IInv => PassHasReason
  BY DEF IInv, ReqInv, ReturnedInv, PassHasReason
<1> QED BY <1>1, Invariance, PTL

(* No path out of the pipeline blocks in shadow mode. *)
THEOREM ShadowIsTransparent == Spec => []ShadowNeverBlocks
<1>1. IInv => ShadowNeverBlocks
  BY DEF IInv, ReqInv, ReturnedInv, ShadowNeverBlocks
<1> QED BY <1>1, Invariance, PTL

(* A result refers to its own request's vault entry and redacted text. *)
THEOREM ResultsAreOwn == Spec => []ResultIsOwn
<1>1. ASSUME IInv, NEW r \in Reqs, Returned(r)
      PROVE  /\ result[r].vault \in {None, r}
             /\ result[r].vault = r => vault[r] \in Found(r)
             /\ result[r].redacted \in {None, Mask[Text(r)]}
  <2>1. \/ OwnFields(r, result[r]) /\ VaultFilled(r)
        \/ NoFields(result[r])
    BY <1>1 DEF IInv, ReqInv, ReturnedInv
  <2>2. CASE NoFields(result[r])
    BY <2>2, PipelineAssumption DEF NoFields
  <2>3. CASE OwnFields(r, result[r]) /\ VaultFilled(r)
    BY <2>3 DEF OwnFields, VaultFilled, VaultId, RedactedField, Redacted
  <2> QED BY <2>1, <2>2, <2>3
<1>2. IInv => ResultIsOwn
  BY <1>1 DEF ResultIsOwn
<1> QED BY <1>2, Invariance, PTL

(* Every returned result was reported once, as it was returned. *)
THEOREM ResultsAreReported == Spec => []EventsTellResults
<1>1. ASSUME IInv, NEW r \in Reqs, Returned(r), result[r].provider # "sampler"
      PROVE  /\ Len(events[r]) = 1
             /\ events[r][1].passed = result[r].passed
             /\ events[r][1].degraded = result[r].degraded
             /\ events[r][1].error <=> result[r].provider = "failure_mode"
  <2> DEFINE e == [passed |-> result[r].passed, degraded |-> result[r].degraded,
                   error |-> result[r].provider = "failure_mode"]
  <2>1. events[r] = <<e>>
    BY <1>1 DEF IInv, ReqInv, ReturnedInv, ReportedOnce
  <2>2. Len(events[r]) = 1 /\ events[r][1] = e
    BY <2>1
  <2>3. /\ e.passed = result[r].passed /\ e.degraded = result[r].degraded
        /\ e.error <=> result[r].provider = "failure_mode"
    OBVIOUS
  <2> HIDE DEF e
  <2> QED BY <2>2, <2>3
<1>2. ASSUME IInv, NEW r \in Reqs, ~(Returned(r) /\ result[r].provider # "sampler")
      PROVE  events[r] = <<>>
  BY <1>2 DEF IInv, ReqInv, ReturnedInv
<1>3. IInv => EventsTellResults
  BY <1>1, <1>2 DEF EventsTellResults
<1> QED BY <1>3, Invariance, PTL

-----------------------------------------------------------------------------
(* Pipeline implements Gate: the auditor's answer is the verdict, the end  *)
(* of a request is its answer, and everything else stutters.               *)

Answer(r) == IF ~Strict \/ ~Ended(r) THEN "none"
             ELSE IF ~Returned(r) THEN "dropped"
             ELSE IF result[r].passed THEN "pass" ELSE "block"
Answers == [r \in Reqs |-> Answer(r)]
Verdicts == {<<j.text, j.passed>> : j \in judged}
Subjects == [r \in Reqs |-> AuditText(r)]

LEMMA SubjectsStay == ASSUME UNCHANGED <<config, req>> PROVE Subjects' = Subjects
BY LocalsKeep DEF Subjects

(* A step that ends no request and teaches no verdict. *)
LEMMA QuietStutters ==
  ASSUME UNCHANGED <<config, req, judged>>,
         \A x \in Reqs : /\ Ended(x)' <=> Ended(x)
                         /\ Ended(x) => stage'[x] = stage[x] /\ result'[x] = result[x]
  PROVE  UNCHANGED Promise!vars
<1>1. Answers' = Answers
  BY DEF Answers, Answer, Strict, Returned
<1>2. Verdicts' = Verdicts
  BY DEF Verdicts
<1> QED BY <1>1, <1>2, SubjectsStay DEF Promise!vars, Answers, Answer, Verdicts, Subjects

(* Without the strict gate there are no answers to explain. *)
LEMMA LaxStutters ==
  ASSUME UNCHANGED <<config, req, judged>>, ~Strict
  PROVE  UNCHANGED Promise!vars
<1>1. Answers' = Answers
  BY DEF Answers, Answer, Strict
<1>2. Verdicts' = Verdicts
  BY DEF Verdicts
<1> QED BY <1>1, <1>2, SubjectsStay DEF Promise!vars, Answers, Answer, Verdicts, Subjects

(* The end of a request is its answer. *)
LEMMA EndTells ==
  ASSUME UNCHANGED <<config, req>>, NEW r \in Reqs, Strict, ~Ended(r), Ended(r)',
         \A x \in Reqs \ {r} : stage'[x] = stage[x] /\ result'[x] = result[x],
         NEW a, Answer(r)' = a
  PROVE  Promise!Tell(r, a)
<1>1. Answers[r] = "none"
  BY DEF Answers, Answer
<1>2. \A x \in Reqs \ {r} : Answer(x)' = Answer(x)
  BY DEF Answer, Strict, Ended, Returned
<1>3. Answers' = [Answers EXCEPT ![r] = a]
  BY <1>2 DEF Answers
<1> QED BY <1>1, <1>3, SubjectsStay DEF Promise!Tell, Answers, Answer, Subjects

LEMMA DropImplements ==
  ASSUME NEW r \in Reqs, TypeOK, UNCHANGED <<config, req, result, judged>>, ~Ended(r),
         NEW s \in {"raised", "cancelled"}, stage' = [stage EXCEPT ![r] = s]
  PROVE  [Promise!Next]_(Promise!vars)
<1>1. CASE Strict
  <2>1. Ended(r)' /\ Answer(r)' = "dropped" /\ \A x \in Reqs \ {r} : stage'[x] = stage[x]
    BY <1>1 DEF TypeOK, Ended, Answer, Returned, Strict
  <2>2. Verdicts' = Verdicts
    BY DEF Verdicts
  <2>3. Promise!Tell(r, "dropped")
    BY <1>1, <2>1, EndTells
  <2> QED BY <2>2, <2>3 DEF Promise!Next, Promise!Drop, Verdicts
<1>2. CASE ~Strict
  BY <1>2, LaxStutters
<1> QED BY <1>1, <1>2

(* A strict request returns what it hands to the tail. *)
LEMMA StrictFinish ==
  ASSUME NEW r \in Reqs, TypeOK, UNCHANGED <<config, req>>, ~Ended(r), Strict,
         NEW res, NEW e, Finish(r, res, e)
  PROVE  /\ stage'[r] = "returned" /\ result'[r] = res /\ Ended(r)'
         /\ \A x \in Reqs \ {r} : stage'[x] = stage[x] /\ result'[x] = result[x]
BY DEF Finish, TypeOK, Shadowed, Strict, Ended

LEMMA StrictPass ==
  ASSUME NEW r \in Reqs, TypeOK, UNCHANGED <<config, req>>, ~Ended(r), Strict,
         NEW res, NEW e, Finish(r, res, e), res.passed = TRUE
  PROVE  Promise!Tell(r, "pass")
<1>1. Answer(r)' = "pass"
  BY StrictFinish DEF Answer, Returned, Strict, Ended
<1> QED BY <1>1, StrictFinish, EndTells

LEMMA StrictBlock ==
  ASSUME NEW r \in Reqs, TypeOK, UNCHANGED <<config, req>>, ~Ended(r), Strict,
         NEW res, NEW e, Finish(r, res, e), res.passed = FALSE
  PROVE  Promise!Tell(r, "block")
<1>1. Answer(r)' = "block"
  BY StrictFinish DEF Answer, Returned, Strict, Ended
<1> QED BY <1>1, StrictFinish, EndTells

(* A finish on a verdict that is known already, or on none. *)
LEMMA FinishImplements ==
  ASSUME NEW r \in Reqs, TypeOK, UNCHANGED <<config, req, judged>>, ~Ended(r),
         NEW res, NEW e, Finish(r, res, e), res.passed = TRUE \/ res.passed = FALSE,
         (Strict /\ res.passed = TRUE) => <<AuditText(r), TRUE>> \in Verdicts
  PROVE  [Promise!Next]_(Promise!vars)
<1>1. Verdicts' = Verdicts
  BY DEF Verdicts
<1>2. CASE Strict /\ res.passed = TRUE
  <2>1. Promise!Tell(r, "pass")
    BY <1>2, StrictPass
  <2>2. Subjects[r] = AuditText(r)
    BY DEF Subjects
  <2> QED BY <1>1, <1>2, <2>1, <2>2 DEF Promise!Next, Promise!Pass, Verdicts, Subjects
<1>3. CASE Strict /\ res.passed = FALSE
  <2>1. Promise!Tell(r, "block")
    BY <1>3, StrictBlock
  <2> QED BY <1>1, <2>1 DEF Promise!Next, Promise!Block, Verdicts
<1>4. CASE ~Strict
  BY <1>4, LaxStutters
<1> QED BY <1>2, <1>3, <1>4

(* Under the strict gate a sound pass rests on a verdict. *)
LEMMA SoundIsVerdict ==
  ASSUME NEW res \in Result, NEW t, Sound(res, t), Strict, res.passed = TRUE
  PROVE  <<t, TRUE>> \in Verdicts
<1>1. \E d \in BOOLEAN : HasVerdict(t, TRUE, d)
  BY SoundPass DEF Strict
<1>2. PICK j \in judged : j.text = t /\ j.passed = TRUE
  BY <1>1 DEF HasVerdict
<1>3. <<j.text, j.passed>> \in Verdicts
  BY DEF Verdicts
<1> QED BY <1>2, <1>3

LEMMA ToAuditorImplements ==
  ASSUME NEW r \in Reqs, TypeOK, UNCHANGED <<config, req, judged>>, ~Ended(r), ToAuditor(r)
  PROVE  [Promise!Next]_(Promise!vars)
<1>1. CASE Strict
  <2>1. stage' = [stage EXCEPT ![r] = "judging"] /\ result' = result
    BY <1>1 DEF ToAuditor, Strict
  <2> QED BY <2>1, QuietStutters DEF TypeOK, Ended
<1>2. CASE ~Strict
  BY <1>2, LaxStutters
<1> QED BY <1>1, <1>2

LEMMA AuditorAnswersImplements ==
  ASSUME IInv, NEW r \in Reqs, AuditorAnswers(r)
  PROVE  Promise!Next
<1>1. PICK p \in BOOLEAN, d \in BOOLEAN :
        /\ judged' = judged \cup {[text |-> AuditText(r), history |-> req[r].history,
                                   passed |-> p, degraded |-> d]}
        /\ StoreOrFinish(r, Build(r, p, d, "auditor"))
  BY DEF AuditorAnswers
<1>2. UNCHANGED <<config, req>> /\ ~Ended(r) /\ TypeOK
  BY DEF AuditorAnswers, Ended, IInv
<1>3. Verdicts' = Verdicts \cup {<<AuditText(r), p>>} /\ AuditText(r) \in Texts
  <2> DEFINE j == [text |-> AuditText(r), history |-> req[r].history, passed |-> p, degraded |-> d]
  <2>1. judged' = judged \cup {j} /\ j.text = AuditText(r) /\ j.passed = p
    BY <1>1
  <2> HIDE DEF j
  <2>2. Verdicts' = Verdicts \cup {<<j.text, j.passed>>}
    BY <2>1 DEF Verdicts
  <2> QED BY <1>2, <2>1, <2>2, AuditTextType
<1>4. Subjects' = Subjects /\ Subjects[r] = AuditText(r)
  BY <1>2, SubjectsStay DEF Subjects
<1>5. CASE config.cache \/ ~Strict
  <2>1. Answers' = Answers
    <3>1. CASE ~Strict
      BY <1>2, <3>1 DEF Answers, Answer, Strict
    <3>2. CASE config.cache
      <4>1. stage' = [stage EXCEPT ![r] = "storing"] /\ result' = result
        BY <1>1, <3>2 DEF StoreOrFinish
      <4> QED BY <1>2, <4>1 DEF Answers, Answer, Strict, Ended, Returned, TypeOK
    <3> QED BY <1>5, <3>1, <3>2
  <2>2. Promise!Judge
    BY <1>3, <1>4, <2>1 DEF Promise!Judge, Verdicts, Answers, Answer, Subjects
  <2> QED BY <2>2 DEF Promise!Next
<1>6. CASE ~config.cache /\ Strict
  <2>1. PICK res : res = Build(r, p, d, "auditor")
    OBVIOUS
  <2>2. res.passed = p
    BY <1>2, <2>1, BuiltResult
  <2>3. Finish(r, res, FALSE)
    BY <1>1, <1>6, <2>1 DEF StoreOrFinish
  <2>4. CASE p = TRUE
    <3>1. Promise!Tell(r, "pass")
      BY <1>2, <1>6, <2>2, <2>3, <2>4, StrictPass
    <3>2. Promise!Pass(r)
      BY <1>3, <1>4, <2>4, <3>1 DEF Promise!Pass, Verdicts, Subjects
    <3> QED BY <3>2 DEF Promise!Next
  <2>5. CASE p = FALSE
    <3>1. Promise!Tell(r, "block")
      BY <1>2, <1>6, <2>2, <2>3, <2>5, StrictBlock
    <3>2. Promise!Block(r)
      BY <1>3, <1>4, <2>5, <3>1 DEF Promise!Block, Verdicts, Subjects
    <3> QED BY <3>2 DEF Promise!Next
  <2> QED BY <2>4, <2>5
<1> QED BY <1>5, <1>6

(* The paths that end a request without the auditor's judgement. *)
LEMMA EndsImplement ==
  ASSUME IInv, NEW r \in Reqs,
         RejectOversize(r) \/ BlockHeuristic(r) \/ AuditorFails(r)
  PROVE  [Promise!Next]_(Promise!vars)
<1>1. TypeOK /\ ~Ended(r) /\ UNCHANGED <<config, req, judged>>
  BY DEF RejectOversize, BlockHeuristic, AuditorFails, IInv, Ended
<1>2. CASE AuditorFails(r)
  <2>1. PICK res : res = FailureResult(r)
    OBVIOUS
  <2>2. res.passed = (config.failure = "fail_open")
    BY <1>1, <2>1, BuiltResult DEF FailureResult
  <2>3. Strict => res.passed = FALSE
    BY <2>2 DEF Strict
  <2>4. Finish(r, res, TRUE) /\ (res.passed = TRUE \/ res.passed = FALSE)
    BY <1>2, <2>1, <2>2 DEF AuditorFails
  <2> QED BY <1>1, <2>3, <2>4, FinishImplements
<1>3. CASE RejectOversize(r)
  <2>1. PICK res : /\ res.passed = FALSE
                   /\ Finish(r, res, FALSE)
    BY <1>3 DEF RejectOversize
  <2> QED BY <1>1, <2>1, FinishImplements
<1>4. CASE BlockHeuristic(r)
  <2>1. PICK res : /\ res.passed = FALSE
                   /\ Finish(r, res, FALSE)
    BY <1>4 DEF BlockHeuristic
  <2> QED BY <1>1, <2>1, FinishImplements
<1> QED BY <1>2, <1>3, <1>4

(* The two paths that answer with a verdict given earlier. *)
LEMMA ReuseImplements ==
  ASSUME IInv, NEW r \in Reqs, LookupHit(r) \/ Store(r)
  PROVE  [Promise!Next]_(Promise!vars)
<1>1. TypeOK /\ ~Ended(r) /\ UNCHANGED <<config, req, judged>>
  BY DEF LookupHit, Store, IInv, Ended
<1>2. CacheKey(r) = AuditText(r) /\ CacheKey(r) \in Texts
  BY <1>1, AuditTextType DEF CacheKey
<1>3. CASE LookupHit(r)
  <2>1. PICK entry \in Result : entry = cache[CacheKey(r)] /\ Sound(entry, AuditText(r))
    BY <1>1, <1>2, <1>3 DEF LookupHit, IInv, CacheHoldsVerdicts, TypeOK
  <2>2. PICK res : res = FromCache(r, entry)
    OBVIOUS
  <2>3. res.passed = entry.passed /\ (res.passed = TRUE \/ res.passed = FALSE)
    BY <2>2 DEF FromCache, Result
  <2>4. Finish(r, res, FALSE)
    BY <1>3, <2>1, <2>2 DEF LookupHit
  <2>5. (Strict /\ res.passed = TRUE) => <<AuditText(r), TRUE>> \in Verdicts
    BY <2>1, <2>3, SoundIsVerdict
  <2> QED BY <1>1, <2>3, <2>4, <2>5, FinishImplements
<1>4. CASE Store(r)
  <2>1. PICK res \in Result : res = pending[r] /\ Sound(res, AuditText(r))
    BY <1>4 DEF Store, IInv, ReqInv, AuditingInv
  <2>2. Finish(r, res, FALSE) /\ (res.passed = TRUE \/ res.passed = FALSE)
    BY <1>4, <2>1 DEF Store, Result
  <2>3. (Strict /\ res.passed = TRUE) => <<AuditText(r), TRUE>> \in Verdicts
    BY <2>1, SoundIsVerdict
  <2> QED BY <1>1, <2>2, <2>3, FinishImplements
<1> QED BY <1>3, <1>4

LEMMA PassLocalStagesImplements ==
  ASSUME IInv, NEW r \in Reqs, PassLocalStages(r)
  PROVE  [Promise!Next]_(Promise!vars)
<1>1. TypeOK /\ ~Ended(r) /\ UNCHANGED <<config, req, judged>>
  BY DEF PassLocalStages, IInv, Ended
<1>2. CASE config.cache
  <2>1. stage' = [stage EXCEPT ![r] = "lookup"] /\ result' = result
    BY <1>2 DEF PassLocalStages
  <2> QED BY <1>1, <2>1, QuietStutters DEF TypeOK, Ended
<1>3. CASE ~config.cache
  <2>1. ToAuditor(r)
    BY <1>3 DEF PassLocalStages
  <2> QED BY <1>1, <2>1, ToAuditorImplements
<1> QED BY <1>2, <1>3

LEMMA InitPromises == Init => Promise!Init
<1> SUFFICES ASSUME Init PROVE Promise!Init
  OBVIOUS
<1>1. TypeOK
  BY InitIInv DEF IInv
<1>2. Subjects \in [Reqs -> Texts]
  BY <1>1, AuditTextType DEF Subjects
<1>3. Verdicts = {} /\ Answers = [r \in Reqs |-> "none"]
  BY DEF Init, Verdicts, Answers, Answer, Ended
<1> QED BY <1>2, <1>3 DEF Promise!Init, Subjects, Verdicts, Answers, Answer

(* Enforcing, failing closed and with an auditor, the pipeline keeps the    *)
(* gate's promise: nothing passes that the auditor has not passed, whatever *)
(* is cached, fails or is cancelled meanwhile (protector.py:188-373).      *)
THEOREM PipelineImplementsGate == Spec => ImplementsGate
<1>1. IInv /\ [Next]_vars => [Promise!Next]_(Promise!vars)
  <2> SUFFICES ASSUME IInv, [Next]_vars PROVE [Promise!Next]_(Promise!vars)
    OBVIOUS
  <2>1. ASSUME NEW r \in Reqs, Start(r) PROVE [Promise!Next]_(Promise!vars)
    <3>1. CASE SampleOut(r)
      <4>1. UNCHANGED <<config, req, judged>> /\ ~Strict
        BY <3>1 DEF SampleOut, Strict
      <4> QED BY <4>1, LaxStutters
    <3> QED BY <2>1, <3>1, EndsImplement, PassLocalStagesImplements DEF Start
  <2>2. ASSUME NEW r \in Reqs, LocalStageRaises(r) PROVE [Promise!Next]_(Promise!vars)
    <3>1. /\ ~Ended(r) /\ stage' = [stage EXCEPT ![r] = "raised"]
          /\ UNCHANGED <<config, req, result, judged>> /\ TypeOK
      BY <2>2 DEF LocalStageRaises, Ended, IInv
    <3> QED BY <3>1, DropImplements
  <2>3. ASSUME NEW r \in Reqs, Lookup(r) PROVE [Promise!Next]_(Promise!vars)
    <3>1. CASE LookupMiss(r)
      <4>1. TypeOK /\ ~Ended(r) /\ UNCHANGED <<config, req, judged>> /\ ToAuditor(r)
        BY <3>1 DEF LookupMiss, Ended, IInv
      <4> QED BY <4>1, ToAuditorImplements
    <3> QED BY <2>3, <3>1, ReuseImplements DEF Lookup
  <2>4. ASSUME NEW r \in Reqs, Audit(r) PROVE [Promise!Next]_(Promise!vars)
    BY <2>4, AuditorAnswersImplements, EndsImplement DEF Audit
  <2>5. ASSUME NEW r \in Reqs, Store(r) PROVE [Promise!Next]_(Promise!vars)
    BY <2>5, ReuseImplements
  <2>6. ASSUME NEW r \in Reqs, Cancel(r) PROVE [Promise!Next]_(Promise!vars)
    <3>1. /\ ~Ended(r) /\ stage' = [stage EXCEPT ![r] = "cancelled"]
          /\ UNCHANGED <<config, req, result, judged>> /\ TypeOK
      BY <2>6 DEF Cancel, Ended, IInv
    <3> QED BY <3>1, DropImplements
  <2>7. ASSUME NEW t \in Texts, Forget(t) PROVE [Promise!Next]_(Promise!vars)
    BY <2>7, QuietStutters DEF Forget, Ended
  <2>8. CASE UNCHANGED vars
    BY <2>8, QuietStutters DEF vars, Ended
  <2> QED BY <2>1, <2>2, <2>3, <2>4, <2>5, <2>6, <2>7, <2>8 DEF Next, AllEnded
<1> QED BY <1>1, InitPromises, Invariance, PTL DEF Spec, ImplementsGate, Promise!Spec
=============================================================================
