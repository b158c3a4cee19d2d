----------------------------- MODULE MCPipeline -----------------------------
(***************************************************************************)
(* Pipeline for TLC.  Two people's names are masked to the same text, so   *)
(* that requests with different texts meet in the cache; a third text has  *)
(* something for both redactors to find; one text is flagged and one is    *)
(* too long.                                                               *)
(***************************************************************************)
EXTENDS Pipeline

CONSTANTS r1, r2, plain, alice, bob, masked, bad, huge

MCTexts == {plain, alice, bob, masked, bad, huge}
MCOversized == {huge}
MCCut == [t \in {huge} |-> plain]
MCFlagged == {bad}
MCMask == [t \in MCTexts |-> IF t \in {alice, bob} THEN masked ELSE t]
MCFinds == [t \in MCTexts |->
              IF t = alice THEN {1} ELSE IF t = bob THEN {1, 2} ELSE {}]

Base == [mode |-> "enforce", failure |-> "fail_closed", cache |-> TRUE, auditor |-> TRUE,
         redactors |-> TRUE, vault |-> TRUE, forward |-> TRUE, truncate |-> FALSE]

(* Every mode with every failure mode, and each other switch turned once.  *)
MCConfigs ==
  {[Base EXCEPT !.mode = m, !.failure = f] :
     m \in {"enforce", "shadow", "sample"}, f \in {"fail_closed", "fail_open"}}
  \cup {[Base EXCEPT !.forward = FALSE, !.truncate = TRUE],
        [Base EXCEPT !.cache = FALSE],
        [Base EXCEPT !.auditor = FALSE],
        [Base EXCEPT !.auditor = FALSE, !.cache = FALSE],
        [Base EXCEPT !.redactors = FALSE, !.vault = FALSE, !.mode = "shadow"]}

MCHistories == {None, alice}

StrictConfigs == {Base}
=============================================================================
