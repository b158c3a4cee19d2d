------------------------------- MODULE Config -------------------------------
(***************************************************************************)
(* The declarative configuration (config.py) as functions: what a document *)
(* is loaded into (load_config_dict, _validate), what protector is built   *)
(* from it (build_protector), and how the dual-vote auditor of such a      *)
(* protector combines its verdicts (backends/composite.py).                *)
(*                                                                         *)
(* A document is a record of the sections that matter here.  Sections are  *)
(* partial: a key the file leaves out is not in the domain.                *)
(*   parses     the file is there, is a mapping, and no list item lacks a  *)
(*              key the loader subscripts                                  *)
(*   root, defaults     failure_mode, mode, on_oversize, sample_rate       *)
(*   providers, auditor   primary, secondary (kinds) and policy            *)
(*   prevent    category -> enabled, action, names (are the types known?), *)
(*              apply_to, rules (does off_topic list any?)                 *)
(*   redactors  the kinds of the pre_redactors                             *)
(*   level      the log level                                              *)
(*   regexes    the actions of the custom regexes, and "broken" if one     *)
(*              does not compile                                           *)
(* The other keys are numbers and names that are passed on as they are.    *)
(***************************************************************************)
EXTENDS Integers, FiniteSets

Categories == {"pii", "secrets", "prompt_injection", "nsfw", "off_topic"}
Kinds == {"input", "output"}

-----------------------------------------------------------------------------
(* Loading. *)

(* The keys that are given, over the defaults of those that are not. *)
Over(given, default) ==
  [key \in DOMAIN given \cup DOMAIN default |->
     IF key \in DOMAIN given THEN given[key] ELSE default[key]]

DefaultSettings == [failure_mode |-> "fail_closed", mode |-> "enforce",
                    on_oversize |-> "reject", sample_rate |-> 1]

(* _set_simple for the root, then for the defaults section. *)
Settings(doc) == Over(doc.defaults, Over(doc.root, DefaultSettings))

(* _parse_providers; a section that is missing is the empty one. *)
NoSection == <<>>
Section(given) ==
  Over(given, [primary |-> "none", secondary |-> "none", policy |-> "primary_only"])

(* PreventConfig and _parse_prevent: a category that is mentioned is       *)
(* enabled unless it says otherwise, one that is not has its default.      *)
Mentioned(given) == Over(given, [enabled |-> TRUE, action |-> "block", names |-> "known",
                                 apply_to |-> Kinds, rules |-> FALSE])
Unmentioned(c) == Mentioned([enabled |-> c \notin {"nsfw", "off_topic"}])
Prevent(doc) ==
  [c \in Categories |-> IF c \in DOMAIN doc.prevent THEN Mentioned(doc.prevent[c])
                                                    ELSE Unmentioned(c)]

LoadConfigDict(doc) ==
  [settings |-> Settings(doc), providers |-> Section(doc.providers),
   auditor |-> Section(doc.auditor), prevent |-> Prevent(doc),
   redactors |-> doc.redactors, level |-> doc.level, regexes |-> doc.regexes]

(* _validate *)
Valid(cfg) ==
  /\ cfg.settings.failure_mode \in {"fail_closed", "fail_open"}
  /\ cfg.settings.mode \in {"enforce", "shadow", "sample"}
  /\ cfg.settings.on_oversize \in {"reject", "truncate"}
  /\ \A c \in {"pii", "secrets"} : cfg.prevent[c].names = "known"
  /\ \A c \in Categories : /\ cfg.prevent[c].action \in {"block", "redact", "log"}
                           /\ cfg.prevent[c].apply_to \subseteq Kinds

Loads(doc) == doc.parses /\ Valid(LoadConfigDict(doc))

-----------------------------------------------------------------------------
(* Building. *)

(* The auditors come from the auditor section if that has a primary; a     *)
(* secondary without a primary is built and not used.                      *)
Source(cfg) == IF cfg.auditor.primary # "none" THEN cfg.auditor ELSE cfg.providers
Voters(cfg) ==
  IF Source(cfg).primary = "none" THEN {}
  ELSE {"primary"} \union (IF Source(cfg).secondary = "none" THEN {} ELSE {"secondary"})

(* _route: the rules of a kind.  An enabled off_topic has the rules it     *)
(* lists; the other categories have their rule packs.                      *)
RulesEvenDisabled(cfg, kind) == {c \in Categories : kind \in cfg.prevent[c].apply_to}
Rules(cfg, kind) ==
  {c \in Categories : /\ cfg.prevent[c].enabled
                      /\ kind \in cfg.prevent[c].apply_to
                      /\ c = "off_topic" => cfg.prevent[c].rules}

(* What raises before the log level is set: an unknown provider kind or    *)
(* redactor kind, and Mode.sample, which wants a rate in 0..1.             *)
KnownProviders == {"openai", "anthropic", "ollama", "transformers", "mock", "none"}
KnownRedactors == {"presidio", "spacy", "regex_pack"}
BackendsBuild(cfg) ==
  /\ {Source(cfg).primary, Source(cfg).secondary} \subseteq KnownProviders
  /\ cfg.redactors \subseteq KnownRedactors
  /\ cfg.settings.mode = "sample" => cfg.settings.sample_rate \in 0..1

(* setLevel takes the names that logging knows. *)
LevelIsKnown(cfg) == cfg.level \in {"DEBUG", "INFO", "WARNING", "ERROR", "CRITICAL"}

(* What raises after it: re.compile of a custom regex, and the constructor *)
(* of PromptProtector without an auditor and without a redactor.           *)
ProtectorBuilds(cfg) ==
  /\ "broken" \notin cfg.regexes
  /\ Voters(cfg) # {} \/ cfg.redactors # {}

(* _custom_regex_fn, with scores in hundredths. *)
RegexScore(action) == IF action = "block" THEN 95 ELSE 70

Built(cfg) ==
  [voters |-> Voters(cfg),
   all_must_pass |-> Source(cfg).policy = "all_must_pass",
   rules |-> [kind \in Kinds |-> Rules(cfg, kind)],
   detectors |-> [action \in cfg.regexes |-> RegexScore(action)],
   failure_mode |-> cfg.settings.failure_mode,
   mode |-> cfg.settings.mode,
   on_oversize |-> cfg.settings.on_oversize]

(* create_app without a config file: a mock auditor and no rules. *)
FallbackProtector ==
  [voters |-> {"primary"}, all_must_pass |-> FALSE, rules |-> [kind \in Kinds |-> {}],
   detectors |-> <<>>, failure_mode |-> "fail_closed", mode |-> "enforce",
   on_oversize |-> "reject"]

-----------------------------------------------------------------------------
(* Judging.  Of a text it matters whether it is longer than the limit, what *)
(* matches it ("builtin" for a detector of default_registry with a score   *)
(* that blocks, and the actions of the custom regexes), and which rules    *)
(* each voter v finds violated, objects[v].  If the text is cut to the     *)
(* limit, that is said of what is left of it.                              *)

(* The size guard. *)
RejectedBySize(protector, text) == text.long /\ protector.on_oversize = "reject"

(* _consider_heuristic_block.  The built-in detectors are registered       *)
(* whatever the document says of their categories.                         *)
BlockedLocally(protector, text) ==
  \/ RejectedBySize(protector, text)
  \/ "builtin" \in text.matching
  \/ \E action \in text.matching \intersect DOMAIN protector.detectors :
        protector.detectors[action] >= 85

(* DualVoteAuditor.judge, and a single auditor's. *)
Passes(protector, rule, objects) ==
  IF protector.all_must_pass
  THEN \A v \in protector.voters : rule \notin objects[v]
  ELSE \E v \in protector.voters : rule \notin objects[v]

(* sanitize_input and sanitize_output: the rules that a request sends, an  *)
(* empty list included, replace those of the configuration.                *)
RulesFor(protector, kind, sent) == IF sent.overridden THEN sent.rules ELSE protector.rules[kind]

(* _run_auditor asks about every rule, or once about none.                 *)
DefaultRule == "default"
Asked(protector, kind, sent) ==
  LET rules == RulesFor(protector, kind, sent)
  IN IF rules = {} THEN {DefaultRule} ELSE rules

(* The verdict on a text when the voters in down raise on every call:      *)
(* gather raises with either of them, so every judgement fails and the     *)
(* failure mode decides.                                                   *)
AuditPasses(protector, kind, sent, objects, down) ==
  \/ protector.voters = {}
  \/ IF down \intersect protector.voters # {}
     THEN protector.failure_mode = "fail_open"
     ELSE \A rule \in Asked(protector, kind, sent) : Passes(protector, rule, objects)
Verdict(protector, kind, sent, text, down) ==
  \/ protector.mode = "shadow"
  \/ /\ ~BlockedLocally(protector, text)
     /\ AuditPasses(protector, kind, sent, text.objects, down)
=============================================================================
