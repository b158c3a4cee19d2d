------------------------------ MODULE MCServer ------------------------------
(* Server for TLC: concurrent reloads and one edit of the file.  Every     *)
(* section of a document is varied, so that every way to pass, to block    *)
(* and to fail a reload occurs; the texts meet objections of either voter, *)
(* of both, to different rules and to none, a client's own rule among them. *)
EXTENDS Server, TLC

CONSTANTS t1, t2

Plain == [parses |-> TRUE, root |-> <<>>, defaults |-> <<>>,
          providers |-> [primary |-> "openai", secondary |-> "anthropic"],
          auditor |-> NoSection, prevent |-> [pii |-> [action |-> "block"]],
          redactors |-> {}, level |-> "INFO", regexes |-> {}]

(* Documents the loader or the builder rejects, each at another line; the  *)
(* last two are faulty behind setLevel.                                    *)
Faulty == {[Plain EXCEPT !.parses = FALSE],
           [Plain EXCEPT !.root = [mode |-> "audit"]],
           [Plain EXCEPT !.defaults = [mode |-> "sample", sample_rate |-> 2]],
           [Plain EXCEPT !.providers = [primary |-> "gemini"]],
           [Plain EXCEPT !.level = "LOUD"],
           [Plain EXCEPT !.level = "DEBUG", !.regexes = {"broken"}],
           [Plain EXCEPT !.level = "DEBUG", !.providers = [secondary |-> "mock"]]}

(* A root that is taken as it is; and one that the defaults override, with *)
(* an auditor section that has no primary and so is not used.              *)
Open == [Plain EXCEPT !.root = [failure_mode |-> "fail_open"], !.level = "DEBUG",
                      !.providers = [primary |-> "openai", secondary |-> "anthropic",
                                     policy |-> "any_must_pass"],
                      !.regexes = {"block", "redact"}]
Overridden == [Plain EXCEPT !.root = [failure_mode |-> "fail_open", mode |-> "shadow"],
                            !.defaults = [failure_mode |-> "fail_closed", mode |-> "enforce"],
                            !.auditor = [secondary |-> "mock", policy |-> "all_must_pass"],
                            !.prevent = [pii |-> [enabled |-> FALSE],
                                         nsfw |-> [apply_to |-> {"output"}]]]

(* Both must pass, and every category but nsfw; shadow; sampling, and no   *)
(* category; redaction without an auditor.                                 *)
Both == [Plain EXCEPT !.auditor = [primary |-> "mock", secondary |-> "openai",
                                   policy |-> "all_must_pass"],
                      !.defaults = [on_oversize |-> "truncate"],
                      !.prevent = [off_topic |-> [rules |-> TRUE]]]
Shadow == [Plain EXCEPT !.root = [mode |-> "shadow"], !.regexes = {"redact"}]
Sampling == [Plain EXCEPT !.defaults = [mode |-> "sample", sample_rate |-> 0],
                          !.prevent = [c \in Categories |-> [enabled |-> FALSE]]]
Redacting == [Plain EXCEPT !.providers = NoSection, !.redactors = {"regex_pack"}]

MCDocs == {Plain, Open, Overridden, Both, Shadow, Sampling, Redacting} \union Faulty

NoObjections == [primary |-> {}, secondary |-> {}]
Texted(matching, objects) == [long |-> FALSE, matching |-> matching, objects |-> objects]
MCTexts ==
  {Texted({}, NoObjections), [Texted({}, NoObjections) EXCEPT !.long = TRUE],
   Texted({"builtin"}, NoObjections), Texted({"block", "redact"}, NoObjections),
   Texted({"redact"}, [primary |-> {"pii"}, secondary |-> {}]),
   Texted({}, [primary |-> {"nsfw", DefaultRule, "client"}, secondary |-> {"pii", "off_topic"}]),
   Texted({}, [primary |-> {"pii"}, secondary |-> {"pii", DefaultRule, "client"}])}

MCSymmetry == Permutations(Threads)
=============================================================================
