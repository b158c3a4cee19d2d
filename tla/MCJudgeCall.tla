---------------------------- MODULE MCJudgeCall ----------------------------
(* JudgeCall for TLC: a model behind a network alone, beside a classifier, *)
(* and beside another model.  The replies are all the short ones, and      *)
(* longer ones of braces and strings behind a word of prose.               *)
EXTENDS JudgeCall

MCTeams == {[primary |-> "openai"],
            [primary |-> "anthropic", secondary |-> "transformers"],
            [primary |-> "llamacpp", secondary |-> "openai"]}
MCReplies ==
  UNION {[1..n -> Tokens] : n \in 0..4} \union
  {<<"word", "open">> \o r : r \in [1..5 -> {"open", "close", "quote", "escape", "false"}]}
=============================================================================
