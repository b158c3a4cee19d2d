---------------------------- MODULE MCRedisCache ----------------------------
(* Both caches for TLC: one key more than the table has room for, results  *)
(* with and without categories, and a payload with an unknown one.         *)
EXTENDS RedisCache

MCCategories == {"pii", "secrets"}
MCPassed == [category |-> NoCategory, rest |-> "passed", matches |-> <<>>,
             verdicts |-> <<[category |-> NoCategory, rest |-> "heuristics"]>>]
MCFailed == [category |-> Member("pii"), rest |-> "failed",
             matches |-> <<[category |-> Member("secrets"), rest |-> "key"]>>,
             verdicts |-> <<[category |-> Member("pii"), rest |-> "auditor"]>>]
MCValues == {MCPassed, MCFailed}
MCForeign == {[category |-> "toxicity", rest |-> "failed", matches |-> <<>>, verdicts |-> <<>>],
              [category |-> "null", rest |-> "passed", verdicts |-> <<>>,
               matches |-> <<[category |-> "toxicity", rest |-> "key"]>>]}
=============================================================================
