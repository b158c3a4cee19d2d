---------------------------- MODULE MCChunkScan -----------------------------
(* ChunkScan for TLC: card numbers of two digits, in one run or in two     *)
(* groups, phrases that overlap and contain each other, key markers, and   *)
(* letters of two scripts; every chunking of streams of up to six tokens.  *)
EXTENDS ChunkScan

MCValue == [one |-> 1, eight |-> 8]
MCLayouts == {<<"digit", "digit">>, <<"digit", "separator", "digit">>}
MCCardDigits == 2..2
MCPhrases == {<<"latin", "cyrillic", "latin">>, <<"latin", "cyrillic">>, <<"cyrillic", "cyrillic", "latin">>}
MCTexts == [1..6 -> {"one", "eight", "space"}]
           \union [1..6 -> {"latin", "cyrillic", "dash"}]
           \union [1..4 -> {"eight", "dash", "begin", "end", "script"}]

Working == [d \in H!Detectors |-> "matches"]
MCRegistries ==
  {Working, [Working EXCEPT !["injection_phrase"] = "disabled", !["homoglyphs"] = "regex_error"],
   [Working EXCEPT !["homoglyphs"] = "fails"]}
=============================================================================
