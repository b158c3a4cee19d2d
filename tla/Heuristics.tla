----------------------------- MODULE Heuristics -----------------------------
(***************************************************************************)
(* heuristics.py: from a text to the hits of the detectors.  A text is a   *)
(* sequence of tokens, a character or a word each.  One detector stands    *)
(* for each way they work: a pattern with boundaries and a validator       *)
(* (credit_card), an alternation of phrases (injection_phrase), a marker   *)
(* whose hit reaches to another one (ssh_private_key), a pattern of low    *)
(* score (html_injection) and a density (homoglyphs).                      *)
(***************************************************************************)
EXTENDS Integers, SequencesExt

CONSTANTS
  Value,        \* the digits among the tokens, and their values
  Layouts,      \* of a card number: sequences of "digit" and "separator"
  CardDigits,   \* how many digits the Luhn check admits, 13..19
  Phrases,      \* the injection phrases
  MinLetters,   \* below which densities are not judged, 16
  KeyTail       \* tokens of a key's hit from its END marker on, 80 characters

Detectors == {"credit_card", "injection_phrase", "ssh_private_key", "html_injection", "homoglyphs"}
Digits == DOMAIN Value
Separators == {"space", "dash"}
Letters == {"latin", "cyrillic"}

Piece(text, m) == SubSeq(text, m.from + 1, m.to)

(* (?<![\d\-]) and (?![\d\-]) *)
Delimited(text, m) ==
  /\ m.from > 0 => text[m.from] \notin Digits \union {"dash"}
  /\ m.to < Len(text) => text[m.to + 1] \notin Digits \union {"dash"}

Layout(t) == [i \in DOMAIN t |-> IF t[i] \in Digits THEN "digit"
                                ELSE IF t[i] \in Separators THEN "separator" ELSE "other"]

(* The detector's pattern matches the text at m. *)
Fits(d, text, m) ==
  CASE d = "credit_card"      -> Layout(Piece(text, m)) \in Layouts /\ Delimited(text, m)
    [] d = "injection_phrase" -> Piece(text, m) \in Phrases
    [] d = "ssh_private_key"  -> Piece(text, m) = <<"begin">>
    [] d = "html_injection"   -> Piece(text, m) = <<"script">>
    [] d = "homoglyphs"       -> FALSE

(* pattern.finditer: from the left, without overlaps, the longest phrase   *)
(* first; past is where the search goes on after the places before i.      *)
Ends(d, text, i) == {j \in (i + 1)..Len(text) : Fits(d, text, [from |-> i, to |-> j])}
Longest(d, text, i) == CHOOSE j \in Ends(d, text, i) : \A k \in Ends(d, text, i) : k <= j
FoundAt(d, text, i, past) == Ends(d, text, i) # {} /\ past <= i
GoOn(d, text, i, past) == IF FoundAt(d, text, i, past) THEN Longest(d, text, i) ELSE past
FindIter(d, text) ==
  LET past[i \in 0..Len(text)] == IF i = 0 THEN 0 ELSE GoOn(d, text, i - 1, past[i - 1])
  IN {[from |-> i, to |-> Longest(d, text, i)] :
        i \in {k \in 0..Len(text) : FoundAt(d, text, k, past[k])}}

LuhnValid(t) ==
  LET digits == SelectSeq(t, LAMBDA c : c \in Digits)
      parity == Len(digits) % 2
      Weight(i) == LET v == Value[digits[i]]
                   IN IF (i - 1) % 2 # parity THEN v ELSE IF 2 * v > 9 THEN 2 * v - 9 ELSE 2 * v
  IN /\ Len(digits) \in CardDigits
     /\ FoldLeftDomain(LAMBDA sum, i : sum + Weight(i), 0, digits) % 10 = 0

(* _matches_from_pattern's validator *)
Valid(d, t) == d = "credit_card" => LuhnValid(t)

(* The hit of a key begins with its marker, and reaches past the next END, *)
(* or to the end of the text.                                              *)
KeySpan(text, m) ==
  LET ends == {i \in (m.to + 1)..Len(text) : text[i] = "end"}
  IN [from |-> m.from,
      to |-> IF ends = {} THEN Len(text) ELSE (CHOOSE i \in ends : \A k \in ends : i <= k) - 1 + KeyTail]

(* Letters of another script, and whether they are at least 15% of all.    *)
AllLetters(text) == SelectSeq(text, LAMBDA c : c \in Letters)
Suspicious(text) == Len(SelectSeq(text, LAMBDA c : c = "cyrillic"))
Dense(text) ==
  /\ Len(AllLetters(text)) >= MinLetters
  /\ 100 * Suspicious(text) >= 15 * Len(AllLetters(text))

(* The scores of the matches, in hundredths. *)
Score(d, text) ==
  CASE d \in {"credit_card", "ssh_private_key"} -> 100
    [] d = "injection_phrase" -> 85
    [] d = "html_injection" -> 70
    [] d = "homoglyphs" -> (300 * Suspicious(text)) \div Len(AllLetters(text))

Spans(d, text) ==
  IF d = "homoglyphs" THEN IF Dense(text) THEN {[from |-> 0, to |-> Len(text)]} ELSE {}
  ELSE LET valid == {m \in FindIter(d, text) : Valid(d, Piece(text, m))}
       IN IF d = "ssh_private_key" THEN {KeySpan(text, m) : m \in valid} ELSE valid

(* Detector.enabled, and what fn does: match, or raise re.error or another *)
(* exception.                                                              *)
Enabled(registry) == {d \in Detectors : registry[d] # "disabled"}
GivesUpAtRegexError(registry) ==
  IF \E d \in Detectors : registry[d] = "regex_error" THEN {} ELSE Enabled(registry)

(* DetectorRegistry.scan goes on after a re.error, and raises all else.    *)
Heard(registry) == {d \in Enabled(registry) : registry[d] # "regex_error"}
ScanRaises(registry) == \E d \in Enabled(registry) : registry[d] = "fails"
RegistryScan(registry, text) ==
  UNION {{[detector |-> d, from |-> m.from, to |-> m.to, score |-> Score(d, text)] :
            m \in Spans(d, text)} : d \in Heard(registry)}

-----------------------------------------------------------------------------
(* Without an order of search: the places where a detector's pattern holds *)
(* and its validator agrees.                                               *)
Occurrences(d, text) ==
  {m \in [from : 0..Len(text), to : 0..Len(text)] :
     m.from < m.to /\ Fits(d, text, m) /\ Valid(d, Piece(text, m))}
=============================================================================
