------------------------------- MODULE Replies -------------------------------
(***************************************************************************)
(* From a model's reply to a judgement: _json.parse_json_object, and what  *)
(* the backends make of the object (openai_backend.py, anthropic_backend.py, *)
(* local/llamacpp_backend.py, local/ollama_backend.py).                    *)
(*                                                                         *)
(* A reply is a sequence of tokens.  Of JSON's syntax the braces, the      *)
(* quotes, the backslash and the value of a member "pass" are kept:        *)
(* "true", "false", and "other" for a value that is neither but true to    *)
(* bool(), such as the string "false".  Keys, commas and the other members *)
(* are left out, and "word" is a word of prose or of a string.             *)
(***************************************************************************)
EXTENDS Integers, SequencesExt

PassValues == {"true", "false", "other"}
Tokens == PassValues \union {"open", "close", "quote", "escape", "word"}
Unreadable == <<>>        \* JSONParseError

(* json.loads: an object is a pair of braces around members, a member is a *)
(* pass value, a string or another object.                                 *)
IsBody[b \in Seq(Tokens)] ==
  \/ b = <<>>
  \/ Len(b) > 1 /\ Head(b) = "escape" /\ IsBody[SubSeq(b, 3, Len(b))]
  \/ b # <<>> /\ Head(b) \notin {"escape", "quote"} /\ IsBody[Tail(b)]
IsString(t) ==
  Len(t) > 1 /\ Head(t) = "quote" /\ Last(t) = "quote" /\ IsBody[SubSeq(t, 2, Len(t) - 1)]

AreMembers[ms \in Seq(Tokens)] ==
  \/ ms = <<>>
  \/ \E n \in 1..Len(ms) :
       LET m == SubSeq(ms, 1, n)
       IN /\ \/ n = 1 /\ m[1] \in PassValues
             \/ IsString(m)
             \/ n > 1 /\ m[1] = "open" /\ m[n] = "close" /\ AreMembers[SubSeq(m, 2, n - 1)]
          /\ AreMembers[SubSeq(ms, n + 1, Len(ms))]

IsObject(t) ==
  Len(t) > 1 /\ Head(t) = "open" /\ Last(t) = "close" /\ AreMembers[SubSeq(t, 2, Len(t) - 1)]
IsJson(t) == IsObject(t) \/ IsString(t) \/ (Len(t) = 1 /\ t[1] \in PassValues)

(* data.get("pass"): the last member of that name, at the object's own level. *)
PassMember(object) ==
  LET at == {i \in 2..Len(object) :
               object[i] \in PassValues /\ AreMembers[SubSeq(object, 2, i - 1)]}
  IN IF at = {} THEN "none" ELSE object[CHOOSE i \in at : \A j \in at : j <= i]

-----------------------------------------------------------------------------
(* One turn of the loop of _extract_balanced, over the character at i.     *)
BlindToStrings(s, c, i) ==
  IF s.end > 0 THEN s
  ELSE CASE c = "open"  -> [s EXCEPT !.depth = @ + 1]
         [] c = "close" -> [s EXCEPT !.depth = @ - 1, !.end = IF s.depth = 1 THEN i ELSE 0]
         [] OTHER       -> s
Scan(s, c, i) ==
  IF s.end > 0 THEN s
  ELSE IF s.escape THEN [s EXCEPT !.escape = FALSE]
  ELSE CASE c = "escape" -> [s EXCEPT !.escape = TRUE]
         [] c = "quote"  -> [s EXCEPT !.inString = ~@]
         [] c = "open" /\ ~s.inString  -> [s EXCEPT !.depth = @ + 1]
         [] c = "close" /\ ~s.inString ->
              [s EXCEPT !.depth = @ - 1, !.end = IF s.depth = 1 THEN i ELSE 0]
         [] OTHER -> s

(* _extract_balanced: from the first brace up to the one that balances it. *)
Fresh == [depth |-> 0, inString |-> FALSE, escape |-> FALSE, end |-> 0]
ExtractBalanced(text) ==
  LET start == SelectInSeq(text, LAMBDA c : c = "open")
      scanned[i \in 0..Len(text)] ==
        IF i = 0 THEN Fresh
        ELSE IF i < start THEN scanned[i - 1] ELSE Scan(scanned[i - 1], text[i], i)
      end == scanned[Len(text)].end
      snippet == SubSeq(text, start, end)
  IN IF start > 0 /\ end > 0 /\ IsJson(snippet) THEN snippet ELSE Unreadable

(* parse_json_object: what is JSON as it stands is not searched. *)
ParseJsonObject(text) ==
  LET value == IF text # <<>> /\ IsJson(text) THEN text ELSE ExtractBalanced(text)
  IN IF IsObject(value) THEN value ELSE Unreadable

(* passed = bool(data.get("pass", False)) *)
PassesUnlessRefused(object) == PassMember(object) # "false"
Passed(object) == PassMember(object) \in {"true", "other"}

(* judge, behind the call of the model.  Anthropic's answer continues the  *)
(* brace it was prefilled with.                                            *)
Prefilled(backend, reply) == IF backend = "anthropic" THEN <<"open">> \o reply ELSE reply
Judged(backend, reply) ==
  LET object == ParseJsonObject(Prefilled(backend, reply))
  IN IF object = Unreadable THEN "malformed"
     ELSE IF Passed(object) THEN "pass" ELSE "fail"

-----------------------------------------------------------------------------
(* The same by JSON's grammar, without a scan: the object that begins at   *)
(* the reply's first brace decides, if there is one.                       *)
Meant(backend, reply) ==
  LET text == Prefilled(backend, reply)
      First == {i \in DOMAIN text : text[i] = "open" /\ \A k \in 1..(i - 1) : text[k] # "open"}
      Objects == {o \in {SubSeq(text, i, j) : i \in First, j \in DOMAIN text} : IsObject(o)}
  IN IF Objects = {} \/ IsString(text) THEN {"malformed"}
     ELSE {IF PassMember(o) \in {"true", "other"} THEN "pass" ELSE "fail" : o \in Objects}
=============================================================================
