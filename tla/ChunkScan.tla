----------------------------- MODULE ChunkScan ------------------------------
(***************************************************************************)
(* What sanitize_stream makes of a stream's chunks before it hands them on *)
(* (streaming.py:107-126): the heuristics buffer (RollingBuffer.tla) takes *)
(* the chunk, and the registry (Heuristics.tla) scans what it shows.       *)
(***************************************************************************)
EXTENDS RollingBuffer

CONSTANTS Value, Layouts, CardDigits, Phrases, MinLetters, KeyTail,
          Texts,        \* the streams
          Registries    \* detector -> "matches", "disabled", "regex_error" or "fails"
H == INSTANCE Heuristics

(* Texts are sequences; and no layout of a card number goes on with a      *)
(* separator where another one ends (heuristics.py:139-143), so that a     *)
(* number has one end only.                                                *)
ASSUME ScanAssumption ==
  /\ \A t \in Texts : t \in Seq({t[i] : i \in DOMAIN t})
  /\ \A a, b \in Layouts :
       Len(a) < Len(b) /\ SubSeq(b, 1, Len(a)) = a => b[Len(a) + 1] = "digit"

VARIABLES
  text,       \* what the upstream is about to send
  registry,
  stage       \* "reading" the next chunk, "scanning", "blocked" or "raised"

scanVars == <<seen, chunks, total, trimming, text, registry, stage>>

ScanInit ==
  /\ Init
  /\ text \in Texts /\ registry \in Registries
  /\ stage = "reading"

(* heur_buf.append(chunk) *)
Receive ==
  /\ stage = "reading"
  /\ AppendChunk /\ seen' <= Len(text)
  /\ stage' = "scanning"
  /\ UNCHANGED <<text, registry>>

Trim == (TrimFront \/ TrimEnd) /\ UNCHANGED <<text, registry, stage>>

BlocksAbove(m) == m.score > 85

(* m.score >= 0.85 *)
Blocks(m) == m.score >= 85

(* reg.scan(heur_buf.view()): a blocking hit ends the stream, and so does  *)
(* an exception; else the chunk is handed on.                              *)
ScanChunk ==
  /\ stage = "scanning" /\ ~trimming
  /\ stage' = IF H!ScanRaises(registry) THEN "raised"
              ELSE IF \E m \in H!RegistryScan(registry, H!Piece(text, View)) : Blocks(m)
                   THEN "blocked" ELSE "reading"
  /\ UNCHANGED <<seen, chunks, total, trimming, text, registry>>

ScanNext == Receive \/ Trim \/ ScanChunk

ScanSpec == ScanInit /\ [][ScanNext]_scanVars

-----------------------------------------------------------------------------
(* A number that the Luhn check rejects reaches into m from the left: the  *)
(* separators let a card pattern run from one number into the next.        *)
Bled(m) ==
  \E i \in 0..(m.from - 1) : \E j \in (m.from + 1)..seen :
    LET number == H!Piece(text, [from |-> i, to |-> j])
    IN H!Layout(number) \in Layouts /\ ~H!LuhnValid(number)

(* The first n characters of the stream hold no card number, key or phrase *)
(* that fits the window together with the rest of its chunk.               *)
CleanUpTo(n) ==
  \A d \in H!Detectors : registry[d] = "matches" =>
    \A m \in H!Occurrences(d, SubSeq(text, 1, n)) :
      (m.to - m.from + MaxChunk - 1 <= Window /\ d # "html_injection") =>
        d = "credit_card" /\ Bled(m)

(* What is handed on is clean, wherever chunks and the window's edge cut   *)
(* the stream, and whichever other detectors are off or fail; a card       *)
(* number behind a rejected number is the exception                        *)
(* (heuristics.py:54-69, 87-90, streaming.py:90-126).                      *)
PassedIsClean == stage = "reading" => CleanUpTo(seen)
=============================================================================
