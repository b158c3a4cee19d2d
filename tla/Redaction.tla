------------------------------ MODULE Redaction ------------------------------
(***************************************************************************)
(* Span-based redaction as functions: redaction.py (redact,                *)
(* _dedupe_overlapping, restore), the reversible redaction of              *)
(* local/presidio_backend.py, and the redactor of local/spacy_backend.py,  *)
(* whose entities never overlap.                                           *)
(*                                                                         *)
(* A text is a sequence of tokens, each a character or a placeholder.  A   *)
(* placeholder is the pair of its label (the detector's or the entity's    *)
(* name) and its number, 0 in the labelled style; the tokens are told      *)
(* apart as the bracketed strings are, so a label stands for the name in   *)
(* upper case.  A hit is [label, from, to, score] with a half-open span,   *)
(* counted from 0 as in the code.                                          *)
(***************************************************************************)
EXTENDS Integers, SequencesExt

Placeholder(label, number) == <<label, number>>

(* list.sort: the positions of s in the order of less, a set of pairs of   *)
(* positions; it is stable, so others keep the order of the list.          *)
Ahead(s, less, i) ==
  {j \in DOMAIN s : <<j, i>> \in less \/ (<<i, j>> \notin less /\ j < i)}
StableSort(s, less) ==
  [k \in DOMAIN s |-> s[CHOOSE i \in DOMAIN s : Cardinality(Ahead(s, less, i)) = k - 1]]

SpanLength(m) == m.to - m.from
StartsBefore(m, a) == m.from < a.from

(* The sort key (-score, -length, start). *)
Outranks(m, a) ==
  \/ m.score > a.score
  \/ m.score = a.score /\ SpanLength(m) > SpanLength(a)
  \/ m.score = a.score /\ SpanLength(m) = SpanLength(a) /\ StartsBefore(m, a)

OverlapsFromLeft(m, a) == m.from < a.from /\ a.from < m.to
Overlaps(m, a) == m.from < a.to /\ a.from < m.to

ByRank(s) == StableSort(s, {p \in (DOMAIN s) \X (DOMAIN s) : Outranks(s[p[1]], s[p[2]])})
ByStart(s) == StableSort(s, {p \in (DOMAIN s) \X (DOMAIN s) : StartsBefore(s[p[1]], s[p[2]])})

(* _dedupe_overlapping: the candidates by rank, each accepted unless it    *)
(* overlaps one accepted before; the accepted ones by start.               *)
Accepted(list) ==
  LET accepted[k \in 0..Len(list)] ==
        IF k = 0 THEN <<>>
        ELSE IF \E a \in Range(accepted[k - 1]) : Overlaps(list[k], a) THEN accepted[k - 1]
        ELSE Append(accepted[k - 1], list[k])
  IN accepted[Len(list)]
DedupeOverlapping(hits) == ByStart(Accepted(ByRank(hits)))

(* The overlap filter of _reversible_redact: the first by start wins. *)
NotBehind(list) ==
  LET kept[k \in 0..Len(list)] ==
        IF k = 0 THEN <<>>
        ELSE IF kept[k - 1] # <<>> /\ list[k].from < Last(kept[k - 1]).to THEN kept[k - 1]
        ELSE Append(kept[k - 1], list[k])
  IN kept[Len(list)]
KeepFirst(hits) == NotBehind(ByStart(hits))

Stretch(text, m) == SubSeq(text, m.from + 1, m.to)

SameLabelUncounted(kept, k, range) == 1
SameLabel(kept, k, range) == Cardinality({j \in range : kept[j].label = kept[k].label})

(* The placeholders of the kept hits: redact counts them per detector from *)
(* the left, or does not count them at all, as SpacyNERRedactor does not,  *)
(* and _reversible_redact counts them per entity from the right.           *)
Placeholders(kept, style) ==
  [k \in DOMAIN kept |->
     Placeholder(kept[k].label,
                 CASE style \in {"labeled", "spacy"} -> 0
                   [] style = "numbered" -> SameLabel(kept, k, 1..k)
                   [] style = "presidio" -> SameLabel(kept, k, k..Len(kept)))]

(* The pieces between the kept hits, each followed by the placeholder of   *)
(* the next.  The cursor is the end of the hit before.                     *)
Cursor(kept, k) == IF k = 1 THEN 0 ELSE kept[k - 1].to
Rebuilt(text, kept, tokens) ==
  FlattenSeq([k \in DOMAIN kept |->
                Append(SubSeq(text, Cursor(kept, k) + 1, kept[k].from), tokens[k])])
    \o SubSeq(text, Cursor(kept, Len(kept) + 1) + 1, Len(text))

(* redact in either style, _reversible_redact, and SpacyNERRedactor.redact, *)
(* which returns no mapping.                                               *)
Kept(hits, style) ==
  CASE style = "presidio" -> KeepFirst(hits)
    [] style = "spacy" -> ByStart(hits)
    [] OTHER -> DedupeOverlapping(hits)
Redact(text, hits, style) ==
  LET kept == Kept(hits, style)
      tokens == Placeholders(kept, style)
  IN [text |-> Rebuilt(text, kept, tokens),
      mapping |-> IF style = "spacy" THEN <<>>
                  ELSE [k \in DOMAIN kept |-> <<tokens[k], Stretch(text, kept[k])>>]]

(* restore: one pass over the reply; of two entries for a placeholder the  *)
(* last one is looked up.                                                  *)
Original(mapping, token) ==
  LET at == SelectLastInSeq(mapping, LAMBDA e : e[1] = token)
  IN IF at = 0 THEN <<token>> ELSE mapping[at][2]
Restore(reply, mapping) == FlattenSeq([j \in DOMAIN reply |-> Original(mapping, reply[j])])
=============================================================================
