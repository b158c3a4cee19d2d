----------------------------- MODULE MCRoundTrip -----------------------------
(* RoundTrip for TLC: texts of four characters.  One request may meet any  *)
(* list of up to three of five hits, which overlap, touch, nest, share a    *)
(* span and rank alike, in each style; the other has two hits of a label.  *)
EXTENDS RoundTrip

CONSTANTS r1, r2

Hit(label, from, to, score) == [label |-> label, from |-> from, to |-> to, score |-> score]

MCMenu == {Hit("ssn", 0, 2, 1), Hit("name", 0, 2, 1), Hit("name", 1, 3, 2),
           Hit("ssn", 3, 4, 1), Hit("name", 0, 4, 1)}
MCLists ==
  UNION {{hits \in [1..n -> MCMenu] : \A i, j \in 1..n : hits[i] = hits[j] => i = j} : n \in 0..3}
MCScans ==
  [r \in Requests |->
     IF r = r1
     THEN [hits : MCLists, style : {"numbered", "labeled", "presidio"}] \union
          [hits : {hits \in MCLists :
                     \A i, j \in DOMAIN hits : i # j => ~Overlaps(hits[i], hits[j])},
           style : {"spacy"}]
     ELSE [hits : {<<Hit("ssn", 0, 1, 1), Hit("ssn", 2, 4, 1)>>}, style : {"numbered"}]]
=============================================================================
