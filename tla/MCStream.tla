------------------------------ MODULE MCStream ------------------------------
(* Stream for TLC: passages inside one chunk, across chunks, one that      *)
(* fits the heuristics window only just, one that is too long for it, and  *)
(* one this stream never reaches.                                          *)
EXTENDS Stream

MCPassages == {[from |-> 1, to |-> 2], [from |-> 1, to |-> 4], [from |-> 3, to |-> 6],
               [from |-> 0, to |-> 5], [from |-> 8, to |-> 9]}
=============================================================================
