---------------------------- MODULE RollingBuffer ----------------------------
(***************************************************************************)
(* streaming._RollingBuffer (streaming.py:39-68).  A chunk is the piece of *)
(* the stream it came from: characters from .. to-1.  "total" counts the   *)
(* kept characters the way the code does, in a counter beside the deque,   *)
(* so that the two may drift apart.                                        *)
(***************************************************************************)
EXTENDS Integers, Sequences

CONSTANTS Window,      \* self._window
          MaxChunk,    \* bound: the longest chunk
          MaxText,     \* bound: the length of the stream
          MaxKept      \* bound: chunks in the deque, as empty ones take no room

ASSUME RollingAssumption ==
  /\ Window \in Nat
  /\ MaxChunk \in Nat /\ MaxText \in Nat /\ MaxKept \in Nat

VARIABLES
  seen,       \* characters appended so far
  chunks,     \* self._chunks, oldest first
  total,      \* self._total
  trimming    \* append is in its while loop

vars == <<seen, chunks, total, trimming>>

Init ==
  /\ seen = 0
  /\ chunks = <<>>
  /\ total = 0
  /\ trimming = FALSE

Size(c) == c.to - c.from

(* self._total += len(chunk) *)
Grown(n) == total + n

AppendChunk ==
  /\ ~trimming
  /\ Len(chunks) < MaxKept
  /\ \E n \in 0..MaxChunk :
       /\ seen + n <= MaxText
       /\ chunks' = Append(chunks, [from |-> seen, to |-> seen + n])
       /\ total' = Grown(n)
       /\ seen' = seen + n
  /\ trimming' = TRUE

TrimsByTotal == total > Window

(* The front chunk is fully outside the window. *)
FrontOutside == total - Size(Head(chunks)) >= Window

TrimFront ==
  /\ trimming
  /\ chunks # <<>>
  /\ FrontOutside
  /\ total' = total - Size(Head(chunks))
  /\ chunks' = Tail(chunks)
  /\ UNCHANGED <<seen, trimming>>

TrimEnd ==
  /\ trimming
  /\ chunks # <<>> => ~FrontOutside
  /\ trimming' = FALSE
  /\ UNCHANGED <<seen, chunks, total>>

Next == AppendChunk \/ TrimFront \/ TrimEnd

Spec == Init /\ [][Next]_vars

(* view(): the joined chunks, or their last Window characters, as a piece  *)
(* of the stream.  A single chunk is measured by self._total.              *)
Joined == IF chunks = <<>> THEN [from |-> seen, to |-> seen]
          ELSE [from |-> Head(chunks).from, to |-> chunks[Len(chunks)].to]
Measure == IF Len(chunks) = 1 THEN total ELSE Size(Joined)
View == IF Measure > Window THEN [from |-> Joined.to - Window, to |-> Joined.to] ELSE Joined

-----------------------------------------------------------------------------
Piece == [from : Nat, to : Nat]

TypeOK ==
  /\ seen \in Nat
  /\ chunks \in Seq(Piece)
  /\ total \in 0..seen
  /\ trimming \in BOOLEAN

(* "Keeps the most recent window characters available" (streaming.py:42):   *)
(* whatever the sizes of the chunks, empty and oversized ones included,     *)
(* view() is exactly the end of the stream.                                *)
Recent == [from |-> IF seen > Window THEN seen - Window ELSE 0, to |-> seen]
ViewIsRecent == ~trimming => View = Recent

(* "Bounded": beside the window, less than one chunk is kept.              *)
BufferBounded == ~trimming =>
  (chunks # <<>> => seen - Head(chunks).from < Window + MaxChunk)
=============================================================================
