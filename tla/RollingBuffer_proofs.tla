------------------------ MODULE RollingBuffer_proofs ------------------------
(***************************************************************************)
(* Proofs about RollingBuffer, and about the one that ChunkScan scans, for *)
(* every window and chunk size, empty and oversized chunks included; and   *)
(* about the search of Heuristics, for texts of any length.                *)
(***************************************************************************)
EXTENDS ChunkScan, FiniteSetTheorems, SequenceTheorems, TLAPS

(* The counter is the length of what the deque holds. *)
Counted ==
  /\ chunks = <<>> => total = 0
  /\ chunks # <<>> => total = seen - chunks[1].from

(* The deque holds consecutive pieces up to the end of the stream. *)
Consecutive ==
  /\ \A i \in 1..Len(chunks) : /\ chunks[i].from <= chunks[i].to
                               /\ chunks[i].to - chunks[i].from <= MaxChunk
                               /\ chunks[i].to <= seen
  /\ \A i \in 1..Len(chunks) - 1 : chunks[i].to = chunks[i + 1].from
  /\ chunks # <<>> => chunks[Len(chunks)].to = seen

(* Nothing of the window was ever discarded. *)
Covering ==
  \/ chunks = <<>> /\ (seen = 0 \/ Window = 0)
  \/ chunks # <<>> /\ (chunks[1].from = 0 \/ seen - chunks[1].from >= Window)

IInv ==
  /\ TypeOK /\ Counted /\ Consecutive /\ Covering
  /\ ~trimming => (chunks # <<>> => ~FrontOutside)

LEMMA InitIInv == Init => IInv
<1> SUFFICES ASSUME Init PROVE IInv
  OBVIOUS
<1>1. chunks = <<>> /\ Len(chunks) = 0 /\ chunks \in Seq(Piece)
  BY DEF Init
<1>0. seen = 0 /\ total = 0 /\ trimming \in BOOLEAN
  BY DEF Init
<1>2. TypeOK
  <2>1. seen \in Nat
    BY <1>0
  <2>2. total \in 0..seen
    BY <1>0
  <2> QED BY <1>0, <1>1, <2>1, <2>2 DEF TypeOK
<1>4. Counted /\ Covering
  BY <1>1 DEF Init, Counted, Covering
<1>3. Consecutive
  BY <1>1 DEF Consecutive
<1> QED BY <1>1, <1>2, <1>3, <1>4 DEF IInv

LEMMA AppendKeeps == ASSUME IInv, AppendChunk PROVE IInv'
<1> USE RollingAssumption
<1>1. PICK n \in 0..MaxChunk :
        /\ chunks' = Append(chunks, [from |-> seen, to |-> seen + n])
        /\ total' = total + n
        /\ seen' = seen + n
  BY DEF AppendChunk, Grown
<1>2. trimming' = TRUE
  BY DEF AppendChunk
<1> DEFINE c == [from |-> seen, to |-> seen + n]
<1>3. c \in Piece /\ c.from = seen /\ c.to = seen + n
  BY DEF IInv, TypeOK, Piece
<1>4. chunks' = Append(chunks, c) /\ chunks \in Seq(Piece)
  BY <1>1 DEF IInv, TypeOK
<1> HIDE DEF c
<1>5. /\ chunks' \in Seq(Piece) /\ Len(chunks') = Len(chunks) + 1 /\ chunks' # <<>>
      /\ chunks'[Len(chunks) + 1] = c
      /\ \A i \in 1..Len(chunks) : chunks'[i] = chunks[i]
  BY <1>3, <1>4
<1>6. TypeOK'
  BY <1>1, <1>2, <1>5 DEF IInv, TypeOK
<1>7. Counted'
  <2>1. CASE chunks = <<>>
    BY <1>1, <1>3, <1>5, <2>1 DEF IInv, TypeOK, Counted
  <2>2. CASE chunks # <<>>
    <3>1. chunks'[1] = chunks[1]
      BY <1>4, <1>5, <2>2
    <3>2. chunks[1] \in Piece
      BY <1>4, <2>2
    <3>3. total = seen - chunks[1].from /\ seen \in Nat
      BY <2>2 DEF IInv, TypeOK, Counted
    <3>4. chunks[1].from \in Nat
      BY <3>2 DEF Piece
    <3>5. total + n = (seen + n) - chunks[1].from
      BY <3>3, <3>4
    <3>6. total' = seen' - chunks'[1].from
      BY <1>1, <3>1, <3>5
    <3> QED BY <1>5, <3>6 DEF Counted
  <2> QED BY <2>1, <2>2
<1>8. Consecutive'
  <2>1. \A i \in 1..Len(chunks') : /\ chunks'[i].from <= chunks'[i].to
                                   /\ chunks'[i].to - chunks'[i].from <= MaxChunk
                                   /\ chunks'[i].to <= seen'
    <3> TAKE i \in 1..Len(chunks')
    <3>1. CASE i \in 1..Len(chunks)
      <4>1. chunks[i] \in Piece /\ chunks'[i] = chunks[i]
        BY <1>4, <1>5, <3>1
      <4> QED BY <1>1, <3>1, <4>1 DEF IInv, TypeOK, Consecutive, Piece
    <3>2. CASE i = Len(chunks) + 1
      BY <1>1, <1>3, <1>5, <3>2 DEF IInv, TypeOK
    <3> QED BY <1>4, <1>5, <3>1, <3>2
  <2>2. \A i \in 1..Len(chunks') - 1 : chunks'[i].to = chunks'[i + 1].from
    <3> TAKE i \in 1..Len(chunks') - 1
    <3>1. CASE i < Len(chunks)
      BY <1>4, <1>5, <3>1 DEF IInv, Consecutive
    <3>2. CASE i = Len(chunks)
      BY <1>3, <1>4, <1>5, <3>2 DEF IInv, Consecutive
    <3> QED BY <1>4, <1>5, <3>1, <3>2
  <2>3. chunks'[Len(chunks')].to = seen'
    BY <1>1, <1>3, <1>5
  <2> QED BY <2>1, <2>2, <2>3 DEF Consecutive
<1>9. Covering'
  <2>1. CASE chunks = <<>>
    BY <1>1, <1>3, <1>4, <1>5, <2>1 DEF IInv, TypeOK, Covering
  <2>2. CASE chunks # <<>>
    <3>1. chunks'[1] = chunks[1] /\ chunks[1] \in Piece
      BY <1>4, <1>5, <2>2
    <3> QED BY <1>1, <1>5, <2>2, <3>1 DEF IInv, TypeOK, Covering, Piece
  <2> QED BY <2>1, <2>2
<1> QED BY <1>2, <1>6, <1>7, <1>8, <1>9 DEF IInv

LEMMA TrimKeeps == ASSUME IInv, TrimFront PROVE IInv'
<1> USE RollingAssumption
<1>1. chunks # <<>> /\ trimming /\ trimming' = trimming /\ seen' = seen
      /\ chunks' = Tail(chunks) /\ total' = total - Size(Head(chunks))
      /\ FrontOutside
  BY DEF TrimFront
<1>2. chunks \in Seq(Piece) /\ Head(chunks) = chunks[1] /\ chunks[1] \in Piece
  BY <1>1 DEF IInv, TypeOK
<1>3. /\ chunks' \in Seq(Piece) /\ Len(chunks') = Len(chunks) - 1
      /\ \A i \in 1..Len(chunks') : chunks'[i] = chunks[i + 1]
  BY <1>1, <1>2
<1>4. /\ total = seen - chunks[1].from /\ chunks[1].from <= chunks[1].to
      /\ chunks[1].to <= seen
      /\ total - (chunks[1].to - chunks[1].from) >= Window
  BY <1>1, <1>2 DEF IInv, Counted, Consecutive, FrontOutside, Size
<1>5. total' = seen - chunks[1].to
  BY <1>1, <1>2, <1>4 DEF Size, Piece, IInv, TypeOK
<1>6. TypeOK'
  BY <1>1, <1>2, <1>3, <1>4, <1>5 DEF IInv, TypeOK, Piece
<1>7. Consecutive'
  <2>1. \A i \in 1..Len(chunks') : /\ chunks'[i].from <= chunks'[i].to
                                   /\ chunks'[i].to - chunks'[i].from <= MaxChunk
                                   /\ chunks'[i].to <= seen'
    BY <1>1, <1>2, <1>3 DEF IInv, Consecutive
  <2>2. \A i \in 1..Len(chunks') - 1 : chunks'[i].to = chunks'[i + 1].from
    BY <1>2, <1>3 DEF IInv, Consecutive
  <2>3. chunks' # <<>> => chunks'[Len(chunks')].to = seen'
    BY <1>1, <1>2, <1>3 DEF IInv, Consecutive
  <2> QED BY <2>1, <2>2, <2>3 DEF Consecutive
<1>8. CASE Len(chunks) = 1
  <2>1. chunks' = <<>>
    BY <1>3, <1>8
  <2>2. chunks[1].to = seen
    BY <1>1, <1>8 DEF IInv, Consecutive
  <2>3. total' = 0 /\ Window = 0
    BY <1>2, <1>4, <1>5, <2>2 DEF IInv, TypeOK, Piece
  <2>4. Counted' /\ Covering'
    BY <2>1, <2>3 DEF Counted, Covering
  <2> QED BY <1>1, <1>6, <1>7, <2>4 DEF IInv
<1>9. CASE Len(chunks) # 1
  <2>0. Len(chunks) \in Nat \ {0}
    BY <1>1, <1>2
  <2>1. Len(chunks') >= 1 /\ chunks'[1] = chunks[2] /\ chunks' # <<>>
    BY <1>3, <1>9, <2>0
  <2>2. chunks[2].from = chunks[1].to
    BY <1>2, <1>3, <2>1 DEF IInv, Consecutive
  <2>3. Counted'
    BY <1>1, <1>5, <2>1, <2>2 DEF Counted
  <2>4. Covering'
    <3>1. seen - chunks[1].to >= Window
      <4> HIDE DEF Piece
      <4>1. chunks[1].from \in Nat /\ chunks[1].to \in Nat /\ seen \in Nat
        BY <1>2 DEF Piece, IInv, TypeOK
      <4> QED BY <1>4, <4>1
    <3> QED BY <1>1, <2>1, <2>2, <3>1 DEF Covering
  <2> QED BY <1>1, <1>6, <1>7, <2>3, <2>4 DEF IInv
<1> QED BY <1>8, <1>9

THEOREM Invariance == Spec => []IInv
<1>1. IInv /\ [Next]_vars => IInv'
  <2> SUFFICES ASSUME IInv, [Next]_vars PROVE IInv'
    OBVIOUS
  <2>1. ASSUME UNCHANGED <<seen, chunks, total>>, trimming' \in BOOLEAN,
               ~trimming' => (chunks # <<>> => ~FrontOutside)
        PROVE  IInv'
    <3>1. TypeOK'
      BY <2>1 DEF IInv, TypeOK
    <3>2. Counted' /\ Consecutive' /\ Covering'
      BY <2>1 DEF IInv, Counted, Consecutive, Covering
    <3>3. FrontOutside' <=> FrontOutside
      BY <2>1 DEF FrontOutside, Size
    <3> QED BY <2>1, <3>1, <3>2, <3>3 DEF IInv
  <2>2. CASE TrimEnd
    BY <2>1, <2>2 DEF TrimEnd
  <2>3. CASE UNCHANGED vars
    BY <2>1, <2>3 DEF vars, IInv, TypeOK
  <2> QED BY <2>2, <2>3, AppendKeeps, TrimKeeps DEF Next
<1> QED BY <1>1, InitIInv, PTL DEF Spec

-----------------------------------------------------------------------------
(* The counter never exceeds the stream, and the deque holds pieces of it. *)
THEOREM TypeCorrect == Spec => []TypeOK
BY Invariance, PTL DEF IInv

(* view() is exactly the end of the stream, whatever the chunks were: every *)
(* audit and every heuristic scan of a stream sees the last characters     *)
(* (streaming.py:59-63).                                                   *)
THEOREM ViewIsExact == Spec => []ViewIsRecent
<1>1. ASSUME IInv PROVE View = Recent
  <2> USE RollingAssumption
  <2>1. CASE chunks = <<>>
    BY <1>1, <2>1 DEF IInv, TypeOK, Covering, View, Recent, Measure, Joined, Size
  <2>2. CASE chunks # <<>>
    <3>1. /\ Len(chunks) \in Nat \ {0} /\ Head(chunks) = chunks[1]
          /\ chunks[1] \in Piece /\ chunks[Len(chunks)] \in Piece
      BY <1>1, <2>2 DEF IInv, TypeOK
    <3>2. Joined = [from |-> chunks[1].from, to |-> seen]
      BY <1>1, <2>2, <3>1 DEF IInv, Consecutive, Joined
    <3>3. Measure = seen - chunks[1].from
      BY <1>1, <2>2, <3>1, <3>2 DEF IInv, Counted, Measure, Size
    <3>4. chunks[1].from \in Nat /\ chunks[1].from <= seen /\ seen \in Nat
      BY <1>1, <3>1 DEF IInv, Consecutive, Piece, TypeOK
    <3>5. chunks[1].from = 0 \/ seen - chunks[1].from >= Window
      BY <1>1, <2>2 DEF IInv, Covering
    <3> QED BY <3>2, <3>3, <3>4, <3>5 DEF View, Recent
  <2> QED BY <2>1, <2>2
<1>2. IInv => ViewIsRecent
  BY <1>1 DEF ViewIsRecent
<1> QED BY <1>2, Invariance, PTL

(* Beside the window less than one chunk is kept. *)
THEOREM BufferIsBounded == Spec => []BufferBounded
<1>1. ASSUME IInv, ~trimming, chunks # <<>>
      PROVE  seen - Head(chunks).from < Window + MaxChunk
  <2> USE RollingAssumption
  <2>1. Head(chunks) = chunks[1] /\ chunks[1] \in Piece /\ Len(chunks) >= 1
    BY <1>1 DEF IInv, TypeOK
  <2>2. total = seen - chunks[1].from /\ total - (chunks[1].to - chunks[1].from) < Window
    BY <1>1, <2>1 DEF IInv, TypeOK, Counted, FrontOutside, Size, Piece
  <2>3. chunks[1].to - chunks[1].from <= MaxChunk
    BY <1>1, <2>1 DEF IInv, Consecutive
  <2>4. chunks[1].from \in Int /\ chunks[1].to \in Int /\ seen \in Int /\ total \in Int
    BY <1>1, <2>1, <2>2 DEF Piece, IInv, TypeOK
  <2>5. Window \in Int /\ MaxChunk \in Int
    OBVIOUS
  <2> QED BY <2>1, <2>2, <2>3, <2>4, <2>5
<1>2. IInv => BufferBounded
  BY <1>1 DEF BufferBounded
<1> QED BY <1>2, Invariance, PTL

-----------------------------------------------------------------------------
(* ChunkScan: the buffer it scans is a RollingBuffer.                      *)

THEOREM ScansTheBuffer == ScanSpec => Spec
<1>1. ScanInit => Init
  BY DEF ScanInit
<1>2. [ScanNext]_scanVars => [Next]_vars
  BY DEF ScanNext, Receive, Trim, ScanChunk, Next, scanVars, vars
<1> QED BY <1>1, <1>2, PTL DEF ScanSpec, Spec

(* Whatever the detectors find or raise, what they are shown is the end of *)
(* the stream (streaming.py:107-113).                                      *)
THEOREM ScannedIsRecent == ScanSpec => []ViewIsRecent
BY ScansTheBuffer, ViewIsExact, PTL

-----------------------------------------------------------------------------
(* The search of Heuristics is a recursion over the places of a text: what *)
(* is proved of it needs induction, here for sets of naturals.             *)

(* A set of naturals has a least member: the intervals below its members   *)
(* are finite sets, of which one is minimal.                               *)
LEMMA Least ==
  ASSUME NEW T, T \subseteq Nat, T # {}
  PROVE  \E m \in T : \A n \in T : m <= n
<1> DEFINE R == StrictSubsetOrdering(Nat)
           F == {0..n : n \in T}
<1>1. F \subseteq FiniteSubsetsOf(Nat) /\ F # {}
  <2>1. \A n \in Nat : IsFiniteSet(0..n) /\ 0..n \subseteq Nat
    BY FS_Interval
  <2> QED
    BY <2>1 DEF FiniteSubsetsOf
<1>2. \E x \in F : \A y \in F : ~ (<<y, x>> \in R)
  <2> HIDE DEF R, F
  <2>1. IsWellFoundedOn(R, FiniteSubsetsOf(Nat))
    BY FS_StrictSubsetOrderingWellFounded DEF R
  <2> QED BY <1>1, <2>1, WFMin
<1>3. PICK m \in T : \A n \in T : <<0..n, 0..m>> \notin R
  BY <1>2
<1>4. ASSUME NEW n \in T, n < m PROVE FALSE
  <2>1. 0..n \subseteq Nat /\ 0..m \subseteq Nat /\ 0..n \subseteq 0..m
    BY <1>4
  <2>2. m \in 0..m /\ m \notin 0..n
    BY <1>4
  <2> QED
    BY <1>3, <2>1, <2>2 DEF StrictSubsetOrdering
<1> QED
  BY <1>3, <1>4

(* A set with 0 that is closed under successor has all naturals.           *)
LEMMA NatSteps ==
  ASSUME NEW S, 0 \in S, \A n \in Nat : n \in S => n + 1 \in S
  PROVE  Nat \subseteq S
<1> SUFFICES ASSUME Nat \ S # {} PROVE FALSE
  OBVIOUS
<1>1. PICK m \in Nat \ S : \A n \in Nat \ S : m <= n
  BY Least
<1>2. m # 0 /\ m - 1 \in Nat /\ m - 1 \notin Nat \ S
  BY <1>1
<1>3. (m - 1) + 1 = m
  BY <1>1
<1> QED BY <1>1, <1>2, <1>3

(* A recursion over 1..n whose step is a function has a solution.          *)
IsStep(step, n, D) == step \in [(1..n) \X D -> D]
Iterate(f, D, d, n, step) ==
  f \in [0..n -> D] /\ f[0] = d /\ \A k \in 1..n : f[k] = step[<<k, f[k - 1]>>]

(* From a step that is a function a recursion over 1..n can be built.      *)
LEMMA Iterates ==
  ASSUME NEW D, NEW d \in D, NEW n \in Nat, NEW step, IsStep(step, n, D)
  PROVE  \E f : Iterate(f, D, d, n, step)
<1> USE DEF IsStep
<1> DEFINE Solves(f, m) == f[0] = d /\ \A k \in 1..m : f[k] = step[<<k, f[k - 1]>>]
           S == {m \in Nat : m <= n => \E f \in [0..m -> D] : Solves(f, m)}
<1>1. 0 \in S
  <2> DEFINE f == [k \in 0..0 |-> d]
  <2>1. f \in [0..0 -> D] /\ Solves(f, 0)
    OBVIOUS
  <2> QED BY <2>1
<1>2. ASSUME NEW m \in Nat, m \in S PROVE m + 1 \in S
  <2> SUFFICES ASSUME m + 1 <= n PROVE \E f \in [0..(m + 1) -> D] : Solves(f, m + 1)
    OBVIOUS
  <2>1. PICK f \in [0..m -> D] : Solves(f, m)
    BY <1>2
  <2> DEFINE e == step[<<m + 1, f[m]>>]
             g == [k \in 0..(m + 1) |-> IF k = m + 1 THEN e ELSE f[k]]
  <2>2. e \in D
    OBVIOUS
  <2>3. g \in [0..(m + 1) -> D]
    <3> HIDE DEF e
    <3>1. \A k \in 0..(m + 1) : k # m + 1 => k \in 0..m
      OBVIOUS
    <3> QED BY <2>2, <3>1
  <2>4. g[m + 1] = e /\ \A k \in 0..m : g[k] = f[k]
    OBVIOUS
  <2>5. Solves(g, m + 1)
    <3> HIDE DEF g
    <3>1. g[0] = d
      BY <2>1, <2>4
    <3>2. ASSUME NEW k \in 1..(m + 1) PROVE g[k] = step[<<k, g[k - 1]>>]
      <4>1. CASE k = m + 1
        <5>1. k - 1 = m /\ m \in 0..m
          BY <4>1
        <5> QED BY <4>1, <5>1, <2>4
      <4>2. CASE k # m + 1
        <5>1. k \in 1..m /\ k \in 0..m /\ k - 1 \in 0..m
          BY <4>2
        <5> QED BY <5>1, <2>1, <2>4
      <4> QED BY <4>1, <4>2
    <3> QED BY <3>1, <3>2
  <2> QED BY <2>3, <2>5
<1>3. n \in S
  <2> HIDE DEF S
  <2> QED BY <1>1, <1>2, NatSteps
<1> QED BY <1>3 DEF Iterate

-----------------------------------------------------------------------------
(* Pieces of a text.                                                       *)

(* A piece of a sequence, place by place.                                  *)
LEMMA PieceOf ==
  ASSUME NEW D, NEW t \in Seq(D), NEW a \in Nat, NEW b \in Nat, a <= b, b <= Len(t)
  PROVE  /\ SubSeq(t, a + 1, b) \in Seq(D)
         /\ Len(SubSeq(t, a + 1, b)) = b - a
         /\ \A i \in 1..(b - a) : SubSeq(t, a + 1, b)[i] = t[a + i]
         /\ SubSeq(t, a + 1, b) = [i \in 1..(b - a) |-> t[a + i]]
<1> DEFINE s == SubSeq(t, a + 1, b)
<1>1. Len(t) \in Nat
  OBVIOUS
<1>2. s \in Seq(D) /\ Len(s) = b - a
  BY <1>1, SubSeqProperties
<1>3. \A i \in 1..(b - a) : s[i] = t[a + i]
  <2> TAKE i \in 1..(b - a)
  <2>1. s[i] = t[(a + 1) + i - 1]
    BY <1>1, SubSeqProperties
  <2>2. (a + 1) + i - 1 = a + i
    OBVIOUS
  <2> QED BY <2>1, <2>2
<1>4. s = [i \in 1..Len(s) |-> s[i]]
  <2> HIDE DEF s
  <2> QED BY <1>2
<1>5. s = [i \in 1..(b - a) |-> t[a + i]]
  <2> HIDE DEF s
  <2> QED BY <1>2, <1>3, <1>4
<1> QED
  BY <1>2, <1>3, <1>5

(* A piece of a piece is a piece.                                          *)
LEMMA PieceOfPiece ==
  ASSUME NEW D, NEW t \in Seq(D), NEW o \in Nat, NEW n \in Nat, o <= n, n <= Len(t),
         NEW a \in Nat, NEW b \in Nat, a <= b, o + b <= n
  PROVE  SubSeq(SubSeq(t, o + 1, n), a + 1, b) = SubSeq(t, (o + a) + 1, o + b)
<1> DEFINE s == SubSeq(t, o + 1, n)
<1>1. s \in Seq(D) /\ Len(s) = n - o /\ \A i \in 1..(n - o) : s[i] = t[o + i]
  BY PieceOf
<1>2. SubSeq(s, a + 1, b) = [i \in 1..(b - a) |-> s[a + i]]
  <2>1. \A u \in Seq(D) : b <= Len(u) => SubSeq(u, a + 1, b) = [i \in 1..(b - a) |-> u[a + i]]
    BY PieceOf
  <2> HIDE DEF s
  <2>2. b <= Len(s)
    BY <1>1
  <2> QED BY <1>1, <2>1, <2>2
<1>3. SubSeq(t, (o + a) + 1, o + b) = [i \in 1..((o + b) - (o + a)) |-> t[(o + a) + i]]
  <2>1. o + a \in Nat /\ o + b \in Nat /\ o + a <= o + b /\ o + b <= Len(t)
    OBVIOUS
  <2> QED BY <2>1, PieceOf
<1>4. (o + b) - (o + a) = b - a /\ \A i \in 1..(b - a) : s[a + i] = t[(o + a) + i]
  <2> HIDE DEF s
  <2>1. \A i \in 1..(b - a) : a + i \in 1..(n - o) /\ o + (a + i) = (o + a) + i
    OBVIOUS
  <2> QED BY <1>1, <2>1
<1> QED
  BY <1>2, <1>3, <1>4

(* What is found at a place inside a piece of the text was found at the    *)
(* place it came from; the piece may hide what stands next to it.          *)
LEMMA FitsInside ==
  ASSUME NEW D, NEW t \in Seq(D), NEW o \in Nat, NEW n \in Nat, o <= n, n <= Len(t),
         NEW q \in Nat, n <= q, q <= Len(t),
         NEW d \in H!Detectors, NEW a \in Nat, NEW b \in Nat, a < b, o + b <= n,
         H!Fits(d, SubSeq(t, 1, q), [from |-> o + a, to |-> o + b])
  PROVE  /\ H!Fits(d, SubSeq(t, o + 1, n), [from |-> a, to |-> b])
         /\ H!Piece(SubSeq(t, o + 1, n), [from |-> a, to |-> b])
              = H!Piece(SubSeq(t, 1, q), [from |-> o + a, to |-> o + b])
<1> DEFINE v == SubSeq(t, o + 1, n)
           w == SubSeq(t, 1, q)
           m == [from |-> a, to |-> b]
           M == [from |-> o + a, to |-> o + b]
<1>0. Len(t) \in Nat /\ o + a \in Nat /\ o + b \in Nat
  OBVIOUS
<1>1. Len(v) = n - o /\ \A i \in 1..(n - o) : v[i] = t[o + i]
  <2> HIDE DEF v, w, m, M
  <2>0. \A a1 \in Nat : \A b1 \in Nat : a1 <= b1 /\ b1 <= Len(t) =>
          /\ Len(SubSeq(t, a1 + 1, b1)) = b1 - a1
          /\ \A i \in 1..(b1 - a1) : SubSeq(t, a1 + 1, b1)[i] = t[a1 + i]
    BY PieceOf, SMT
  <2>1. /\ Len(SubSeq(t, o + 1, n)) = n - o
        /\ \A i \in 1..(n - o) : SubSeq(t, o + 1, n)[i] = t[o + i]
    BY <2>0, SMT
  <2> QED BY <2>1 DEF v
<1>2. Len(w) = q /\ \A i \in 1..q : w[i] = t[i]
  <2>1. SubSeq(t, 0 + 1, q) = w /\ q - 0 = q /\ \A i \in 1..q : 0 + i = i
    OBVIOUS
  <2>2. /\ Len(SubSeq(t, 0 + 1, q)) = q - 0
        /\ \A i \in 1..(q - 0) : SubSeq(t, 0 + 1, q)[i] = t[0 + i]
    <3> HIDE DEF w, m, M, v
    <3>1. 0 \in Nat /\ 0 <= q /\ q <= Len(t)
      OBVIOUS
    <3> QED BY <3>1, PieceOf, SMT
  <2> HIDE DEF w
  <2> QED BY <2>1, <2>2
<1>3. H!Piece(v, m) = SubSeq(t, (o + a) + 1, o + b)
  BY PieceOfPiece DEF H!Piece
<1>4. H!Piece(w, M) = SubSeq(t, (o + a) + 1, o + b)
  <2>1. SubSeq(SubSeq(t, 0 + 1, q), (o + a) + 1, o + b) = SubSeq(t, (0 + (o + a)) + 1, 0 + (o + b))
    BY <1>0, PieceOfPiece
  <2>2. 0 + 1 = 1 /\ 0 + (o + a) = o + a /\ 0 + (o + b) = o + b
    BY <1>0
  <2> QED BY <2>1, <2>2 DEF H!Piece
<1>5. H!Delimited(w, M) => H!Delimited(v, m)
  <2>1. a > 0 => v[a] = w[o + a]
    <3>1. a > 0 => a \in 1..(n - o) /\ o + a \in 1..q
      OBVIOUS
    <3> HIDE DEF v, w, m, M
    <3>2. a > 0 => v[a] = t[o + a]
      BY <1>1, <3>1
    <3>3. a > 0 => w[o + a] = t[o + a]
      BY <1>2, <3>1
    <3> QED BY <3>2, <3>3
  <2>2. b < n - o => v[b + 1] = w[(o + b) + 1] /\ o + b < q
    <3>1. b < n - o => b + 1 \in 1..(n - o) /\ (o + b) + 1 \in 1..q /\ o + (b + 1) = (o + b) + 1
      OBVIOUS
    <3> HIDE DEF v, w, m, M
    <3>2. b < n - o => v[b + 1] = t[o + (b + 1)]
      BY <1>1, <3>1
    <3>3. b < n - o => w[(o + b) + 1] = t[(o + b) + 1] /\ o + b < q
      BY <1>0, <1>2, <3>1
    <3> QED BY <3>1, <3>2, <3>3
  <2> HIDE DEF v, w
  <2> QED BY <1>1, <1>2, <2>1, <2>2 DEF H!Delimited
<1>5a. H!Fits(d, w, M)
  OBVIOUS
<1> HIDE DEF v, w, m, M
<1>6. H!Fits(d, v, m)
  <2>1. H!Piece(v, m) = H!Piece(w, M)
    BY <1>3, <1>4
  <2> QED BY <1>5, <1>5a, <2>1 DEF H!Fits, H!Detectors
<1> QED
  BY <1>3, <1>4, <1>6 DEF v, w, m, M

(* The same, where the piece ends with the text.                           *)
LEMMA FitsAtEnd ==
  ASSUME NEW D, NEW t \in Seq(D), NEW o \in Nat, NEW q \in Nat, o <= q, q <= Len(t),
         NEW d \in H!Detectors, NEW a \in Nat, NEW b \in Nat, a < b, o + b <= q,
         H!Fits(d, SubSeq(t, 1, q), [from |-> o + a, to |-> o + b])
  PROVE  /\ H!Fits(d, SubSeq(t, o + 1, q), [from |-> a, to |-> b])
         /\ H!Piece(SubSeq(t, o + 1, q), [from |-> a, to |-> b])
              = H!Piece(SubSeq(t, 1, q), [from |-> o + a, to |-> o + b])
<1>1. PICK n \in Nat : n = q
  OBVIOUS
<1>2. n <= q /\ o <= n /\ n <= Len(t) /\ o + b <= n
  BY <1>1
<1>3. /\ H!Fits(d, SubSeq(t, o + 1, n), [from |-> a, to |-> b])
      /\ H!Piece(SubSeq(t, o + 1, n), [from |-> a, to |-> b])
           = H!Piece(SubSeq(t, 1, q), [from |-> o + a, to |-> o + b])
  BY <1>2, FitsInside
<1> QED
  BY <1>1, <1>3

(* Of the ends that a match may have, the longest is one, as they are few. *)
LEMMA LongestEnds ==
  ASSUME NEW d, NEW v, Len(v) \in Nat, NEW i \in Nat, H!Ends(d, v, i) # {}
  PROVE  /\ H!Longest(d, v, i) \in H!Ends(d, v, i)
         /\ \A k \in H!Ends(d, v, i) : k <= H!Longest(d, v, i)
<1> DEFINE E == H!Ends(d, v, i)
           T == {Len(v) - k : k \in E}
<1>1. E \subseteq (i + 1)..Len(v)
  BY DEF H!Ends
<1> HIDE DEF E
<1>2. T \subseteq Nat /\ T # {}
  BY <1>1 DEF E
<1>3. PICK x \in T : \A y \in T : x <= y
  <2> HIDE DEF T
  <2> QED BY <1>2, Least
<1>4. PICK j \in E : x = Len(v) - j
  OBVIOUS
<1>5. \A k \in E : k <= j
  <2> TAKE k \in E
  <2>1. Len(v) - j <= Len(v) - k
    BY <1>3, <1>4
  <2> QED BY <1>1, <2>1
<1> QED
  BY <1>4, <1>5 DEF E, H!Longest

(* The search leaves no match out but those that begin inside another, or  *)
(* end before the longest one from the same place.                         *)
LEMMA SearchCovers ==
  ASSUME NEW d, NEW v, Len(v) \in Nat, NEW a \in Nat, NEW b \in H!Ends(d, v, a)
  PROVE  \E h \in H!FindIter(d, v) :
           /\ h.from \in Nat /\ h.to \in H!Ends(d, v, h.from)
           /\ h.from <= a /\ a < h.to
           /\ h.from = a => b <= h.to
<1> DEFINE n == Len(v)
           step == [p \in (1..n) \X Nat |-> H!GoOn(d, v, p[1] - 1, p[2])]
<1>1. \A i \in Nat : \A p \in Nat : H!GoOn(d, v, i, p) \in Nat
  <2> TAKE i \in Nat, p \in Nat
  <2>1. \A j \in H!Ends(d, v, i) : j \in Nat
    BY DEF H!Ends
  <2>2. CASE H!FoundAt(d, v, i, p)
    <3>1. H!Longest(d, v, i) \in H!Ends(d, v, i)
      BY <2>2, LongestEnds DEF H!FoundAt
    <3> QED BY <2>1, <2>2, <3>1 DEF H!GoOn
  <2>3. CASE ~H!FoundAt(d, v, i, p)
    BY <2>3 DEF H!GoOn
  <2> QED BY <2>2, <2>3
<1>2. \A i \in 1..n : i - 1 \in Nat
  OBVIOUS
<1>3. step \in [(1..n) \X Nat -> Nat]
  BY <1>1, <1>2
<1>4. PICK f : Iterate(f, Nat, 0, n, step)
  <2>1. IsStep(step, n, Nat)
    BY <1>3 DEF IsStep
  <2> HIDE DEF step
  <2> QED BY <2>1, Iterates
<1>5. /\ f \in [0..n -> Nat] /\ f[0] = 0
      /\ \A i \in 1..n : f[i] = H!GoOn(d, v, i - 1, f[i - 1])
  <2>1. /\ f \in [0..n -> Nat] /\ f[0] = 0
        /\ \A i \in 1..n : f[i] = step[<<i, f[i - 1]>>]
    BY <1>4 DEF Iterate
  <2>2. \A i \in 1..n : i - 1 \in 0..n
    OBVIOUS
  <2>3. \A i \in 1..n : <<i, f[i - 1]>> \in (1..n) \X Nat
    BY <2>1, <2>2
  <2> QED BY <2>1, <2>3
<1>6. f = [i \in 0..n |-> IF i = 0 THEN 0 ELSE H!GoOn(d, v, i - 1, f[i - 1])]
  <2>1. f = [i \in 0..n |-> f[i]]
    BY <1>5
  <2>2. \A i \in 0..n : f[i] = IF i = 0 THEN 0 ELSE H!GoOn(d, v, i - 1, f[i - 1])
    BY <1>5
  <2> QED BY <2>1, <2>2
<1> DEFINE past[i \in 0..Len(v)] == IF i = 0 THEN 0 ELSE H!GoOn(d, v, i - 1, past[i - 1])
<1>7. past = [i \in 0..Len(v) |-> IF i = 0 THEN 0 ELSE H!GoOn(d, v, i - 1, past[i - 1])]
  BY <1>6
<1>8. H!FindIter(d, v) = {[from |-> i, to |-> H!Longest(d, v, i)] :
                            i \in {k \in 0..Len(v) : H!FoundAt(d, v, k, past[k])}}
  BY DEF H!FindIter
<1> HIDE DEF past
<1> DEFINE Begins(i) == i \in 0..n /\ H!FoundAt(d, v, i, past[i])
           S == {i \in Nat : i <= n => \/ past[i] = 0
                                       \/ \E k \in Nat : k < i /\ Begins(k) /\ past[i] = H!Longest(d, v, k)}
<1>9. 0 \in S
  BY <1>7
<1>10. ASSUME NEW i \in Nat, i \in S PROVE i + 1 \in S
  <2> SUFFICES ASSUME i + 1 <= n
               PROVE  \/ past[i + 1] = 0
                      \/ \E k \in Nat : k < i + 1 /\ Begins(k) /\ past[i + 1] = H!Longest(d, v, k)
    OBVIOUS
  <2>1. past[i + 1] = H!GoOn(d, v, i, past[i])
    <3>1. i + 1 \in 0..n /\ i + 1 # 0 /\ (i + 1) - 1 = i
      OBVIOUS
    <3> QED BY <1>7, <3>1
  <2>2. CASE H!FoundAt(d, v, i, past[i])
    <3>1. Begins(i) /\ past[i + 1] = H!Longest(d, v, i)
      BY <2>1, <2>2 DEF H!GoOn
    <3> QED BY <3>1
  <2>3. CASE ~H!FoundAt(d, v, i, past[i])
    <3>1. past[i + 1] = past[i]
      BY <2>1, <2>3 DEF H!GoOn
    <3>2. i <= n
      OBVIOUS
    <3>3. past[i] = 0 \/ \E k \in Nat : k < i /\ Begins(k) /\ past[i] = H!Longest(d, v, k)
      BY <1>10, <3>2
    <3> QED BY <3>1, <3>3
  <2> QED BY <2>2, <2>3
<1>11. Nat \subseteq S
  <2> HIDE DEF S
  <2> QED BY <1>9, <1>10, NatSteps
<1>12. b \in (a + 1)..n /\ a \in 0..n /\ H!Ends(d, v, a) # {}
  BY DEF H!Ends
<1>13. \A k \in Nat : Begins(k) =>
         /\ [from |-> k, to |-> H!Longest(d, v, k)] \in H!FindIter(d, v)
         /\ H!Longest(d, v, k) \in H!Ends(d, v, k)
         /\ \A j \in H!Ends(d, v, k) : j <= H!Longest(d, v, k)
  <2> TAKE k \in Nat
  <2>1. Begins(k) => [from |-> k, to |-> H!Longest(d, v, k)] \in H!FindIter(d, v)
    BY <1>8
  <2>2. Begins(k) => H!Ends(d, v, k) # {}
    BY DEF H!FoundAt
  <2> QED BY <2>1, <2>2, LongestEnds
<1>14. CASE past[a] <= a
  <2>1. Begins(a)
    BY <1>12, <1>14 DEF H!FoundAt
  <2>2. \A j \in H!Ends(d, v, a) : j > a
    BY DEF H!Ends
  <2> DEFINE h == [from |-> a, to |-> H!Longest(d, v, a)]
  <2>3. h.from = a /\ h.to = H!Longest(d, v, a)
    OBVIOUS
  <2>4. h \in H!FindIter(d, v) /\ h.to \in H!Ends(d, v, a) /\ b <= h.to
    BY <1>13, <2>1
  <2> HIDE DEF h, Begins
  <2> QED BY <2>2, <2>3, <2>4
<1>15. CASE ~(past[a] <= a)
  <2>1. PICK k \in Nat : k < a /\ Begins(k) /\ past[a] = H!Longest(d, v, k)
    BY <1>11, <1>12, <1>15
  <2>2. \A j \in H!Ends(d, v, k) : j \in Nat
    BY DEF H!Ends
  <2> DEFINE h == [from |-> k, to |-> H!Longest(d, v, k)]
  <2>3. h.from = k /\ h.to = H!Longest(d, v, k) /\ h \in H!FindIter(d, v) /\ h.to \in H!Ends(d, v, k)
    BY <1>13, <2>1
  <2>4. a < h.to
    BY <1>15, <2>1, <2>2, <2>3
  <2> HIDE DEF h, Begins
  <2> QED BY <2>1, <2>3, <2>4
<1> QED
  BY <1>14, <1>15

(* A card number has one end only: what goes on with a digit is not        *)
(* delimited there.                                                        *)
LEMMA OneEnd ==
  ASSUME NEW D, NEW v \in Seq(D), NEW a \in Nat, NEW b \in Nat, NEW c \in Nat,
         a < b, b < c, c <= Len(v),
         H!Fits("credit_card", v, [from |-> a, to |-> b]),
         H!Fits("credit_card", v, [from |-> a, to |-> c])
  PROVE  FALSE
<1> DEFINE s == SubSeq(v, a + 1, b)
           u == SubSeq(v, a + 1, c)
<1>1. /\ H!Layout(s) \in Layouts /\ H!Layout(u) \in Layouts
      /\ H!Delimited(v, [from |-> a, to |-> b])
  BY DEF H!Fits, H!Piece
<1>2. /\ s \in Seq(D) /\ Len(s) = b - a
      /\ \A i \in 1..(b - a) : s[i] = v[a + i]
  BY PieceOf
<1>3. /\ u \in Seq(D) /\ Len(u) = c - a
      /\ \A i \in 1..(c - a) : u[i] = v[a + i]
  BY PieceOf
<1>4. v[b + 1] \notin H!Digits
  BY <1>1 DEF H!Delimited
<1> HIDE DEF s, u
<1> DEFINE Kind(x) == IF x \in H!Digits THEN "digit" ELSE IF x \in H!Separators THEN "separator" ELSE "other"
           K == {"digit", "separator", "other"}
           ls == H!Layout(s)
           lu == H!Layout(u)
<1>5. \A x : Kind(x) \in K /\ (Kind(x) = "digit" => x \in H!Digits)
  OBVIOUS
<1>6. ls = [i \in 1..(b - a) |-> Kind(s[i])] /\ lu = [i \in 1..(c - a) |-> Kind(u[i])]
  <2>1. DOMAIN s = 1..(b - a) /\ DOMAIN u = 1..(c - a)
    BY <1>2, <1>3
  <2> QED BY <2>1 DEF H!Layout
<1> HIDE DEF Kind, ls, lu
<1>7. ls \in Seq(K) /\ Len(ls) = b - a /\ lu \in Seq(K) /\ Len(lu) = c - a
  <2>1. b - a \in Nat /\ c - a \in Nat
    OBVIOUS
  <2>2. \A n \in Nat : \A f \in [1..n -> K] : f \in Seq(K) /\ Len(f) = n
    OBVIOUS
  <2>3. ls \in [1..(b - a) -> K] /\ lu \in [1..(c - a) -> K]
    BY <1>5, <1>6
  <2> QED BY <2>1, <2>2, <2>3
<1>8. SubSeq(lu, 1, Len(ls)) = ls
  <2>1. \A i \in 1..(b - a) : i \in 1..(c - a) /\ lu[i] = ls[i]
    <3> TAKE i \in 1..(b - a)
    <3>1. i \in 1..(c - a)
      OBVIOUS
    <3>2. s[i] = u[i]
      BY <1>2, <1>3, <3>1
    <3> QED BY <1>6, <3>1, <3>2
  <2>2. ls = [i \in 1..(b - a) |-> ls[i]]
    BY <1>6
  <2>3. SubSeq(lu, 0 + 1, b - a) = [i \in 1..((b - a) - 0) |-> lu[0 + i]]
    <3>1. \A w \in Seq(K) : b - a <= Len(w) => SubSeq(w, 0 + 1, b - a) = [i \in 1..((b - a) - 0) |-> w[0 + i]]
      BY PieceOf
    <3>2. b - a <= Len(lu)
      BY <1>7
    <3> QED BY <1>7, <3>1, <3>2
  <2>4. (b - a) - 0 = b - a /\ 0 + 1 = 1 /\ \A i \in 1..(b - a) : 0 + i = i
    OBVIOUS
  <2> QED BY <1>7, <2>1, <2>2, <2>3, <2>4
<1>9. lu[(b - a) + 1] = "digit"
  <2>1. ls \in Layouts /\ lu \in Layouts
    BY <1>1 DEF ls, lu
  <2>2. Len(ls) < Len(lu)
    BY <1>7
  <2> QED BY <1>7, <1>8, <2>1, <2>2, ScanAssumption
<1>10. (b - a) + 1 \in 1..(c - a) /\ a + ((b - a) + 1) = b + 1
  OBVIOUS
<1>11. u[(b - a) + 1] = v[b + 1]
  BY <1>3, <1>10
<1> QED
  BY <1>4, <1>5, <1>6, <1>9, <1>10, <1>11

-----------------------------------------------------------------------------
(* PassedIsClean, said of any text t and registry r: of the first q tokens *)
(* of t the first n are clean.                                             *)
BledIn(t, q, m) ==
  \E i \in 0..(m.from - 1) : \E j \in (m.from + 1)..q :
    LET number == H!Piece(t, [from |-> i, to |-> j])
    IN H!Layout(number) \in Layouts /\ ~H!LuhnValid(number)
MustShow(d, m) == m.to - m.from + MaxChunk - 1 <= Window /\ d # "html_injection"
Clean(t, r, q, n) ==
  \A d \in H!Detectors : r[d] = "matches" =>
    \A m \in H!Occurrences(d, SubSeq(t, 1, n)) :
      MustShow(d, m) => d = "credit_card" /\ BledIn(t, q, m)

(* What the registry is shown of the first q tokens.                       *)
Shown(t, q) == SubSeq(t, (IF q > Window THEN q - Window ELSE 0) + 1, q)

(* A hit of a working detector that blocks is heard.                       *)
LEMMA HitBlocks ==
  ASSUME NEW v, NEW r, NEW d \in {"credit_card", "injection_phrase", "ssh_private_key"},
         r[d] = "matches", NEW h \in H!FindIter(d, v), H!Valid(d, H!Piece(v, h))
  PROVE  \E m \in H!RegistryScan(r, v) : Blocks(m)
<1>1. d \in H!Heard(r)
  BY DEF H!Heard, H!Enabled, H!Detectors
<1>2. PICK s \in H!Spans(d, v) : TRUE
  <2>1. h \in {m \in H!FindIter(d, v) : H!Valid(d, H!Piece(v, m))}
    OBVIOUS
  <2>2. H!Spans(d, v) # {}
    BY <2>1 DEF H!Spans
  <2> QED BY <2>2
<1> DEFINE m == [detector |-> d, from |-> s.from, to |-> s.to, score |-> H!Score(d, v)]
<1>3. m \in H!RegistryScan(r, v)
  BY <1>1, <1>2 DEF H!RegistryScan
<1>4. m.score = H!Score(d, v)
  OBVIOUS
<1>5. Blocks(m)
  <2> HIDE DEF m
  <2> QED BY <1>4 DEF H!Score, Blocks
<1> QED
  BY <1>3, <1>5

(* Nothing of a text of no tokens.                                         *)
LEMMA CleanAtFirst ==
  ASSUME NEW D, NEW t \in Seq(D), NEW r
  PROVE  Clean(t, r, 0, 0)
<1>1. Len(SubSeq(t, 1, 0)) = 0
  OBVIOUS
<1>2. \A d : H!Occurrences(d, SubSeq(t, 1, 0)) = {}
  BY <1>1 DEF H!Occurrences
<1> QED
  BY <1>2 DEF Clean

(* More of the stream does not make what was clean unclean.                *)
LEMMA CleanStays ==
  ASSUME NEW t, NEW r, NEW n, NEW p \in Nat, NEW q \in Nat, p <= q, Clean(t, r, p, n)
  PROVE  Clean(t, r, q, n)
<1>1. \A m : (m.from + 1)..p \subseteq (m.from + 1)..q
  OBVIOUS
<1>2. \A m : BledIn(t, p, m) => BledIn(t, q, m)
  BY <1>1 DEF BledIn
<1> QED
  BY <1>2 DEF Clean

(* The scan of a window: if it finds nothing that blocks, what came since  *)
(* the text was last clean is clean too.                                   *)
LEMMA ScanCleans ==
  ASSUME NEW D, NEW t \in Seq(D), NEW r,
         NEW n \in Nat, NEW q \in Nat, n <= q, q <= Len(t), q - n <= MaxChunk,
         Clean(t, r, q, n),
         ~\E m \in H!RegistryScan(r, Shown(t, q)) : Blocks(m)
  PROVE  Clean(t, r, q, q)
<1> USE RollingAssumption DEF RollingAssumption
<1> SUFFICES ASSUME NEW d \in H!Detectors, r[d] = "matches",
                    NEW m \in H!Occurrences(d, SubSeq(t, 1, q)), MustShow(d, m)
             PROVE  d = "credit_card" /\ BledIn(t, q, m)
  BY DEF Clean
<1> DEFINE o == IF q > Window THEN q - Window ELSE 0
           v == SubSeq(t, o + 1, q)
<1>0. o \in Nat /\ o <= q /\ (q > Window => o = q - Window) /\ Len(t) \in Nat /\ v = Shown(t, q)
  BY DEF Shown
<1>0a. (q <= Window => o = 0) /\ Window \in Nat /\ MaxChunk \in Nat
  OBVIOUS
<1>1. Len(SubSeq(t, 1, q)) = q
  OBVIOUS
<1>2. /\ m.from \in Nat /\ m.to \in Nat /\ m.from < m.to /\ m.to <= q
      /\ m = [from |-> m.from, to |-> m.to]
      /\ H!Fits(d, SubSeq(t, 1, q), m)
      /\ H!Valid(d, H!Piece(SubSeq(t, 1, q), m))
  BY <1>1 DEF H!Occurrences
<1>3. m.to - m.from + MaxChunk - 1 <= Window /\ d # "html_injection"
  BY DEF MustShow
<1> HIDE DEF o, v
<1>4. CASE m.to <= n
  <2>1. /\ H!Fits(d, SubSeq(t, 0 + 1, n), [from |-> m.from, to |-> m.to])
        /\ H!Piece(SubSeq(t, 0 + 1, n), [from |-> m.from, to |-> m.to])
             = H!Piece(SubSeq(t, 1, q), [from |-> 0 + m.from, to |-> 0 + m.to])
    <3>1. 0 + m.from = m.from /\ 0 + m.to = m.to /\ 0 <= n /\ 0 + m.to <= n /\ n <= Len(t)
      BY <1>0, <1>2, <1>4
    <3>2. H!Fits(d, SubSeq(t, 1, q), [from |-> 0 + m.from, to |-> 0 + m.to])
      BY <1>2, <3>1
    <3>3. m.from \in Nat /\ m.to \in Nat /\ m.from < m.to /\ n \in Nat /\ q \in Nat /\ d \in H!Detectors
      BY <1>0, <1>2
    <3> QED BY <1>2, <3>1, <3>2, <3>3, FitsInside, SMTT(30)
  <2>2. Len(SubSeq(t, 1, n)) = n /\ SubSeq(t, 0 + 1, n) = SubSeq(t, 1, n)
    BY <1>0
  <2>3. m \in H!Occurrences(d, SubSeq(t, 1, n))
    <3>1. m \in [from : 0..n, to : 0..n]
      BY <1>2, <1>4
    <3>2. H!Fits(d, SubSeq(t, 1, n), m) /\ H!Valid(d, H!Piece(SubSeq(t, 1, n), m))
      BY <1>2, <2>1, <2>2
    <3> QED BY <1>2, <2>2, <3>1, <3>2 DEF H!Occurrences
  <2> QED BY <2>3 DEF Clean
<1>5. CASE m.to > n
  <2> DEFINE a == m.from - o
             b == m.to - o
  <2>1. o <= m.from
    BY <1>0, <1>0a, <1>2, <1>3, <1>5
  <2>2. a \in Nat /\ b \in Nat /\ a < b /\ o + a = m.from /\ o + b = m.to /\ o + b <= q
    BY <1>0, <1>2, <2>1
  <2> HIDE DEF a, b
  <2>3. H!Fits(d, SubSeq(t, 1, q), [from |-> o + a, to |-> o + b])
    BY <1>2, <2>2
  <2>4. H!Fits(d, v, [from |-> a, to |-> b]) /\ H!Valid(d, H!Piece(v, [from |-> a, to |-> b]))
    <3>1. /\ H!Fits(d, SubSeq(t, o + 1, q), [from |-> a, to |-> b])
          /\ H!Piece(SubSeq(t, o + 1, q), [from |-> a, to |-> b])
               = H!Piece(SubSeq(t, 1, q), [from |-> o + a, to |-> o + b])
      BY <1>0, <2>2, <2>3, FitsAtEnd
    <3>2. [from |-> o + a, to |-> o + b] = m
      BY <1>2, <2>2
    <3> QED BY <1>2, <3>1, <3>2 DEF v
  <2>5. v \in Seq(D) /\ Len(v) = q - o /\ Len(v) \in Nat
    BY <1>0, PieceOf DEF v
  <2>6. b \in H!Ends(d, v, a)
    BY <1>0, <2>2, <2>4, <2>5 DEF H!Ends
  <2>7. PICK h \in H!FindIter(d, v) :
          /\ h.from \in Nat /\ h.to \in H!Ends(d, v, h.from)
          /\ h.from <= a /\ a < h.to
          /\ h.from = a => b <= h.to
    BY <2>2, <2>5, <2>6, SearchCovers
  <2>8. /\ h.to \in (h.from + 1)..(q - o)
        /\ H!Fits(d, v, [from |-> h.from, to |-> h.to])
    BY <2>5, <2>7 DEF H!Ends
  <2>9. CASE d \in {"injection_phrase", "ssh_private_key"}
    <3>1. H!Valid(d, H!Piece(v, h))
      BY <2>9 DEF H!Valid
    <3> QED BY <1>0, <2>7, <2>9, <3>1, HitBlocks
  <2>10. CASE d = "homoglyphs"
    BY <1>2, <2>10 DEF H!Fits
  <2>11. CASE d = "credit_card"
    <3>1. H!Piece(v, h) = H!Piece(v, [from |-> h.from, to |-> h.to])
      BY DEF H!Piece
    <3>2. ~H!LuhnValid(H!Piece(v, h))
      <4>1. ~H!Valid(d, H!Piece(v, h))
        BY <1>0, <2>7, <2>11, HitBlocks
      <4> QED BY <2>11, <4>1 DEF H!Valid
    <3>3. h.from # a
      <4> SUFFICES ASSUME h.from = a PROVE FALSE
        OBVIOUS
      <4>1. CASE h.to = b
        BY <2>4, <2>11, <3>1, <3>2, <4>1 DEF H!Valid
      <4>2. CASE h.to # b
        <5>1. b < h.to /\ h.to \in Nat /\ h.to <= Len(v)
          BY <2>2, <2>5, <2>7, <2>8, <4>2
        <5>2. H!Fits("credit_card", v, [from |-> a, to |-> b])
          BY <2>4, <2>11
        <5>3. H!Fits("credit_card", v, [from |-> a, to |-> h.to])
          BY <2>8, <2>11
        <5> QED BY <2>2, <2>5, <5>1, <5>2, <5>3, OneEnd
      <4> QED BY <4>1, <4>2
    <3> DEFINE i == o + h.from
               j == o + h.to
    <3>4. i \in 0..(m.from - 1) /\ j \in (m.from + 1)..q
      <4>1. h.from \in Nat /\ h.from < a /\ a < h.to /\ h.to \in Nat /\ h.to <= q - o
        BY <2>2, <2>7, <2>8, <3>3, <1>0
      <4>2. \A x \in Nat : x < a => o + x \in 0..(m.from - 1)
        <5>1. \A x \in Nat : x < a => o + x \in 0..((o + a) - 1)
          BY <1>0, <2>2
        <5> QED BY <2>2, <5>1
      <4>3. \A x \in Nat : a < x /\ x <= q - o => o + x \in (m.from + 1)..q
        <5>1. \A x \in Nat : a < x /\ x <= q - o => o + x \in ((o + a) + 1)..q
          BY <1>0, <2>2
        <5> QED BY <2>2, <5>1
      <4> QED BY <4>1, <4>2, <4>3
    <3>5. H!Piece(t, [from |-> i, to |-> j]) = H!Piece(v, h)
      <4>1. h.to \in Nat /\ h.from <= h.to /\ o + h.to <= q
        BY <1>0, <2>7, <2>8
      <4>2. SubSeq(SubSeq(t, o + 1, q), h.from + 1, h.to) = SubSeq(t, (o + h.from) + 1, o + h.to)
        <5>1. \A x \in Nat : \A y \in Nat : x <= y /\ o + y <= q =>
                SubSeq(SubSeq(t, o + 1, q), x + 1, y) = SubSeq(t, (o + x) + 1, o + y)
          BY <1>0, PieceOfPiece
        <5> QED BY <2>7, <4>1, <5>1
      <4> QED BY <4>2 DEF H!Piece, v
    <3>6. H!Layout(H!Piece(v, h)) \in Layouts
      BY <2>8, <2>11, <3>1 DEF H!Fits
    <3> HIDE DEF i, j
    <3> QED BY <2>11, <3>2, <3>4, <3>5, <3>6 DEF BledIn
  <2> QED BY <1>3, <2>9, <2>10, <2>11 DEF H!Detectors
<1> QED
  BY <1>2, <1>4, <1>5

-----------------------------------------------------------------------------
(* What was handed on is clean; and while a chunk waits for its scan, so   *)
(* is what came before it.  PassedIsClean alone is not inductive, as it    *)
(* says nothing of the latter.                                             *)
ScanInv ==
  /\ text \in Texts /\ seen \in 0..Len(text)
  /\ stage = "reading" => Clean(text, registry, seen, seen)
  /\ stage = "scanning" =>
       \E n \in 0..seen : seen - n <= MaxChunk /\ Clean(text, registry, seen, n)

(* The property is the invariant's first half.                             *)
LEMMA CleanIs == Clean(text, registry, seen, seen) <=> CleanUpTo(seen)
BY DEF Clean, CleanUpTo, BledIn, Bled, MustShow

(* Texts are sequences.                                                    *)
LEMMA TextIs == ASSUME NEW t \in Texts PROVE \E D : t \in Seq(D)
BY ScanAssumption

(* ScanInit: nothing was received.                                         *)
LEMMA CleanInit == ScanInit => ScanInv
<1> SUFFICES ASSUME ScanInit PROVE ScanInv
  OBVIOUS
<1>1. text \in Texts /\ seen = 0 /\ stage = "reading"
  BY DEF ScanInit, Init
<1>2. PICK D : text \in Seq(D)
  BY <1>1, TextIs
<1>3. Len(text) \in Nat
  BY <1>2
<1>4. Clean(text, registry, 0, 0)
  BY <1>2, CleanAtFirst
<1> QED
  BY <1>1, <1>3, <1>4 DEF ScanInv

(* A chunk arrives: what was clean before it stays so.                     *)
LEMMA CleanReceive == ASSUME ScanInv, Receive PROVE ScanInv'
<1>1. /\ stage = "reading" /\ stage' = "scanning"
      /\ text' = text /\ registry' = registry /\ seen' <= Len(text)
  BY DEF Receive
<1>2. PICK k \in 0..MaxChunk : seen' = seen + k
  BY DEF Receive, AppendChunk
<1>3. text \in Texts /\ seen \in Nat /\ seen' \in Nat /\ Len(text) \in Nat
  <2>1. PICK D : text \in Seq(D)
    BY TextIs DEF ScanInv
  <2> QED BY <1>2, <2>1 DEF ScanInv
<1>4. seen <= seen' /\ seen' - seen <= MaxChunk
  BY <1>2, <1>3, RollingAssumption DEF RollingAssumption
<1>5. Clean(text, registry, seen', seen)
  BY <1>1, <1>3, <1>4, CleanStays DEF ScanInv
<1>6. \E n \in 0..seen' : seen' - n <= MaxChunk /\ Clean(text', registry', seen', n)
  <2>1. seen \in 0..seen'
    BY <1>3, <1>4
  <2> QED BY <1>1, <1>4, <1>5, <2>1
<1> QED
  BY <1>1, <1>3, <1>6 DEF ScanInv

(* The scan: the view is the end of the stream, and what it passes clean.  *)
LEMMA CleanScan == ASSUME ScanInv, ViewIsRecent, ScanChunk PROVE ScanInv'
<1>1. /\ stage = "scanning" /\ stage' \in {"raised", "blocked", "reading"}
      /\ text' = text /\ registry' = registry /\ seen' = seen
  BY DEF ScanChunk
<1>2. PICK D : text \in Seq(D)
  BY TextIs DEF ScanInv
<1>3. text \in Texts /\ seen \in Nat /\ seen <= Len(text)
  BY <1>2 DEF ScanInv
<1>4. PICK n \in 0..seen : seen - n <= MaxChunk /\ Clean(text, registry, seen, n)
  BY <1>1 DEF ScanInv
<1>5. H!Piece(text, View) = Shown(text, seen)
  <2>1. View = Recent
    BY DEF ScanChunk, ViewIsRecent
  <2> QED BY <2>1 DEF H!Piece, Recent, Shown
<1>6. ASSUME stage' = "reading" PROVE Clean(text, registry, seen, seen)
  <2>1. ~\E m \in H!RegistryScan(registry, Shown(text, seen)) : Blocks(m)
    BY <1>5, <1>6 DEF ScanChunk
  <2>2. n \in Nat /\ n <= seen
    BY <1>3
  <2> QED BY <1>2, <1>3, <1>4, <2>1, <2>2, ScanCleans
<1> QED
  BY <1>1, <1>3, <1>6 DEF ScanInv

(* Nothing that the stream hands on holds a card number, key or phrase     *)
(* that fits the window with its chunk, for any texts, detectors' patterns, *)
(* window and chunk sizes, however the chunks cut the stream, but for card *)
(* numbers behind a rejected one (heuristics.py:54-69, streaming.py:90-126). *)
THEOREM PassesAreClean == ScanSpec => []PassedIsClean
<1>1. ScanInv /\ ViewIsRecent /\ [ScanNext]_scanVars => ScanInv'
  <2> SUFFICES ASSUME ScanInv, ViewIsRecent, [ScanNext]_scanVars PROVE ScanInv'
    OBVIOUS
  <2>1. CASE Receive
    BY <2>1, CleanReceive
  <2>2. CASE ScanChunk
    BY <2>2, CleanScan
  <2>3. CASE Trim
    BY <2>3 DEF Trim, TrimFront, TrimEnd, ScanInv
  <2>4. CASE UNCHANGED scanVars
    BY <2>4 DEF scanVars, ScanInv
  <2> QED BY <2>1, <2>2, <2>3, <2>4 DEF ScanNext
<1>2. ScanInv => PassedIsClean
  BY CleanIs DEF ScanInv, PassedIsClean
<1> QED
  BY <1>1, <1>2, CleanInit, ScannedIsRecent, PTL DEF ScanSpec
=============================================================================
