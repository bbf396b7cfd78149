------------------------- MODULE FlowControlProofs -------------------------
(* Proofs about the windows of a circuit, for any window sizes, increments  *)
(* and queue marks and any number of streams: no cell of the circuit window *)
(* is ever lost, and two correct ends never close a circuit for a           *)
(* violation of the protocol.                                               *)
EXTENDS FlowControl, FiniteSetTheorems, SequenceTheorems, TLAPS

\* Every cell of a stream's window is accounted for, as long as the exit has
\* not ended the stream.
StreamWindowConserved ==
    \A s \in FStream :
        ended[s] = "no" =>
            spw[s] + Count(s, cellq) + Count(s, fnet) + (SStart - sdw[s])
                + SInc * Count(StreamSendmeCell(s), back) = SStart

\* Nothing happens before the circuit is open.
NotOpenQuiet ==
    initWin = 0 =>
        /\ cpw = 0 /\ cellq = << >> /\ fnet = << >> /\ back = << >>
        /\ cdw = CStart /\ ~Resuming
        /\ \A s \in FStream : ~reading[s] /\ xbuf[s] = 0

\* SENDMEs go out as soon as they are due, and a long queue blocks streams.
WindowsKept ==
    /\ CStart - CInc < cdw /\ cdw <= CStart
    /\ \A s \in FStream : sdw[s] <= SStart
    /\ ~blk => Len(cellq) < QHigh

FlowInv ==
    /\ FlowTypeOK
    /\ NotOpenQuiet
    /\ WindowsKept
    /\ CircWindowConserved
    /\ StreamWindowConserved
    /\ NeverKilled

-----------------------------------------------------------------------------
(* Counting in sequences *)

\* The cells of a kind in a queue are counted by a natural.
LEMMA CountNat ==
    ASSUME NEW S, NEW q \in Seq(S), NEW m
    PROVE  /\ IsFiniteSet({i \in DOMAIN q : q[i] = m})
           /\ Count(m, q) \in Nat
<1>1. DOMAIN q = 1 .. Len(q) /\ Len(q) \in Nat
  OBVIOUS
<1>2. IsFiniteSet(1 .. Len(q))
  BY <1>1, FS_Interval
<1>3. IsFiniteSet({i \in DOMAIN q : q[i] = m})
  BY <1>1, <1>2, FS_Subset
<1> QED  BY <1>3, FS_CardinalityType DEF Count

\* An empty queue has none.
LEMMA CountEmpty ==
    ASSUME NEW m
    PROVE  Count(m, << >>) = 0
<1>1. {i \in DOMAIN << >> : << >>[i] = m} = {}
  OBVIOUS
<1> QED  BY <1>1, FS_EmptySet DEF Count

\* The counts of two queues add up.
LEMMA CountConcat ==
    ASSUME NEW S, NEW q \in Seq(S), NEW r \in Seq(S), NEW m
    PROVE  Count(m, q \o r) = Count(m, q) + Count(m, r)
<1> DEFINE A == {i \in DOMAIN q : q[i] = m}
           B == {i \in DOMAIN r : r[i] = m}
           C == {i \in DOMAIN (q \o r) : (q \o r)[i] = m}
           n == Len(q)
           D == {i \in n + 1 .. n + Len(r) : r[i - n] = m}
           f == [i \in B |-> n + i]
<1>1. /\ n \in Nat /\ Len(r) \in Nat
      /\ DOMAIN q = 1 .. n /\ DOMAIN r = 1 .. Len(r)
  OBVIOUS
<1>2. /\ q \o r \in Seq(S) /\ Len(q \o r) = n + Len(r)
      /\ \A i \in 1 .. n + Len(r) :
            (q \o r)[i] = IF i <= n THEN q[i] ELSE r[i - n]
  BY ConcatProperties
<1>3. DOMAIN (q \o r) = 1 .. n + Len(r)
  BY <1>2
<1>4. C = A \cup D /\ A \cap D = {}
  <2> HIDE DEF n
  <2> QED  BY <1>1, <1>2, <1>3
<1>5. IsFiniteSet(A) /\ IsFiniteSet(B)
  BY CountNat
<1>6. IsFiniteSet(D) /\ Cardinality(D) = Cardinality(B)
  <2> HIDE DEF n
  <2>1. f \in [B -> D]
    BY <1>1
  <2>2. \A x, y \in B : f[x] = f[y] => x = y
    BY <1>1
  <2>3. \A y \in D : \E x \in B : f[x] = y
    <3> SUFFICES ASSUME NEW y \in D PROVE \E x \in B : f[x] = y
      OBVIOUS
    <3>1. y - n \in B /\ n + (y - n) = y
      BY <1>1
    <3> QED  BY <3>1
  <2> HIDE DEF f, B, D
  <2>4. f \in Bijection(B, D)
    BY <2>1, <2>2, <2>3 DEF Bijection, Injection, Surjection, IsInjective
  <2>5. ExistsBijection(B, D)
    BY <2>4 DEF ExistsBijection
  <2> QED  BY <1>5, <2>5, FS_Bijection
<1>7. Cardinality(C) = Cardinality(A) + Cardinality(B)
  <2> HIDE DEF A, B, C, D
  <2>1. Cardinality(A \cup D)
           = Cardinality(A) + Cardinality(D) - Cardinality(A \cap D)
    BY <1>5, <1>6, FS_Union
  <2>2. Cardinality(A) \in Nat /\ Cardinality(D) \in Nat /\ Cardinality({}) = 0
    BY <1>5, <1>6, FS_CardinalityType, FS_EmptySet
  <2>3. Cardinality(C) = Cardinality(A \cup D)
        /\ Cardinality(A \cap D) = 0
    BY <1>4, <2>2
  <2> QED  BY <1>6, <2>1, <2>2, <2>3
<1> QED  BY <1>7 DEF Count

\* n copies of a cell count n times.
LEMMA CountCopies ==
    ASSUME NEW S, NEW n \in Nat, NEW x \in S, NEW m
    PROVE  /\ Cells(x, n) \in Seq(S)
           /\ Len(Cells(x, n)) = n
           /\ Count(m, Cells(x, n)) = IF x = m THEN n ELSE 0
<1> DEFINE q == [i \in 1 .. n |-> x]
<1>1. q \in Seq(S) /\ Len(q) = n
  OBVIOUS
<1>2. {i \in DOMAIN q : q[i] = m} = IF x = m THEN 1 .. n ELSE {}
  OBVIOUS
<1>3. Cardinality(1 .. n) = n /\ Cardinality({}) = 0
  BY FS_Interval, FS_EmptySet
<1>4. Count(m, q) = IF x = m THEN n ELSE 0
  BY <1>2, <1>3 DEF Count
<1> QED  BY <1>1, <1>4 DEF Cells

\* A cell at the end of a queue counts once.
LEMMA CountAppend ==
    ASSUME NEW S, NEW q \in Seq(S), NEW x \in S, NEW m
    PROVE  Count(m, Append(q, x)) = Count(m, q) + IF x = m THEN 1 ELSE 0
<1> DEFINE one == Cells(x, 1)
<1>1. /\ one \in Seq(S)
      /\ Count(m, one) = IF x = m THEN 1 ELSE 0
  BY CountCopies
<1>2. <<x>> = one
  BY DEF Cells
<1>3. Append(q, x) = q \o one
  BY <1>2, AppendIsConcat
<1> HIDE DEF one
<1> QED  BY <1>1, <1>3, CountConcat

\* A sequence is its first element and the rest.
LEMMA OneThenRest ==
    ASSUME NEW S, NEW q \in Seq(S), NEW e \in Seq(S), NEW t \in Seq(S)
    PROVE  (/\ Len(e) = 1 /\ e[1] = q[1] /\ Len(q) = Len(t) + 1
            /\ \A i \in 1 .. Len(t) : t[i] = q[i + 1])
             => e \o t = q
<1>1. /\ e \o t \in Seq(S) /\ Len(e \o t) = Len(e) + Len(t)
      /\ \A i \in 1 .. Len(e) + Len(t) :
            (e \o t)[i] = IF i <= Len(e) THEN e[i] ELSE t[i - Len(e)]
  BY ConcatProperties
<1> HAVE /\ Len(e) = 1 /\ e[1] = q[1] /\ Len(q) = Len(t) + 1
         /\ \A i \in 1 .. Len(t) : t[i] = q[i + 1]
<1>2. Len(e \o t) = Len(q) /\ Len(t) \in Nat /\ Len(q) \in Nat
  BY <1>1
<1>3. ASSUME NEW i \in 1 .. Len(q) PROVE (e \o t)[i] = q[i]
  <2>1. (e \o t)[i] = IF i <= 1 THEN e[i] ELSE t[i - 1]
    BY <1>1, <1>2
  <2>2. CASE i = 1
    BY <2>1, <2>2
  <2>3. CASE i # 1
    <3>1. i - 1 \in 1 .. Len(t) /\ (i - 1) + 1 = i /\ ~(i <= 1)
      BY <1>2, <2>3
    <3>2. t[i - 1] = q[i]
      BY <3>1
    <3> QED  BY <2>1, <3>1, <3>2
  <2> QED  BY <2>2, <2>3
<1> QED  BY <1>1, <1>2, <1>3, SeqEqual

\* Taking the first cell of a queue takes one from its count.
LEMMA CountTail ==
    ASSUME NEW S, NEW q \in Seq(S), q # << >>, NEW m
    PROVE  /\ Head(q) \in S /\ Tail(q) \in Seq(S)
           /\ Len(q) = Len(Tail(q)) + 1 /\ Len(Tail(q)) \in Nat
           /\ Count(m, q) = Count(m, Tail(q)) + IF Head(q) = m THEN 1 ELSE 0
<1> DEFINE h == Head(q)
           one == Cells(h, 1)
           t == Tail(q)
<1>1. /\ h \in S /\ t \in Seq(S) /\ Len(q) = Len(t) + 1
      /\ Len(t) \in Nat
      /\ h = q[1] /\ \A i \in 1 .. Len(t) : t[i] = q[i + 1]
  OBVIOUS
<1> HIDE DEF h, t
<1>2. /\ one \in Seq(S) /\ Len(one) = 1
      /\ Count(m, one) = IF h = m THEN 1 ELSE 0
  <2>1. h \in S /\ 1 \in Nat
    BY <1>1
  <2> QED  BY <2>1, CountCopies
<1>3. one[1] = h
  BY DEF Cells
<1> HIDE DEF one
<1>6. one \o t = q
  BY <1>1, <1>2, <1>3, OneThenRest
<1>7. Count(m, q) = Count(m, one) + Count(m, t)
  BY <1>1, <1>2, <1>6, CountConcat
<1>8. Count(m, t) \in Nat
  BY <1>1, CountNat
<1> QED  BY <1>1, <1>2, <1>7, <1>8 DEF h, t

-----------------------------------------------------------------------------
(* Numbers *)

\* The least of four numbers is one of them and at most each.
LEMMA MinOfFour ==
    ASSUME NEW a \in Int, NEW b \in Int, NEW c \in Int, NEW d \in Int
    PROVE  /\ Min({a, b, c, d}) \in {a, b, c, d}
           /\ Min({a, b, c, d}) <= a /\ Min({a, b, c, d}) <= b
           /\ Min({a, b, c, d}) <= c /\ Min({a, b, c, d}) <= d
<1> DEFINE S == {a, b, c, d}
<1>1. \E x \in S : \A y \in S : x =< y
  OBVIOUS
<1>2. Min(S) \in S /\ \A y \in S : Min(S) =< y
  BY <1>1 DEF Min
<1> QED  BY <1>2

\* The least of three numbers is the least of four of which two are equal.
LEMMA MinOfThree ==
    ASSUME NEW a \in Int, NEW b \in Int, NEW c \in Int
    PROVE  /\ Min({a, b, c}) \in {a, b, c}
           /\ Min({a, b, c}) <= a /\ Min({a, b, c}) <= b
           /\ Min({a, b, c}) <= c
<1>1. {a, b, c, c} = {a, b, c}
  OBVIOUS
<1> QED  BY <1>1, MinOfFour

\* The least of two numbers is one of them.
LEMMA MinOfTwo ==
    ASSUME NEW a \in Int, NEW b \in Int
    PROVE  Min({a, b}) \in {a, b}
<1>1. {a, b, b} = {a, b}
  OBVIOUS
<1> QED  BY <1>1, MinOfThree

\* Rounded-down division.
LEMMA DivBounds ==
    ASSUME NEW a \in Nat, NEW d \in Nat, 0 < d
    PROVE  /\ a \div d \in Nat
           /\ (a \div d) * d <= a
           /\ a < (a \div d) * d + d
  BY Z3

\* The products of window steps, which the SMT solver is given as facts.
LEMMA Products ==
    ASSUME NEW d \in Nat, NEW j \in Nat, NEW k \in Nat
    PROVE  /\ d * j \in Nat /\ d * k \in Nat /\ k * d \in Nat
           /\ d * (j + k) = d * j + k * d
           /\ d * (j + 1) = d * j + d
           /\ d * 0 = 0
  BY Z3

\* Cells of different kinds or streams differ.
LEMMA CellsDistinct ==
    ASSUME NEW s, NEW t
    PROVE  /\ CircSendmeCell # StreamSendmeCell(s)
           /\ CircSendmeCell # EndCell(s)
           /\ StreamSendmeCell(s) # EndCell(t)
           /\ StreamSendmeCell(s) = StreamSendmeCell(t) <=> s = t
  BY DEF CircSendmeCell, StreamSendmeCell, EndCell

\* Appending cells of one stream to a queue.
LEMMA CellsAdded ==
    ASSUME NEW q \in Seq(FStream), NEW s \in FStream, NEW n \in Nat
    PROVE  /\ q \o Cells(s, n) \in Seq(FStream)
           /\ Len(q \o Cells(s, n)) = Len(q) + n
           /\ \A t \in FStream : Count(t, q \o Cells(s, n))
                 = Count(t, q) + IF s = t THEN n ELSE 0
<1>1. /\ Cells(s, n) \in Seq(FStream) /\ Len(Cells(s, n)) = n
      /\ \A t : Count(t, Cells(s, n)) = IF s = t THEN n ELSE 0
  BY CountCopies
<1>2. q \o Cells(s, n) \in Seq(FStream) /\ Len(q \o Cells(s, n)) = Len(q) + n
  BY <1>1, ConcatProperties
<1>3. ASSUME NEW t \in FStream
      PROVE  Count(t, q \o Cells(s, n)) = Count(t, q) + IF s = t THEN n ELSE 0
  BY <1>1, CountConcat
<1> QED  BY <1>2, <1>3

\* Sending copies of a cell back to the client.
LEMMA BackAdded ==
    ASSUME NEW q \in Seq(BackCells), NEW c \in BackCells, NEW n \in Nat, NEW m
    PROVE  /\ q \o Cells(c, n) \in Seq(BackCells)
           /\ Count(m, q \o Cells(c, n))
                 = Count(m, q) + IF c = m THEN n ELSE 0
<1> DEFINE r == Cells(c, n)
<1>1. r \in Seq(BackCells) /\ Count(m, r) = IF c = m THEN n ELSE 0
  BY CountCopies
<1> HIDE DEF r
<1>2. q \o r \in Seq(BackCells) /\ Count(m, q \o r) = Count(m, q) + Count(m, r)
  BY <1>1, ConcatProperties, CountConcat
<1>3. q \o r \in Seq(BackCells)
      /\ Count(m, q \o r) = Count(m, q) + IF c = m THEN n ELSE 0
  BY <1>1, <1>2
<1> QED  BY <1>3 DEF r

\* The numbers of the invariant are naturals.
LEMMA FlowNumbers ==
    ASSUME FlowInv
    PROVE  /\ Len(cellq) \in Nat /\ Len(fnet) \in Nat
           /\ Count(CircSendmeCell, back) \in Nat
           /\ \A s \in FStream :
                 /\ Count(s, cellq) \in Nat /\ Count(s, fnet) \in Nat
                 /\ Count(StreamSendmeCell(s), back) \in Nat
                 /\ spw[s] \in Nat /\ sdw[s] \in Nat
                 /\ inb[s] \in Nat /\ app[s] \in Nat /\ xbuf[s] \in Nat
           /\ cpw \in Nat /\ cdw \in Nat
           /\ initWin \in Nat /\ initWin <= CStart
           /\ CStart \in Nat /\ CInc \in Nat /\ SStart \in Nat
           /\ SInc \in Nat /\ QHigh \in Nat /\ QLow \in Nat
           /\ 0 < CInc /\ 0 < SInc /\ CInc <= CStart /\ QLow < QHigh
<1>1. cellq \in Seq(FStream) /\ fnet \in Seq(FStream) /\ back \in Seq(BackCells)
  BY DEF FlowInv, FlowTypeOK
<1>2. /\ Count(CircSendmeCell, back) \in Nat
      /\ \A s \in FStream :
            /\ Count(s, cellq) \in Nat /\ Count(s, fnet) \in Nat
            /\ Count(StreamSendmeCell(s), back) \in Nat
  BY <1>1, CountNat
<1>3. Len(cellq) \in Nat /\ Len(fnet) \in Nat
  BY <1>1
<1>4. /\ CStart \in Nat /\ CMin \in Nat /\ CInc \in Nat /\ SStart \in Nat
      /\ SInc \in Nat /\ QHigh \in Nat /\ QLow \in Nat
      /\ 0 < CInc /\ 0 < SInc /\ CInc <= CStart /\ QLow < QHigh
  BY FlowAssumption
<1>5. cpw \in Nat /\ cdw \in Nat /\ initWin \in Nat /\ initWin <= CStart
  BY <1>4 DEF FlowInv, FlowTypeOK, NeverKilled
<1>6. \A s \in FStream :
         /\ spw[s] \in Nat /\ sdw[s] \in Nat
         /\ inb[s] \in Nat /\ app[s] \in Nat /\ xbuf[s] \in Nat
  BY DEF FlowInv, FlowTypeOK, NeverKilled
<1> QED  BY <1>2, <1>3, <1>4, <1>5, <1>6

-----------------------------------------------------------------------------
(* Packaging *)

ResumeType == [at : Nat, max : Int, per : Nat, done : Nat, left : Nat]

\* The sums of the window equations when n cells are taken from a window.
LEMMA CellMoves ==
    ASSUME NEW c \in Int, NEW q \in Int, NEW f \in Int, NEW d \in Int,
           NEW e \in Int, NEW p \in Int, NEW n \in Int, NEW z \in Int,
           c + q + f + (d - e) + p = z
    PROVE  (c - n) + (q + n) + f + (d - e) + p = z
  OBVIOUS

\* n cells of stream s are packaged, with w the stream's window before them:
\* a read, a SENDME or a round of resuming.
Packs(s, n, w) ==
    /\ n <= cpw /\ n <= w
    /\ cellq' = cellq \o Cells(s, n)
    /\ cpw' = cpw - n
    /\ spw' = [spw EXCEPT ![s] = w - n]
    /\ blk' = (blk \/ (n > 0 /\ Len(cellq) + n >= QHigh))
    /\ UNCHANGED <<initWin, fnet, sdw, cdw, xbuf, ended, killed>>
    /\ back' \in Seq(BackCells)
    /\ Count(CircSendmeCell, back') = Count(CircSendmeCell, back)
    /\ \A t \in FStream :
          (IF t = s THEN w ELSE spw[t])
              + SInc * Count(StreamSendmeCell(t), back')
            = spw[t] + SInc * Count(StreamSendmeCell(t), back)
    /\ app' \in [FStream -> Nat]
    /\ inb' \in [FStream -> Nat]
    /\ reading' \in [FStream -> BOOLEAN]
    /\ resume' \in ResumeType

\* Packaging keeps the invariant.
LEMMA PackageKeeps ==
    ASSUME FlowInv, initWin # 0,
           NEW s \in FStream, NEW n \in Nat, NEW w \in Int,
           Packs(s, n, w)
    PROVE  FlowInv'
<1>0. /\ Len(cellq) \in Nat /\ Len(fnet) \in Nat
      /\ Count(CircSendmeCell, back) \in Nat
      /\ \A t \in FStream :
            /\ Count(t, cellq) \in Nat /\ Count(t, fnet) \in Nat
            /\ Count(StreamSendmeCell(t), back) \in Nat
            /\ spw[t] \in Nat /\ sdw[t] \in Nat
      /\ cpw \in Nat /\ cdw \in Nat /\ initWin \in Nat
      /\ CStart \in Nat /\ CInc \in Nat /\ SStart \in Nat /\ SInc \in Nat
      /\ QHigh \in Nat
  BY FlowNumbers, Zenon
<1>1. cellq \in Seq(FStream) /\ spw \in [FStream -> Int]
  BY DEF FlowInv, FlowTypeOK
<1>2. /\ cellq' \in Seq(FStream)
      /\ Len(cellq') = Len(cellq) + n
      /\ \A t \in FStream :
            Count(t, cellq') = Count(t, cellq) + IF s = t THEN n ELSE 0
  BY <1>1, CellsAdded DEF Packs
<1>3. \A t \in FStream : spw'[t] = IF t = s THEN w - n ELSE spw[t]
  BY <1>1 DEF Packs
<1>4. FlowTypeOK'
  <2>1. cpw' \in Int /\ spw' \in [FStream -> Int]
    BY <1>0, <1>1 DEF Packs
  <2>2. blk' \in BOOLEAN
    BY DEF Packs
  <2> QED  BY <1>2, <2>1, <2>2 DEF FlowInv, FlowTypeOK, ResumeType, Packs
<1>5. NotOpenQuiet'
  BY DEF NotOpenQuiet, Packs
<1>6. WindowsKept'
  <2>1. ~blk' => Len(cellq') < QHigh
    <3> SUFFICES ASSUME ~blk' PROVE Len(cellq') < QHigh
      OBVIOUS
    <3>1. ~blk /\ ~(n > 0 /\ Len(cellq) + n >= QHigh)
      BY Zenon DEF Packs
    <3>2. Len(cellq) < QHigh
      BY <3>1, Zenon DEF FlowInv, WindowsKept
    <3> QED  BY <1>0, <1>2, <3>1, <3>2
  <2> QED  BY <2>1 DEF FlowInv, WindowsKept, Packs
<1>7. CircWindowConserved'
  <2> DEFINE k == Count(CircSendmeCell, back)
  <2>1. k \in Nat /\ CInc * k \in Nat
    BY <1>0, Products
  <2>2. cpw + Len(cellq) + Len(fnet) + (CStart - cdw) + CInc * k = initWin
    BY DEF FlowInv, CircWindowConserved
  <2>3. (cpw - n) + (Len(cellq) + n) + Len(fnet) + (CStart - cdw) + CInc * k
            = initWin
    <3> HIDE DEF k
    <3> QED  BY <1>0, <2>1, <2>2, CellMoves
  <2>4. /\ Count(CircSendmeCell, back') = k /\ cpw' = cpw - n
        /\ UNCHANGED <<initWin, fnet, cdw>>
    BY DEF Packs
  <2> HIDE DEF k
  <2> QED  BY <1>2, <2>3, <2>4 DEF CircWindowConserved
<1>8. StreamWindowConserved'
  <2> SUFFICES ASSUME NEW t \in FStream, ended[t] = "no"
               PROVE  spw'[t] + Count(t, cellq') + Count(t, fnet)
                        + (SStart - sdw[t])
                        + SInc * Count(StreamSendmeCell(t), back') = SStart
    BY DEF StreamWindowConserved, Packs
  <2> DEFINE j == SInc * Count(StreamSendmeCell(t), back)
             k == SInc * Count(StreamSendmeCell(t), back')
  <2>1. j \in Nat /\ k \in Nat
    <3>1. Count(StreamSendmeCell(t), back') \in Nat
      BY CountNat DEF Packs
    <3> QED  BY <3>1, <1>0, Products
  <2>2. spw[t] + Count(t, cellq) + Count(t, fnet) + (SStart - sdw[t]) + j
           = SStart
    BY DEF FlowInv, StreamWindowConserved
  <2>3. (IF t = s THEN w ELSE spw[t]) + k = spw[t] + j
    BY DEF Packs
  <2> HIDE DEF j, k
  <2>4. spw'[t] + Count(t, cellq') + Count(t, fnet) + (SStart - sdw[t]) + k
           = SStart
    <3>1. Count(t, cellq') = Count(t, cellq) + IF s = t THEN n ELSE 0
      BY <1>2
    <3>2. spw'[t] = IF t = s THEN w - n ELSE spw[t]
      BY <1>3
    <3>3. CASE t = s
      <4>1. Count(t, cellq) + n = Count(t, cellq') /\ spw'[t] = w - n
        BY <3>1, <3>2, <3>3
      <4>2. spw[t] + j = w + k
        BY <2>3, <3>3
      <4>3. /\ Count(t, cellq) \in Nat /\ Count(t, fnet) \in Nat
            /\ spw[t] \in Nat /\ sdw[t] \in Nat /\ SStart \in Nat
        BY <1>0
      <4>4. (w - n) + (Count(t, cellq) + n) + Count(t, fnet)
               + (SStart - sdw[t]) + k = SStart
        <5> DEFINE a == Count(t, cellq)
                   b == Count(t, fnet)
                   c == spw[t]
                   d == sdw[t]
        <5>1. /\ a \in Nat /\ b \in Nat /\ c \in Nat /\ d \in Nat
              /\ SStart \in Nat
          BY <4>3
        <5>2. c + a + b + (SStart - d) + j = SStart /\ c + j = w + k
          BY <2>2, <4>2
        <5> HIDE DEF a, b, c, d
        <5>3. (w - n) + (a + n) + b + (SStart - d) + k = SStart
          BY <2>1, <5>1, <5>2
        <5> QED  BY <5>3 DEF a, b, c, d
      <4> QED  BY <4>1, <4>4
    <3>4. CASE t # s
      <4>1. Count(t, cellq) = Count(t, cellq') /\ spw'[t] = spw[t]
        BY <1>0, <3>1, <3>2, <3>4
      <4>2. j = k
        BY <1>0, <2>1, <2>3, <3>4
      <4> QED  BY <2>2, <4>1, <4>2
    <3> QED  BY <3>3, <3>4
  <2> QED  BY <2>4 DEF k
<1>9. NeverKilled'
  <2>1. ~killed'
    BY Zenon DEF FlowInv, NeverKilled, Packs
  <2>2. cpw' >= 0 /\ cdw' >= 0
    BY <1>0 DEF Packs
  <2>3. \A t \in FStream : spw'[t] >= 0 /\ sdw'[t] >= 0
    <3>1. n <= w /\ sdw' = sdw
      BY DEF Packs
    <3> QED  BY <1>0, <1>3, <3>1
  <2> QED  BY <2>1, <2>2, <2>3 DEF NeverKilled
<1> QED  BY <1>4, <1>5, <1>6, <1>7, <1>8, <1>9 DEF FlowInv

\* How much is packaged is bounded by what there is and by both windows.
LEMMA FitsBounds ==
    ASSUME FlowInv, NEW s \in FStream, NEW have \in Nat, NEW max \in Nat
    PROVE  /\ Fits(s, have, max) \in Nat
           /\ Fits(s, have, max) <= have
           /\ Fits(s, have, max) <= spw[s]
           /\ Fits(s, have, max) <= cpw
<1>1. spw[s] \in Nat /\ cpw \in Nat
  BY FlowNumbers
<1>2. /\ Fits(s, have, max) \in {have, spw[s], cpw, max}
      /\ Fits(s, have, max) <= have /\ Fits(s, have, max) <= spw[s]
      /\ Fits(s, have, max) <= cpw
  <2>1. have \in Int /\ spw[s] \in Int /\ cpw \in Int /\ max \in Int
    BY <1>1
  <2> QED  BY <2>1, MinOfFour DEF Fits
<1> QED  BY <1>1, <1>2

\* The streams that read stay a function to BOOLEAN.
LEMMA ReadingAfterType ==
    ASSUME NEW s, NEW n, NEW max, NEW rd \in [FStream -> BOOLEAN]
    PROVE  ReadingAfter(s, n, max, rd) \in [FStream -> BOOLEAN]
  BY Zenon DEF ReadingAfter

\* Packaging leaves a natural in the inbox.
LEMMA InboxPackaged ==
    ASSUME FlowInv, NEW s \in FStream, NEW have \in Nat, NEW n \in Nat,
           n <= have, inb' = [inb EXCEPT ![s] = have - n]
    PROVE  inb' \in [FStream -> Nat]
  BY DEF FlowInv, FlowTypeOK

-----------------------------------------------------------------------------
(* The steps of the client that package *)

\* ReadApp keeps the invariant.
LEMMA ReadAppStep ==
    ASSUME FlowInv, NEW s \in FStream, NEW k \in 1 .. AppData, ReadApp(s, k)
    PROVE  FlowInv'
<1> DEFINE have == inb[s] + k
           n == Fits(s, have, NoMax)
<1>1. have \in Nat /\ NoMax \in Nat
  <2>1. inb[s] \in Nat /\ CStart \in Nat /\ AppData \in Nat
    BY FlowNumbers, FlowAssumption
  <2> QED  BY <2>1 DEF NoMax
<1>2. n \in Nat /\ n <= have /\ n <= spw[s] /\ n <= cpw
  BY <1>1, FitsBounds
<1>3. initWin # 0
  BY Zenon DEF ReadApp, FlowInv, NotOpenQuiet
<1>4. app' \in [FStream -> Nat]
  <2>1. k <= app[s] /\ app[s] \in Nat /\ app' = [app EXCEPT ![s] = app[s] - k]
    BY FlowNumbers DEF ReadApp
  <2>2. app[s] - k \in Nat
    BY <2>1, FlowAssumption
  <2> QED  BY <2>1, <2>2 DEF FlowInv, FlowTypeOK
<1>5. /\ inb' = [inb EXCEPT ![s] = have - n]
      /\ cpw' = cpw - n
      /\ spw' = [spw EXCEPT ![s] = spw[s] - n]
      /\ cellq' = cellq \o Cells(s, n)
      /\ blk' = (blk \/ (n > 0 /\ Len(cellq) + n >= QHigh))
      /\ reading' = ReadingAfter(s, n, NoMax, reading)
      /\ UNCHANGED <<initWin, fnet, sdw, cdw, xbuf, ended, back, killed, resume>>
  BY DEF ReadApp, Package, xvars
<1> HIDE DEF n, have
<1>6. inb' \in [FStream -> Nat]
  BY <1>1, <1>2, <1>5, InboxPackaged
<1>7. reading' \in [FStream -> BOOLEAN]
  BY <1>5, ReadingAfterType DEF FlowInv, FlowTypeOK
<1>8. back' \in Seq(BackCells) /\ resume' \in ResumeType
  BY <1>5 DEF FlowInv, FlowTypeOK, ResumeType
<1>9. Packs(s, n, spw[s])
  <2>1. \A t \in FStream : (IF t = s THEN spw[s] ELSE spw[t]) = spw[t]
    OBVIOUS
  <2>2. back' = back
    BY <1>5
  <2> QED  BY <1>2, <1>4, <1>5, <1>6, <1>7, <1>8, <2>1, <2>2 DEF Packs
<1>10. spw[s] \in Int
  BY FlowNumbers
<1> QED  BY <1>2, <1>3, <1>9, <1>10, PackageKeeps

\* A step that packages nothing and leaves the streams alone.
LEMMA ResumeOnlyStep ==
    ASSUME FlowInv, initWin # 0, resume' \in ResumeType,
           UNCHANGED <<initWin, app, inb, reading, spw, cpw, blk, cellq, xvars,
                       ended, back, killed>>
    PROVE  FlowInv'
<1>1. FlowTypeOK'
  BY DEF FlowInv, FlowTypeOK, ResumeType, xvars
<1>2. NotOpenQuiet'
  BY DEF NotOpenQuiet
<1>3. WindowsKept' /\ CircWindowConserved'
  BY DEF FlowInv, WindowsKept, CircWindowConserved, xvars
<1>4. StreamWindowConserved' /\ NeverKilled'
  BY DEF FlowInv, StreamWindowConserved, NeverKilled, xvars
<1> QED  BY <1>1, <1>2, <1>3, <1>4 DEF FlowInv

\* ResumeStream keeps the invariant.
LEMMA ResumeStreamStep ==
    ASSUME FlowInv, ResumeStream
    PROVE  FlowInv'
<1> DEFINE s == resume.at
           n == IF Resumable(s) THEN Fits(s, inb[s], resume.per) ELSE 0
<1>1. /\ resume \in ResumeType /\ s \in FStream /\ Resuming
      /\ UNCHANGED <<initWin, app, xvars, ended, back, killed>>
  BY DEF FlowInv, FlowTypeOK, ResumeType, ResumeStream
<1>2. initWin # 0
  BY <1>1 DEF FlowInv, NotOpenQuiet
<1>3. n \in Nat /\ (Resumable(s) => n <= inb[s] /\ n <= spw[s] /\ n <= cpw)
  <2>1. inb[s] \in Nat /\ resume.per \in Nat
    BY <1>1, FlowNumbers DEF ResumeType
  <2>2. CASE Resumable(s)
    <3>1. n = Fits(s, inb[s], resume.per)
      BY <2>2
    <3> HIDE DEF n, s
    <3> QED  BY <1>1, <2>1, <3>1, FitsBounds
  <2>3. CASE ~Resumable(s)
    BY <2>3
  <2> QED  BY <2>2, <2>3
<1>4. resume' \in ResumeType
  <2>1. resume' = IF Resumable(s) /\ cpw = n THEN NoResume
                  ELSE [resume EXCEPT
                          !.at = resume.at + 1,
                          !.done = resume.done + Counted(s, n),
                          !.left = resume.left
                             + IF Resumable(s) /\ inb[s] > n THEN 1 ELSE 0]
    BY DEF ResumeStream
  <2> HIDE DEF n
  <2>2. NoResume \in ResumeType
    BY DEF NoResume, ResumeType
  <2>3. CASE Resumable(s) /\ cpw = n
    BY <2>1, <2>2, <2>3
  <2>4. CASE ~(Resumable(s) /\ cpw = n)
    <3> DEFINE more == IF Resumable(s) /\ inb[s] > n THEN 1 ELSE 0
    <3>1. more \in Nat
      OBVIOUS
    <3>2. resume' = [resume EXCEPT !.at = resume.at + 1,
                                   !.done = resume.done + Counted(s, n),
                                   !.left = resume.left + more]
      BY <2>1, <2>4
    <3>3. Counted(s, n) \in Nat
      BY <1>3 DEF Counted
    <3> DEFINE cnt == Counted(s, n)
    <3> HIDE DEF more, s, cnt
    <3>4. /\ resume.at + 1 \in Nat /\ resume.done + cnt \in Nat
          /\ resume.left + more \in Nat
      BY <1>1, <3>1, <3>3 DEF ResumeType, cnt
    <3> QED  BY <1>1, <3>2, <3>4 DEF ResumeType, cnt
  <2> QED  BY <2>3, <2>4
<1>5. CASE Resumable(s)
  <2>1. /\ inb' = [inb EXCEPT ![s] = inb[s] - n]
        /\ cpw' = cpw - n
        /\ spw' = [spw EXCEPT ![s] = spw[s] - n]
        /\ cellq' = cellq \o Cells(s, n)
        /\ blk' = (blk \/ (n > 0 /\ Len(cellq) + n >= QHigh))
        /\ reading' = IF cpw = n THEN [t \in FStream |-> FALSE]
                      ELSE ReadingAfter(s, n, resume.per, reading)
    BY <1>5 DEF ResumeStream
  <2> HIDE DEF n, s
  <2>2. inb[s] \in Nat /\ spw[s] \in Int
    BY <1>1, FlowNumbers
  <2>3. inb' \in [FStream -> Nat]
    BY <1>1, <1>3, <1>5, <2>1, <2>2, InboxPackaged
  <2>4. reading' \in [FStream -> BOOLEAN]
    <3>1. ReadingAfter(s, n, resume.per, reading) \in [FStream -> BOOLEAN]
      BY ReadingAfterType DEF FlowInv, FlowTypeOK
    <3> QED  BY <2>1, <3>1
  <2>5. back' \in Seq(BackCells) /\ app' \in [FStream -> Nat]
    BY <1>1 DEF FlowInv, FlowTypeOK
  <2>6. Packs(s, n, spw[s])
    <3>1. \A t \in FStream : (IF t = s THEN spw[s] ELSE spw[t]) = spw[t]
      OBVIOUS
    <3>2. back' = back /\ UNCHANGED <<initWin, fnet, sdw, cdw, xbuf, ended, killed>>
      BY <1>1 DEF xvars
    <3>3. n <= cpw /\ n <= spw[s]
      BY <1>3, <1>5
    <3> QED  BY <1>4, <2>1, <2>3, <2>4, <2>5, <3>1, <3>2, <3>3 DEF Packs
  <2> QED  BY <1>1, <1>2, <1>3, <2>2, <2>6, PackageKeeps
<1>6. CASE ~Resumable(s)
  <2>1. UNCHANGED <<inb, cpw, spw, cellq, blk, reading>>
    BY <1>6 DEF ResumeStream
  <2> QED  BY <1>1, <1>2, <1>4, <2>1, ResumeOnlyStep
<1> QED  BY <1>5, <1>6

\* ResumeRound keeps the invariant.
LEMMA ResumeRoundStep ==
    ASSUME FlowInv, ResumeRound
    PROVE  FlowInv'
<1> DEFINE max == resume.max - resume.done
           per == (max + resume.left - 1) \div resume.left
<1>1. /\ resume \in ResumeType /\ Resuming
      /\ UNCHANGED <<initWin, app, inb, reading, spw, cpw, blk, cellq, xvars,
                     ended, back, killed>>
  BY DEF FlowInv, FlowTypeOK, ResumeType, ResumeRound
<1>2. initWin # 0
  BY <1>1 DEF FlowInv, NotOpenQuiet
<1>3. NoResume \in ResumeType
  BY DEF NoResume, ResumeType
<1>4. resume' \in ResumeType
  <2>1. CASE resume.done > 0 /\ max > 0 /\ resume.left > 0
    <3>1. max \in Int /\ max + resume.left - 1 \in Nat /\ resume.left \in Nat
      BY <1>1, <2>1 DEF ResumeType
    <3>2. per \in Nat
      <4> DEFINE sum == max + resume.left - 1
      <4> HIDE DEF sum, max
      <4>1. sum \in Nat /\ resume.left \in Nat /\ 0 < resume.left
        BY <2>1, <3>1 DEF sum
      <4>2. sum \div resume.left \in Nat
        BY <4>1, DivBounds
      <4> QED  BY <4>2 DEF sum
    <3>3. resume' = [NoResume EXCEPT !.at = 1, !.max = max, !.per = per]
      BY <2>1 DEF ResumeRound
    <3> HIDE DEF max, per
    <3> QED  BY <1>3, <3>1, <3>2, <3>3 DEF ResumeType
  <2>2. CASE ~(resume.done > 0 /\ max > 0 /\ resume.left > 0)
    BY <1>3, <2>2 DEF ResumeRound
  <2> QED  BY <2>1, <2>2
<1> QED  BY <1>1, <1>2, <1>4, ResumeOnlyStep

\* What taking a cell from the exit does to the counts.
LEMMA BackTaken ==
    ASSUME FlowInv, back # << >>, back' = Tail(back), NEW m
    PROVE  /\ initWin # 0
           /\ back' \in Seq(BackCells)
           /\ Count(m, back') \in Nat
           /\ Count(m, back) = Count(m, back') + IF Head(back) = m THEN 1 ELSE 0
<1>1. back \in Seq(BackCells) /\ initWin # 0
  BY DEF FlowInv, FlowTypeOK, NotOpenQuiet
<1>2. /\ Tail(back) \in Seq(BackCells)
      /\ Count(m, back)
            = Count(m, Tail(back)) + IF Head(back) = m THEN 1 ELSE 0
  BY <1>1, CountTail
<1>3. Count(m, Tail(back)) \in Nat
  BY <1>2, CountNat
<1> QED  BY <1>1, <1>2, <1>3

\* StreamSendme keeps the invariant.
LEMMA StreamSendmeStep ==
    ASSUME FlowInv, NEW s \in FStream, StreamSendme(s)
    PROVE  FlowInv'
<1> DEFINE w == spw[s] + SInc
           n == IF blk THEN 0 ELSE Min({inb[s], w, cpw})
<1>1. /\ back # << >> /\ Head(back) = StreamSendmeCell(s)
      /\ back' = Tail(back)
      /\ inb' = [inb EXCEPT ![s] = inb[s] - n]
      /\ cpw' = cpw - n
      /\ spw' = [spw EXCEPT ![s] = w - n]
      /\ cellq' = cellq \o Cells(s, n)
      /\ blk' = (blk \/ (n > 0 /\ Len(cellq) + n >= QHigh))
      /\ UNCHANGED <<initWin, fnet, sdw, cdw, xbuf, ended, killed, app, resume>>
  BY DEF StreamSendme, xvars
<1>2. inb[s] \in Nat /\ w \in Nat /\ cpw \in Nat /\ SInc \in Nat
  BY FlowNumbers
<1>3. n \in Nat /\ n <= inb[s] /\ n <= w /\ n <= cpw
  <2> HIDE DEF w
  <2>1. CASE blk
    BY <1>2, <2>1
  <2>2. CASE ~blk
    <3>1. inb[s] \in Int /\ w \in Int /\ cpw \in Int
      BY <1>2
    <3>2. /\ Min({inb[s], w, cpw}) \in {inb[s], w, cpw}
          /\ Min({inb[s], w, cpw}) <= inb[s] /\ Min({inb[s], w, cpw}) <= w
          /\ Min({inb[s], w, cpw}) <= cpw
      BY <3>1, MinOfThree
    <3> QED  BY <1>2, <2>2, <3>2
  <2> QED  BY <2>1, <2>2
<1>4. reading' \in [FStream -> BOOLEAN]
  BY Zenon DEF StreamSendme, FlowInv, FlowTypeOK
<1> HIDE DEF n
<1>5. inb' \in [FStream -> Nat]
  BY <1>1, <1>2, <1>3, InboxPackaged
<1>6. initWin # 0 /\ back' \in Seq(BackCells)
  BY <1>1, BackTaken
<1>7. Count(CircSendmeCell, back') = Count(CircSendmeCell, back)
  <2>1. Head(back) # CircSendmeCell
    BY <1>1, CellsDistinct
  <2>2. /\ Count(CircSendmeCell, back') \in Nat
        /\ Count(CircSendmeCell, back) = Count(CircSendmeCell, back')
             + IF Head(back) = CircSendmeCell THEN 1 ELSE 0
    BY <1>1, BackTaken
  <2> QED  BY <2>1, <2>2
<1>8. ASSUME NEW t \in FStream
      PROVE  (IF t = s THEN w ELSE spw[t])
                 + SInc * Count(StreamSendmeCell(t), back')
               = spw[t] + SInc * Count(StreamSendmeCell(t), back)
  <2> DEFINE k == Count(StreamSendmeCell(t), back')
  <2>1. /\ k \in Nat
        /\ Count(StreamSendmeCell(t), back)
             = k + IF Head(back) = StreamSendmeCell(t) THEN 1 ELSE 0
    BY <1>1, BackTaken
  <2>2. Head(back) = StreamSendmeCell(t) <=> t = s
    BY <1>1, CellsDistinct
  <2> HIDE DEF k
  <2>3. spw[t] \in Nat
    BY FlowNumbers
  <2>4. CASE t = s
    <3>1. Count(StreamSendmeCell(t), back) = k + 1
      BY <2>1, <2>2, <2>4
    <3>2. SInc * (k + 1) = SInc * k + SInc /\ SInc * k \in Nat
      BY <1>2, <2>1, Products
    <3>3. w = spw[t] + SInc
      BY <2>4
    <3>4. w + SInc * k = spw[t] + SInc * (k + 1)
      BY <1>2, <2>3, <3>2, <3>3
    <3> QED  BY <2>4, <3>1, <3>4 DEF k
  <2>5. CASE t # s
    <3>1. Count(StreamSendmeCell(t), back) = k
      BY <2>1, <2>2, <2>5
    <3> QED  BY <2>5, <3>1 DEF k
  <2> QED  BY <2>4, <2>5
<1> HIDE DEF w
<1>9. app' \in [FStream -> Nat] /\ resume' \in ResumeType
  BY <1>1 DEF FlowInv, FlowTypeOK, ResumeType
<1>10. Packs(s, n, w)
  BY <1>1, <1>3, <1>4, <1>5, <1>6, <1>7, <1>8, <1>9 DEF Packs
<1> QED  BY <1>2, <1>3, <1>6, <1>10, PackageKeeps

-----------------------------------------------------------------------------
(* The other steps *)

\* A circuit SENDME is never unexpected: it stands for CInc cells that are in
\* no window, so the client's window has room for them.
LEMMA CircSendmeStep ==
    ASSUME FlowInv, CircSendme
    PROVE  FlowInv'
<1> DEFINE k == Count(CircSendmeCell, back')
           wanting == {s \in FStream : Resumable(s) /\ inb[s] > 0}
           max == Min({initWin, QHigh - Len(cellq)})
           n == Cardinality(wanting)
<1>1. /\ back # << >> /\ Head(back) = CircSendmeCell
      /\ back' = Tail(back)
      /\ killed' = (killed \/ cpw + CInc > CStart)
      /\ cpw' = cpw + CInc
      /\ UNCHANGED <<initWin, app, inb, spw, blk, cellq, fnet, sdw, cdw, xbuf,
                     ended>>
  BY DEF CircSendme, xvars
<1>2. /\ IF blk
         THEN UNCHANGED <<reading, resume>>
         ELSE /\ reading' = [s \in FStream |-> reading[s] \/ Resumable(s)]
              /\ resume' = IF n = 0 THEN NoResume
                           ELSE [NoResume EXCEPT !.at = 1, !.max = max,
                                           !.per = (max + n - 1) \div n]
  BY DEF CircSendme
<1>3. /\ initWin # 0 /\ back' \in Seq(BackCells) /\ k \in Nat
      /\ Count(CircSendmeCell, back) = k + 1
  <2>1. Count(CircSendmeCell, back)
          = k + IF Head(back) = CircSendmeCell THEN 1 ELSE 0
    BY <1>1, BackTaken
  <2>2. initWin # 0 /\ back' \in Seq(BackCells) /\ k \in Nat
    BY <1>1, BackTaken
  <2> QED  BY <1>1, <2>1, <2>2
<1>4. resume' \in ResumeType
  <2>1. NoResume \in ResumeType
    BY DEF NoResume, ResumeType
  <2>2. CASE blk
    BY <1>2, <2>2 DEF FlowInv, FlowTypeOK, ResumeType
  <2>3. CASE ~blk /\ n = 0
    BY <1>2, <2>1, <2>3
  <2>4. CASE ~blk /\ n # 0
    <3>1. n \in Nat
      BY FlowAssumption, FS_Subset, FS_CardinalityType
    <3>2. max \in Nat
      <4>1. /\ Len(cellq) < QHigh /\ Len(cellq) \in Nat /\ QHigh \in Nat
            /\ initWin \in Nat
        BY <2>4, FlowNumbers DEF FlowInv, WindowsKept
      <4>2. initWin \in Int /\ QHigh - Len(cellq) \in Int
            /\ initWin >= 0 /\ QHigh - Len(cellq) >= 0
        BY <4>1
      <4>3. max \in {initWin, QHigh - Len(cellq)}
        BY <4>2, MinOfTwo
      <4> QED  BY <4>2, <4>3
    <3> HIDE DEF n, max
    <3>3. max + n - 1 \in Nat /\ 0 < n
      BY <2>4, <3>1, <3>2
    <3>4. (max + n - 1) \div n \in Nat
      <4> DEFINE sum == max + n - 1
      <4> HIDE DEF sum
      <4>1. sum \in Nat
        BY <3>3 DEF sum
      <4>2. sum \div n \in Nat
        BY <3>1, <3>3, <4>1, DivBounds
      <4> QED  BY <4>2 DEF sum
    <3>5. resume' = [NoResume EXCEPT !.at = 1, !.max = max,
                                     !.per = (max + n - 1) \div n]
      BY <1>2, <2>4
    <3> DEFINE per == (max + n - 1) \div n
    <3>6. per \in Nat /\ resume' = [NoResume EXCEPT !.at = 1, !.max = max,
                                                    !.per = per]
      BY <3>4, <3>5
    <3> HIDE DEF per
    <3>7. max \in Int
      BY <3>2
    <3> HIDE DEF wanting
    <3> QED  BY <2>1, <3>6, <3>7 DEF ResumeType
  <2> QED  BY <2>2, <2>3, <2>4
<1>5. reading' \in [FStream -> BOOLEAN]
  BY <1>2, Zenon DEF FlowInv, FlowTypeOK, Resumable
<1> HIDE DEF k
<1>6. /\ cpw \in Nat /\ cdw \in Nat /\ Len(cellq) \in Nat /\ Len(fnet) \in Nat
      /\ CStart \in Nat /\ CInc \in Nat /\ initWin \in Nat /\ initWin <= CStart
      /\ CInc * k \in Nat /\ CInc * (k + 1) = CInc * k + CInc
      /\ cdw <= CStart
  BY <1>3, FlowNumbers, Products DEF FlowInv, WindowsKept
<1>7. cpw + Len(cellq) + Len(fnet) + (CStart - cdw) + CInc * (k + 1) = initWin
  BY <1>3 DEF FlowInv, CircWindowConserved
<1>8. CircWindowConserved'
  <2>1. (cpw + CInc) + Len(cellq) + Len(fnet) + (CStart - cdw) + CInc * k
          = initWin
    BY <1>6, <1>7
  <2> QED  BY <1>1, <2>1 DEF CircWindowConserved, k
<1>9. cpw + CInc <= CStart
  BY <1>6, <1>7
<1>10. NeverKilled'
  <2>1. ~(cpw + CInc > CStart)
    BY <1>6, <1>9
  <2>2. ~killed'
    BY <1>1, <2>1, Zenon DEF FlowInv, NeverKilled
  <2>3. cpw' >= 0 /\ cdw' >= 0
    BY <1>1, <1>6
  <2> QED  BY <1>1, <2>2, <2>3 DEF FlowInv, NeverKilled
<1>11. StreamWindowConserved'
  <2> SUFFICES ASSUME NEW s \in FStream
               PROVE  Count(StreamSendmeCell(s), back')
                        = Count(StreamSendmeCell(s), back)
    BY <1>1 DEF FlowInv, StreamWindowConserved
  <2>1. Head(back) # StreamSendmeCell(s)
    BY <1>1, CellsDistinct
  <2>2. /\ Count(StreamSendmeCell(s), back') \in Nat
        /\ Count(StreamSendmeCell(s), back) = Count(StreamSendmeCell(s), back')
             + IF Head(back) = StreamSendmeCell(s) THEN 1 ELSE 0
    BY <1>1, BackTaken
  <2> QED  BY <2>1, <2>2
<1>12. FlowTypeOK'
  <2>1. killed' \in BOOLEAN /\ cpw' \in Int
    BY <1>1, <1>6
  <2> QED  BY <1>1, <1>3, <1>4, <1>5, <2>1 DEF FlowInv, FlowTypeOK, ResumeType
<1>13. NotOpenQuiet' /\ WindowsKept'
  BY <1>1, <1>3 DEF FlowInv, NotOpenQuiet, WindowsKept
<1> QED  BY <1>8, <1>10, <1>11, <1>12, <1>13 DEF FlowInv

\* EndArrives keeps the invariant.
LEMMA EndArrivesStep ==
    ASSUME FlowInv, NEW s \in FStream, EndArrives(s)
    PROVE  FlowInv'
<1>1. /\ back # << >> /\ Head(back) = EndCell(s)
      /\ back' = Tail(back)
      /\ ended' = [ended EXCEPT ![s] = "yes"]
      /\ app' = [app EXCEPT ![s] = 0]
      /\ inb' = [inb EXCEPT ![s] = 0]
      /\ reading' = [reading EXCEPT ![s] = FALSE]
      /\ UNCHANGED <<initWin, spw, cpw, blk, cellq, fnet, sdw, cdw, xbuf,
                     killed, resume>>
  BY DEF EndArrives, xvars
<1>2. initWin # 0 /\ back' \in Seq(BackCells)
  BY <1>1, BackTaken
<1>3. ASSUME NEW m, m # EndCell(s)
      PROVE  Count(m, back') = Count(m, back)
  <2>1. /\ Count(m, back') \in Nat
        /\ Count(m, back) = Count(m, back') + IF Head(back) = m THEN 1 ELSE 0
    BY <1>1, BackTaken
  <2> QED  BY <1>1, <1>3, <2>1
<1>4. FlowTypeOK'
  <2>1. reading' \in [FStream -> BOOLEAN]
    BY <1>1, Zenon DEF FlowInv, FlowTypeOK
  <2> QED  BY <1>1, <1>2, <2>1 DEF FlowInv, FlowTypeOK
<1>5. NotOpenQuiet' /\ WindowsKept' /\ NeverKilled'
  BY <1>1, <1>2 DEF FlowInv, NotOpenQuiet, WindowsKept, NeverKilled
<1>6. CircWindowConserved'
  <2>1. Count(CircSendmeCell, back') = Count(CircSendmeCell, back)
    BY <1>3, CellsDistinct
  <2> QED  BY <1>1, <2>1 DEF FlowInv, CircWindowConserved
<1>7. StreamWindowConserved'
  <2> SUFFICES ASSUME NEW t \in FStream, ended'[t] = "no"
               PROVE  spw[t] + Count(t, cellq) + Count(t, fnet)
                        + (SStart - sdw[t])
                        + SInc * Count(StreamSendmeCell(t), back') = SStart
    BY <1>1 DEF StreamWindowConserved
  <2>1. ended[t] = "no"
    BY <1>1 DEF FlowInv, FlowTypeOK
  <2>2. Count(StreamSendmeCell(t), back') = Count(StreamSendmeCell(t), back)
    BY <1>3, CellsDistinct
  <2> QED  BY <2>1, <2>2 DEF FlowInv, StreamWindowConserved
<1> QED  BY <1>4, <1>5, <1>6, <1>7 DEF FlowInv

\* CircuitOpen keeps the invariant.
LEMMA CircuitOpenStep ==
    ASSUME FlowInv, CircuitOpen
    PROVE  FlowInv'
<1>1. /\ initWin = 0 /\ initWin' \in CMin .. CStart
      /\ cpw' = initWin'
      /\ reading' = [s \in FStream |-> TRUE]
      /\ UNCHANGED <<app, inb, spw, blk, cellq, fnet, sdw, cdw, xbuf, ended,
                     back, killed, resume>>
  BY DEF CircuitOpen, xvars
<1>2. initWin' \in Nat /\ initWin' # 0
  BY <1>1, FlowAssumption
<1>3. FlowTypeOK'
  BY <1>1, <1>2 DEF FlowInv, FlowTypeOK
<1>4. NotOpenQuiet' /\ WindowsKept' /\ StreamWindowConserved'
  BY <1>1, <1>2 DEF FlowInv, NotOpenQuiet, WindowsKept, StreamWindowConserved
<1>5. NeverKilled'
  BY <1>1, <1>2 DEF FlowInv, NeverKilled
<1>6. CircWindowConserved'
  <2>1. cellq = << >> /\ fnet = << >> /\ back = << >> /\ cdw = CStart
    BY <1>1 DEF FlowInv, NotOpenQuiet
  <2>2. Len(cellq) = 0 /\ Len(fnet) = 0 /\ Count(CircSendmeCell, back) = 0
    BY <2>1, CountEmpty
  <2>3. CInc * 0 = 0 /\ CStart \in Nat
    BY FlowNumbers, Products
  <2>4. initWin' + 0 + 0 + (CStart - CStart) + CInc * 0 = initWin'
    BY <1>2, <2>3
  <2> QED  BY <1>1, <2>1, <2>2, <2>4 DEF CircWindowConserved
<1> QED  BY <1>3, <1>4, <1>5, <1>6 DEF FlowInv

\* FlushCell keeps the invariant.
LEMMA FlushCellStep ==
    ASSUME FlowInv, FlushCell
    PROVE  FlowInv'
<1> DEFINE unblock == blk /\ Len(cellq) - 1 <= QLow
           c == Head(cellq)
<1>1. /\ cellq # << >>
      /\ cellq' = Tail(cellq)
      /\ fnet' = Append(fnet, c)
      /\ blk' = (blk /\ ~unblock)
      /\ reading' = [t \in FStream |->
                       reading[t] \/ (unblock /\ ended[t] # "yes")]
      /\ UNCHANGED <<initWin, app, inb, spw, cpw, sdw, cdw, xbuf, ended, back,
                     killed, resume>>
  BY DEF FlushCell
<1>2. /\ cellq \in Seq(FStream) /\ fnet \in Seq(FStream) /\ initWin # 0
      /\ Len(fnet) \in Nat
  BY <1>1 DEF FlowInv, FlowTypeOK, NotOpenQuiet
<1>3. /\ c \in FStream /\ cellq' \in Seq(FStream)
      /\ Len(cellq) = Len(cellq') + 1 /\ Len(cellq') \in Nat
      /\ \A m : Count(m, cellq) = Count(m, cellq') + IF c = m THEN 1 ELSE 0
  BY <1>1, <1>2, CountTail
<1> HIDE DEF c
<1>4. /\ fnet' \in Seq(FStream) /\ Len(fnet') = Len(fnet) + 1
      /\ \A m : Count(m, fnet') = Count(m, fnet) + IF c = m THEN 1 ELSE 0
  <2>1. fnet' \in Seq(FStream) /\ Len(fnet') = Len(fnet) + 1
    BY <1>1, <1>2, <1>3, AppendProperties
  <2>2. \A m : Count(m, fnet') = Count(m, fnet) + IF c = m THEN 1 ELSE 0
    BY <1>1, <1>2, <1>3, CountAppend
  <2> QED  BY <2>1, <2>2
<1>5. \A t \in FStream :
         Count(t, cellq') + Count(t, fnet') = Count(t, cellq) + Count(t, fnet)
  <2> SUFFICES ASSUME NEW t \in FStream
               PROVE  Count(t, cellq') + Count(t, fnet')
                        = Count(t, cellq) + Count(t, fnet)
    OBVIOUS
  <2>1. Count(t, cellq') \in Nat /\ Count(t, fnet) \in Nat
    BY <1>2, <1>3, CountNat
  <2>2. /\ Count(t, cellq) = Count(t, cellq') + IF c = t THEN 1 ELSE 0
        /\ Count(t, fnet') = Count(t, fnet) + IF c = t THEN 1 ELSE 0
    BY <1>3, <1>4
  <2> QED  BY <2>1, <2>2
<1>6. FlowTypeOK'
  <2>1. blk' \in BOOLEAN /\ reading' \in [FStream -> BOOLEAN]
    <3>1. blk' \in BOOLEAN
      BY <1>1, Zenon
    <3>2. reading' \in [FStream -> BOOLEAN]
      BY <1>1, Zenon
    <3> QED  BY <3>1, <3>2
  <2> HIDE DEF unblock
  <2> QED  BY <1>1, <1>3, <1>4, <2>1 DEF FlowInv, FlowTypeOK
<1>7. NotOpenQuiet'
  BY <1>1, <1>2 DEF NotOpenQuiet
<1>8. WindowsKept'
  <2>1. ASSUME ~blk' PROVE Len(cellq') < QHigh
    <3>0. QHigh \in Nat /\ QLow \in Nat /\ QLow < QHigh
      BY FlowNumbers
    <3>1. CASE ~blk
      <4>1. Len(cellq) < QHigh
        BY <3>1, Zenon DEF FlowInv, WindowsKept
      <4> QED  BY <1>3, <3>0, <4>1
    <3>2. CASE blk
      <4>1. Len(cellq) - 1 <= QLow
        BY <1>1, <2>1, <3>2, Zenon
      <4> QED  BY <1>3, <3>0, <4>1
    <3> QED  BY <3>1, <3>2
  <2> QED  BY <1>1, <2>1 DEF FlowInv, WindowsKept
<1>9. CircWindowConserved'
  <2> DEFINE p == CInc * Count(CircSendmeCell, back)
  <2>1. /\ p \in Nat /\ cpw \in Nat /\ cdw \in Nat /\ CStart \in Nat
        /\ initWin \in Nat
    BY FlowNumbers, Products
  <2>2. cpw + Len(cellq) + Len(fnet) + (CStart - cdw) + p = initWin
    BY DEF FlowInv, CircWindowConserved
  <2>3. cpw' + Len(cellq') + Len(fnet') + (CStart - cdw') + p = initWin'
    <3> HIDE DEF p
    <3>1. cpw + Len(cellq') + (Len(fnet) + 1) + (CStart - cdw) + p = initWin
      BY <1>2, <1>3, <2>1, <2>2
    <3> QED  BY <1>1, <1>4, <3>1
  <2> QED  BY <1>1, <2>3 DEF CircWindowConserved
<1>10. StreamWindowConserved'
  <2> SUFFICES ASSUME NEW t \in FStream, ended[t] = "no"
               PROVE  spw[t] + Count(t, cellq') + Count(t, fnet')
                        + (SStart - sdw[t])
                        + SInc * Count(StreamSendmeCell(t), back) = SStart
    BY <1>1 DEF StreamWindowConserved
  <2> DEFINE p == SInc * Count(StreamSendmeCell(t), back)
             a == Count(t, cellq')
             b == Count(t, fnet')
             d == Count(t, cellq)
             e == Count(t, fnet)
             v == spw[t]
             z == sdw[t]
  <2>1. /\ p \in Nat /\ d \in Nat /\ e \in Nat /\ v \in Nat /\ z \in Nat
        /\ SStart \in Nat
    BY FlowNumbers, Products
  <2>2. a \in Nat /\ b \in Nat
    BY <1>3, <1>4, CountNat
  <2>3. a + b = d + e
    BY <1>5
  <2>4. v + d + e + (SStart - z) + p = SStart
    BY DEF FlowInv, StreamWindowConserved
  <2> HIDE DEF p, a, b, d, e, v, z
  <2>5. v + a + b + (SStart - z) + p = SStart
    BY <2>1, <2>2, <2>3, <2>4
  <2> QED  BY <2>5 DEF p, a, b, v, z
<1>11. NeverKilled'
  BY <1>1 DEF FlowInv, NeverKilled
<1> QED  BY <1>6, <1>7, <1>8, <1>9, <1>10, <1>11 DEF FlowInv

\* ExitEnds keeps the invariant.
LEMMA ExitEndsStep ==
    ASSUME FlowInv, NEW s \in FStream, ExitEnds(s)
    PROVE  FlowInv'
<1>1. /\ initWin > 0
      /\ ended' = [ended EXCEPT ![s] = "exit"]
      /\ xbuf' = [xbuf EXCEPT ![s] = 0]
      /\ back' = Append(back, EndCell(s))
      /\ UNCHANGED <<initWin, app, inb, reading, spw, cpw, blk, cellq, fnet,
                     sdw, cdw, killed, resume>>
  BY DEF ExitEnds
<1>2. back \in Seq(BackCells) /\ EndCell(s) \in BackCells
  BY DEF FlowInv, FlowTypeOK, BackCells
<1>3. back' \in Seq(BackCells)
  BY <1>1, <1>2, AppendProperties
<1>4. ASSUME NEW m, m # EndCell(s) PROVE Count(m, back') = Count(m, back)
  <2>1. Count(m, back') = Count(m, back) + IF EndCell(s) = m THEN 1 ELSE 0
    BY <1>1, <1>2, CountAppend
  <2>2. Count(m, back) \in Nat
    BY <1>2, CountNat
  <2> QED  BY <1>4, <2>1, <2>2
<1>5. FlowTypeOK'
  BY <1>1, <1>3 DEF FlowInv, FlowTypeOK
<1>6. NotOpenQuiet' /\ WindowsKept' /\ NeverKilled'
  <2>1. initWin' # 0
    BY <1>1, FlowNumbers
  <2> QED  BY <1>1, <2>1 DEF FlowInv, NotOpenQuiet, WindowsKept, NeverKilled
<1>7. CircWindowConserved'
  <2>1. Count(CircSendmeCell, back') = Count(CircSendmeCell, back)
    BY <1>4, CellsDistinct
  <2> QED  BY <1>1, <2>1 DEF FlowInv, CircWindowConserved
<1>8. StreamWindowConserved'
  <2> SUFFICES ASSUME NEW t \in FStream, ended'[t] = "no"
               PROVE  spw[t] + Count(t, cellq) + Count(t, fnet)
                        + (SStart - sdw[t])
                        + SInc * Count(StreamSendmeCell(t), back') = SStart
    BY <1>1 DEF StreamWindowConserved
  <2>1. ended[t] = "no"
    BY <1>1 DEF FlowInv, FlowTypeOK
  <2>2. Count(StreamSendmeCell(t), back') = Count(StreamSendmeCell(t), back)
    BY <1>4, CellsDistinct
  <2> QED  BY <2>1, <2>2 DEF FlowInv, StreamWindowConserved
<1> QED  BY <1>5, <1>6, <1>7, <1>8 DEF FlowInv

-----------------------------------------------------------------------------
(* The exit *)

\* The SENDMEs an exit owes never exceed what it has taken.
LEMMA SendmesBounds ==
    ASSUME FlowInv, NEW w \in Int, NEW n, w <= SStart
    PROVE  /\ StreamSendmes(w, n) \in Nat
           /\ StreamSendmes(w, n) * SInc \in Nat
           /\ StreamSendmes(w, n) * SInc <= SStart - w
<1>1. SStart - w \in Nat /\ SInc \in Nat /\ 0 < SInc /\ 0 * SInc = 0
  BY FlowNumbers
<1> DEFINE a == SStart - w
<1> HIDE DEF a
<1>2. a \in Nat /\ a = SStart - w
  BY <1>1 DEF a
<1>3. a \div SInc \in Nat /\ (a \div SInc) * SInc <= a
  BY <1>1, <1>2, DivBounds
<1>4. (a \div SInc) * SInc \in Nat
  BY <1>1, <1>3, Products
<1>5. StreamSendmes(w, n) = IF n > TooFull THEN 0 ELSE a \div SInc
  BY <1>2 DEF StreamSendmes
<1>6. CASE n > TooFull
  BY <1>1, <1>5, <1>6
<1>7. CASE ~(n > TooFull)
  BY <1>2, <1>3, <1>4, <1>5, <1>7
<1> QED  BY <1>6, <1>7

\* The exit has taken d cells of stream s from the network and sends k SENDMEs
\* for it: the stream's equation stays.
LEMMA StreamEquationKept ==
    ASSUME FlowInv, NEW s \in FStream, ended[s] = "no",
           NEW d \in Nat, NEW k \in Nat,
           Count(s, fnet) = Count(s, fnet') + d, Count(s, fnet') \in Nat,
           sdw'[s] = sdw[s] - d + k * SInc,
           Count(StreamSendmeCell(s), back')
               = Count(StreamSendmeCell(s), back) + k,
           UNCHANGED <<spw, cellq>>
    PROVE  spw'[s] + Count(s, cellq') + Count(s, fnet') + (SStart - sdw'[s])
               + SInc * Count(StreamSendmeCell(s), back') = SStart
<1> DEFINE j == Count(StreamSendmeCell(s), back)
           v == spw[s]
           q == Count(s, cellq)
           f == Count(s, fnet')
           z == sdw[s]
           r == k * SInc
           p == SInc * j
<1>1. /\ j \in Nat /\ v \in Nat /\ q \in Nat /\ f \in Nat /\ z \in Nat
      /\ SStart \in Nat /\ SInc \in Nat
  BY FlowNumbers
<1>2. SInc * (j + k) = p + r /\ p \in Nat /\ r \in Nat
  BY <1>1, Products
<1>3. v + q + (f + d) + (SStart - z) + p = SStart
  BY DEF FlowInv, StreamWindowConserved
<1>4. sdw'[s] = z - d + r /\ Count(StreamSendmeCell(s), back') = j + k
  OBVIOUS
<1> HIDE DEF j, v, q, f, z, r, p
<1>5. v + q + f + (SStart - (z - d + r)) + (p + r) = SStart
  BY <1>1, <1>2, <1>3
<1>6. v + q + f + (SStart - sdw'[s]) + SInc * (j + k) = SStart
  BY <1>2, <1>4, <1>5
<1> QED  BY <1>4, <1>6 DEF v, q, f

\* ExitFlush keeps the invariant.
LEMMA ExitFlushStep ==
    ASSUME FlowInv, NEW s \in FStream, ExitFlush(s)
    PROVE  FlowInv'
<1> DEFINE k == StreamSendmes(sdw[s], xbuf[s] - 1)
<1>1. /\ ended[s] = "no" /\ xbuf[s] > 0
      /\ xbuf' = [xbuf EXCEPT ![s] = xbuf[s] - 1]
      /\ sdw' = [sdw EXCEPT ![s] = sdw[s] + k * SInc]
      /\ back' = back \o Cells(StreamSendmeCell(s), k)
      /\ UNCHANGED <<initWin, app, inb, reading, spw, cpw, blk, cellq, fnet,
                     cdw, ended, killed, resume>>
  BY DEF ExitFlush
<1>2. sdw[s] \in Nat /\ sdw[s] <= SStart /\ xbuf[s] \in Nat /\ SStart \in Nat
  BY FlowNumbers DEF FlowInv, WindowsKept
<1>3. k \in Nat /\ k * SInc \in Nat /\ k * SInc <= SStart - sdw[s]
  BY <1>2, SendmesBounds
<1> HIDE DEF k
<1>4. back \in Seq(BackCells) /\ StreamSendmeCell(s) \in BackCells
  BY DEF FlowInv, FlowTypeOK, BackCells
<1>5. back' \in Seq(BackCells)
  BY <1>1, <1>3, <1>4, BackAdded
<1>6. \A m : Count(m, back')
               = Count(m, back) + IF StreamSendmeCell(s) = m THEN k ELSE 0
  BY <1>1, <1>3, <1>4, BackAdded
<1>7. initWin # 0
  <2>1. xbuf[s] # 0
    BY <1>1
  <2> QED  BY <2>1 DEF FlowInv, NotOpenQuiet
<1>8. \A t \in FStream : sdw'[t] = IF t = s THEN sdw[s] + k * SInc ELSE sdw[t]
  BY <1>1 DEF FlowInv, FlowTypeOK
<1>9. FlowTypeOK'
  <2>1. xbuf' \in [FStream -> Nat]
    BY <1>1, <1>2 DEF FlowInv, FlowTypeOK
  <2>2. sdw' \in [FStream -> Int]
    <3>1. sdw[s] + k * SInc \in Int
      BY <1>2, <1>3
    <3> QED  BY <1>1, <3>1 DEF FlowInv, FlowTypeOK
  <2> QED  BY <1>1, <1>5, <2>1, <2>2 DEF FlowInv, FlowTypeOK
<1>10. NotOpenQuiet'
  BY <1>1, <1>7 DEF NotOpenQuiet
<1>11. \A t \in FStream : sdw'[t] >= 0 /\ sdw'[t] <= SStart
  <2>1. sdw[s] + k * SInc >= 0 /\ sdw[s] + k * SInc <= SStart
    <3> DEFINE r == k * SInc
    <3> HIDE DEF r
    <3>1. r \in Nat /\ r <= SStart - sdw[s]
      BY <1>3 DEF r
    <3>2. sdw[s] + r >= 0 /\ sdw[s] + r <= SStart
      BY <1>2, <3>1
    <3> QED  BY <3>2 DEF r
  <2>2. \A t \in FStream : sdw[t] >= 0 /\ sdw[t] <= SStart
    BY DEF FlowInv, WindowsKept, NeverKilled
  <2> QED  BY <1>8, <2>1, <2>2
<1>12. WindowsKept' /\ NeverKilled'
  BY <1>1, <1>11 DEF FlowInv, WindowsKept, NeverKilled
<1>13. CircWindowConserved'
  <2>1. Count(CircSendmeCell, back') = Count(CircSendmeCell, back)
    <3>1. CircSendmeCell # StreamSendmeCell(s)
      BY CellsDistinct
    <3>2. Count(CircSendmeCell, back) \in Nat
      BY FlowNumbers
    <3> QED  BY <1>6, <3>1, <3>2
  <2> QED  BY <1>1, <2>1 DEF FlowInv, CircWindowConserved
<1>14. StreamWindowConserved'
  <2> SUFFICES ASSUME NEW t \in FStream, ended[t] = "no"
               PROVE  spw'[t] + Count(t, cellq') + Count(t, fnet')
                        + (SStart - sdw'[t])
                        + SInc * Count(StreamSendmeCell(t), back') = SStart
    BY <1>1 DEF StreamWindowConserved
  <2>1. CASE t = s
    <3>1. /\ Count(s, fnet) = Count(s, fnet') + 0 /\ Count(s, fnet') \in Nat
      BY <1>1, FlowNumbers
    <3>2. sdw'[s] = sdw[s] - 0 + k * SInc
      BY <1>2, <1>3, <1>8
    <3>3. Count(StreamSendmeCell(s), back')
            = Count(StreamSendmeCell(s), back) + k
      BY <1>6
    <3>4. spw'[s] + Count(s, cellq') + Count(s, fnet') + (SStart - sdw'[s])
            + SInc * Count(StreamSendmeCell(s), back') = SStart
      BY <1>1, <1>3, <3>1, <3>2, <3>3, StreamEquationKept
    <3> QED  BY <2>1, <3>4
  <2>2. CASE t # s
    <3>1. Count(StreamSendmeCell(t), back') = Count(StreamSendmeCell(t), back)
      <4>1. StreamSendmeCell(s) # StreamSendmeCell(t)
        BY <2>2, CellsDistinct
      <4>2. Count(StreamSendmeCell(t), back) \in Nat
        BY FlowNumbers
      <4> QED  BY <1>6, <4>1, <4>2
    <3>2. sdw'[t] = sdw[t]
      BY <1>8, <2>2
    <3> QED  BY <1>1, <3>1, <3>2 DEF FlowInv, StreamWindowConserved
  <2> QED  BY <2>1, <2>2
<1> QED  BY <1>9, <1>10, <1>12, <1>13, <1>14 DEF FlowInv

\* A DATA cell always finds both deliver windows open: the circuit's because
\* its SENDMEs go out in time, the stream's because the cell itself is counted
\* in the stream's equation.
LEMMA ExitDataStep ==
    ASSUME FlowInv, ExitData
    PROVE  FlowInv'
<1> DEFINE s == Head(fnet)
           c == CircSendmes(cdw - 1)
           k == StreamSendmes(sdw[s] - 1, xbuf[s] + 1)
           first == back \o Cells(CircSendmeCell, c)
           live == ended[s] = "no"
<1>1. /\ fnet # << >>
      /\ fnet' = Tail(fnet)
      /\ killed' = (killed \/ cdw = 0 \/ (live /\ sdw[s] = 0))
      /\ cdw' = cdw - 1 + c * CInc
      /\ IF live
         THEN /\ xbuf' = [xbuf EXCEPT ![s] = xbuf[s] + 1]
              /\ sdw' = [sdw EXCEPT ![s] = sdw[s] - 1 + k * SInc]
              /\ back' = first \o Cells(StreamSendmeCell(s), k)
         ELSE back' = first /\ UNCHANGED <<xbuf, sdw>>
      /\ UNCHANGED <<initWin, app, inb, reading, spw, cpw, blk, cellq, ended,
                     resume>>
  BY DEF ExitData
<1>2. /\ fnet \in Seq(FStream) /\ back \in Seq(BackCells) /\ initWin # 0
      /\ sdw \in [FStream -> Int] /\ xbuf \in [FStream -> Nat]
  BY <1>1 DEF FlowInv, FlowTypeOK, NotOpenQuiet
<1>3. /\ s \in FStream /\ fnet' \in Seq(FStream)
      /\ Len(fnet) = Len(fnet') + 1 /\ Len(fnet') \in Nat
      /\ \A m : Count(m, fnet) = Count(m, fnet') + IF s = m THEN 1 ELSE 0
  BY <1>1, <1>2, CountTail
<1> HIDE DEF s
<1>4. \A t \in FStream : Count(t, fnet') \in Nat
  BY <1>3, CountNat
<1>5. /\ cdw \in Nat /\ CStart \in Nat /\ CInc \in Nat /\ 0 < CInc
      /\ CStart - CInc < cdw /\ cdw <= CStart /\ CInc <= CStart
      /\ sdw[s] \in Nat /\ sdw[s] <= SStart /\ SStart \in Nat
      /\ xbuf[s] \in Nat
  BY <1>3, FlowNumbers DEF FlowInv, WindowsKept
<1>6. cdw >= 1
  BY <1>5
<1>7. live => sdw[s] >= 1
  <2> SUFFICES ASSUME live PROVE sdw[s] >= 1
    OBVIOUS
  <2> DEFINE p == SInc * Count(StreamSendmeCell(s), back)
             v == spw[s]
             q == Count(s, cellq)
             f == Count(s, fnet')
             z == sdw[s]
  <2>1. p \in Nat /\ v \in Nat /\ q \in Nat /\ f \in Nat /\ z \in Nat
    BY <1>3, <1>4, FlowNumbers, Products
  <2>2. Count(s, fnet) = f + 1
    BY <1>3
  <2>3. v + q + (f + 1) + (SStart - z) + p = SStart
    BY <1>3, <2>2 DEF FlowInv, StreamWindowConserved
  <2> HIDE DEF p, v, q, f, z
  <2>4. z >= 1
    BY <1>5, <2>1, <2>3
  <2> QED  BY <2>4 DEF z
<1>8. /\ c \in Nat /\ c * CInc \in Nat
      /\ c * CInc <= CStart - cdw + 1
      /\ CStart - cdw + 1 < c * CInc + CInc
  <2> DEFINE a == CStart - (cdw - 1)
  <2>1. a \in Nat /\ a = CStart - cdw + 1 /\ c = a \div CInc
    BY <1>5 DEF CircSendmes
  <2> HIDE DEF a, c
  <2>2. a \div CInc \in Nat /\ (a \div CInc) * CInc <= a
        /\ a < (a \div CInc) * CInc + CInc
    BY <1>5, <2>1, DivBounds
  <2>3. c * CInc \in Nat
    BY <1>5, <2>1, <2>2, Products
  <2> QED  BY <2>1, <2>2, <2>3
<1>9. /\ k \in Nat /\ k * SInc \in Nat
      /\ k * SInc <= SStart - (sdw[s] - 1)
  <2>1. sdw[s] - 1 \in Int /\ sdw[s] - 1 <= SStart
    BY <1>5
  <2> QED  BY <2>1, SendmesBounds
<1> HIDE DEF c, k
<1>10. /\ CircSendmeCell \in BackCells /\ StreamSendmeCell(s) \in BackCells
  BY <1>3 DEF BackCells
<1>11. first \in Seq(BackCells)
  BY <1>2, <1>8, <1>10, BackAdded
<1>12. \A m : Count(m, first)
                = Count(m, back) + IF CircSendmeCell = m THEN c ELSE 0
  BY <1>2, <1>8, <1>10, BackAdded
<1> HIDE DEF first
<1>13. /\ back' \in Seq(BackCells)
       /\ \A m : Count(m, back') = Count(m, first)
                   + IF live /\ StreamSendmeCell(s) = m THEN k ELSE 0
  <2>1. CASE live
    <3>1. back' = first \o Cells(StreamSendmeCell(s), k)
      BY <1>1, <2>1
    <3>2. /\ back' \in Seq(BackCells)
          /\ \A m : Count(m, back') = Count(m, first)
                      + IF StreamSendmeCell(s) = m THEN k ELSE 0
      BY <1>9, <1>10, <1>11, <3>1, BackAdded
    <3> QED  BY <2>1, <3>2
  <2>2. CASE ~live
    <3>1. back' = first
      BY <1>1, <2>2
    <3>2. \A m : Count(m, first) \in Nat
      BY <1>11, CountNat
    <3>3. \A m : Count(m, first) = Count(m, first) + 0
      BY <3>2
    <3> HIDE DEF live
    <3> QED  BY <1>11, <2>2, <3>1, <3>3
  <2> QED  BY <2>1, <2>2
<1>14. ~killed'
  <2>1. cdw # 0 /\ ~(live /\ sdw[s] = 0)
    BY <1>5, <1>6, <1>7
  <2>2. ~killed
    BY DEF FlowInv, NeverKilled
  <2> QED  BY <1>1, <2>1, <2>2, Zenon
<1>15. cdw' \in Nat /\ CStart - CInc < cdw' /\ cdw' <= CStart
  <2> DEFINE r == c * CInc
  <2> HIDE DEF r
  <2>1. /\ r \in Nat /\ r <= CStart - cdw + 1 /\ CStart - cdw + 1 < r + CInc
        /\ cdw' = cdw - 1 + r
    BY <1>1, <1>8 DEF r
  <2> QED  BY <1>5, <1>6, <2>1
<1>16. \A t \in FStream :
          sdw'[t] = IF live /\ t = s THEN sdw[s] - 1 + k * SInc ELSE sdw[t]
  <2>1. CASE live
    BY <1>1, <1>2, <2>1
  <2>2. CASE ~live
    BY <1>1, <2>2
  <2> QED  BY <2>1, <2>2
<1>17. /\ sdw' \in [FStream -> Int] /\ xbuf' \in [FStream -> Nat]
       /\ \A t \in FStream : sdw'[t] >= 0 /\ sdw'[t] <= SStart
  <2>1. \A t \in FStream : sdw[t] >= 0 /\ sdw[t] <= SStart
    BY DEF FlowInv, WindowsKept, NeverKilled
  <2>2. CASE live
    <3> DEFINE r == k * SInc
               z == sdw[s] - 1 + r
    <3>1. r \in Nat /\ r <= SStart - (sdw[s] - 1)
      BY <1>9
    <3> HIDE DEF r
    <3>2. z \in Int /\ z >= 0 /\ z <= SStart
      BY <1>5, <1>7, <2>2, <3>1
    <3>3. sdw' = [sdw EXCEPT ![s] = z] /\ xbuf' = [xbuf EXCEPT ![s] = xbuf[s] + 1]
      BY <1>1, <2>2 DEF r
    <3> HIDE DEF z
    <3>4. xbuf[s] + 1 \in Nat
      BY <1>5
    <3>5. \A t \in FStream : sdw'[t] = IF t = s THEN z ELSE sdw[t]
      BY <1>2, <3>3
    <3>6. sdw' \in [FStream -> Int] /\ xbuf' \in [FStream -> Nat]
      BY <1>2, <3>2, <3>3, <3>4
    <3> QED  BY <2>1, <3>2, <3>5, <3>6
  <2>3. CASE ~live
    BY <1>1, <1>2, <2>1, <2>3
  <2> QED  BY <2>2, <2>3
<1>18. FlowTypeOK'
  <2>0. killed' \in BOOLEAN
    BY <1>1, Zenon
  <2>1. killed' \in BOOLEAN /\ cdw' \in Int
    BY <1>15, <2>0
  <2> QED  BY <1>1, <1>3, <1>13, <1>17, <2>1 DEF FlowInv, FlowTypeOK
<1>19. NotOpenQuiet' /\ WindowsKept' /\ NeverKilled'
  <2>1. NotOpenQuiet'
    BY <1>1, <1>2 DEF NotOpenQuiet
  <2>2. WindowsKept'
    BY <1>1, <1>15, <1>17 DEF FlowInv, WindowsKept
  <2>3. NeverKilled'
    <3>1. cdw' >= 0
      BY <1>15
    <3> QED  BY <1>1, <1>14, <1>17, <3>1 DEF FlowInv, NeverKilled
  <2> QED  BY <2>1, <2>2, <2>3
<1>20. CircWindowConserved'
  <2> DEFINE j == Count(CircSendmeCell, back)
             p == CInc * j
             r == c * CInc
             q == Len(cellq)
             f == Len(fnet')
  <2>1. /\ j \in Nat /\ p \in Nat /\ r \in Nat /\ q \in Nat /\ f \in Nat
        /\ cpw \in Nat /\ initWin \in Nat /\ CInc * (j + c) = p + r
    <3>1. j \in Nat /\ q \in Nat /\ f \in Nat /\ cpw \in Nat /\ initWin \in Nat
      BY <1>3, FlowNumbers
    <3>2. p \in Nat /\ r \in Nat /\ CInc * (j + c) = p + r
      <4> HIDE DEF j
      <4> QED  BY <1>5, <1>8, <3>1, Products
    <3> QED  BY <3>1, <3>2
  <2>2. Count(CircSendmeCell, back') = j + c
    <3>1. CircSendmeCell # StreamSendmeCell(s)
      BY CellsDistinct
    <3>2. Count(CircSendmeCell, first) = j + c
      BY <1>12
    <3>3. Count(CircSendmeCell, back') = Count(CircSendmeCell, first) + 0
      BY <1>13, <3>1
    <3> HIDE DEF j
    <3> QED  BY <1>8, <2>1, <3>2, <3>3
  <2>3. cpw + q + (f + 1) + (CStart - cdw) + p = initWin
    BY <1>3 DEF FlowInv, CircWindowConserved
  <2>4. cdw' = cdw - 1 + r
    BY <1>1
  <2> HIDE DEF j, p, r, q, f
  <2>5. cpw + q + f + (CStart - (cdw - 1 + r)) + (p + r) = initWin
    BY <1>5, <2>1, <2>3
  <2>6. cpw + q + f + (CStart - cdw') + CInc * (j + c) = initWin
    BY <2>1, <2>4, <2>5
  <2> QED  BY <1>1, <2>2, <2>6 DEF CircWindowConserved, q, f
<1>21. StreamWindowConserved'
  <2> SUFFICES ASSUME NEW t \in FStream, ended[t] = "no"
               PROVE  spw'[t] + Count(t, cellq') + Count(t, fnet')
                        + (SStart - sdw'[t])
                        + SInc * Count(StreamSendmeCell(t), back') = SStart
    BY <1>1 DEF StreamWindowConserved
  <2>0. Count(StreamSendmeCell(t), first) = Count(StreamSendmeCell(t), back)
    <3>1. CircSendmeCell # StreamSendmeCell(t)
      BY CellsDistinct
    <3>2. Count(StreamSendmeCell(t), back) \in Nat
      BY FlowNumbers
    <3> QED  BY <1>12, <3>1, <3>2
  <2>1. CASE t = s
    <3>1. live
      BY <2>1
    <3>2. Count(s, fnet) = Count(s, fnet') + 1 /\ Count(s, fnet') \in Nat
      BY <1>3, <1>4
    <3>3. sdw'[s] = sdw[s] - 1 + k * SInc
      BY <1>3, <1>16, <3>1
    <3>4. Count(StreamSendmeCell(s), back')
            = Count(StreamSendmeCell(s), back) + k
      BY <1>13, <2>0, <2>1, <3>1
    <3>5. spw'[s] + Count(s, cellq') + Count(s, fnet') + (SStart - sdw'[s])
            + SInc * Count(StreamSendmeCell(s), back') = SStart
      BY <1>1, <1>3, <1>9, <3>1, <3>2, <3>3, <3>4, StreamEquationKept
    <3> QED  BY <2>1, <3>5
  <2>2. CASE t # s
    <3>1. Count(StreamSendmeCell(t), back') = Count(StreamSendmeCell(t), back)
      <4>1. StreamSendmeCell(s) # StreamSendmeCell(t)
        BY <2>2, CellsDistinct
      <4>2. Count(StreamSendmeCell(t), back) \in Nat
        BY FlowNumbers
      <4> QED  BY <1>13, <2>0, <4>1, <4>2
    <3>2. sdw'[t] = sdw[t]
      BY <1>16, <2>2
    <3>3. Count(t, fnet') = Count(t, fnet)
      BY <1>3, <1>4, <2>2
    <3> QED  BY <1>1, <3>1, <3>2, <3>3 DEF FlowInv, StreamWindowConserved
  <2> QED  BY <2>1, <2>2
<1> QED  BY <1>18, <1>19, <1>20, <1>21 DEF FlowInv

-----------------------------------------------------------------------------
(* The theorems *)

\* The circuit starts in the invariant.
LEMMA FlowInitInv ==
    ASSUME FlowInit
    PROVE  FlowInv
<1>1. /\ {CStart, CMin, CInc, SStart, SInc, QHigh, AppData} \subseteq Nat
      /\ 0 < CInc /\ 0 < QHigh
  BY FlowAssumption
<1>2. FlowTypeOK
  <2>1. /\ initWin \in {0} \cup CMin .. CStart /\ cpw \in Int /\ cdw \in Int
        /\ app \in [FStream -> Nat] /\ inb \in [FStream -> Nat]
        /\ spw \in [FStream -> Int] /\ sdw \in [FStream -> Int]
        /\ xbuf \in [FStream -> Nat]
    BY <1>1 DEF FlowInit
  <2>2. /\ reading \in [FStream -> BOOLEAN] /\ blk \in BOOLEAN
        /\ killed \in BOOLEAN /\ ended \in [FStream -> {"no", "exit", "yes"}]
    BY Zenon DEF FlowInit
  <2>3. cellq \in Seq(FStream) /\ fnet \in Seq(FStream) /\ back \in Seq(BackCells)
    BY DEF FlowInit
  <2>4. resume \in [at : Nat, max : Int, per : Nat, done : Nat, left : Nat]
    BY DEF FlowInit, NoResume
  <2> QED  BY <2>1, <2>2, <2>3, <2>4 DEF FlowTypeOK
<1>3. NotOpenQuiet
  BY DEF FlowInit, NotOpenQuiet, Resuming
<1>4. WindowsKept /\ NeverKilled
  <2>1. Len(cellq) = 0
    BY DEF FlowInit
  <2> QED  BY <1>1, <2>1 DEF FlowInit, WindowsKept, NeverKilled
<1>5. CircWindowConserved
  <2>1. Len(cellq) = 0 /\ Len(fnet) = 0 /\ Count(CircSendmeCell, back) = 0
    BY CountEmpty DEF FlowInit
  <2>2. CInc * 0 = 0
    BY <1>1
  <2>3. cpw = 0 /\ cdw = CStart /\ initWin = 0
    BY DEF FlowInit
  <2> QED  BY <1>1, <2>1, <2>2, <2>3 DEF CircWindowConserved
<1>6. StreamWindowConserved
  <2> SUFFICES ASSUME NEW s \in FStream
               PROVE  spw[s] + Count(s, cellq) + Count(s, fnet)
                        + (SStart - sdw[s])
                        + SInc * Count(StreamSendmeCell(s), back) = SStart
    BY DEF StreamWindowConserved
  <2>1. Count(s, cellq) = 0 /\ Count(s, fnet) = 0
        /\ Count(StreamSendmeCell(s), back) = 0
    BY CountEmpty DEF FlowInit
  <2>2. SInc * 0 = 0 /\ spw[s] = SStart /\ sdw[s] = SStart
    BY <1>1 DEF FlowInit
  <2> QED  BY <1>1, <2>1, <2>2
<1> QED  BY <1>2, <1>3, <1>4, <1>5, <1>6 DEF FlowInv

\* Every step keeps the invariant.
LEMMA FlowStep ==
    ASSUME FlowInv, [FlowNext]_flowVars
    PROVE  FlowInv'
<1>1. ASSUME NEW s \in FStream, ReadSome(s) PROVE FlowInv'
  BY <1>1, ReadAppStep DEF ReadSome
<1>2. ASSUME NEW s \in FStream, ExitFlush(s) PROVE FlowInv'
  BY <1>2, ExitFlushStep
<1>3. ASSUME NEW s \in FStream, ExitEnds(s) PROVE FlowInv'
  BY <1>3, ExitEndsStep
<1>4. CASE CircuitOpen
  BY <1>4, CircuitOpenStep
<1>5. CASE FlushCell
  BY <1>5, FlushCellStep
<1>6. CASE ExitData
  BY <1>6, ExitDataStep
<1>7. CASE CircSendme
  BY <1>7, CircSendmeStep
<1>8. ASSUME NEW s \in FStream, EndArrives(s) PROVE FlowInv'
  BY <1>8, EndArrivesStep
<1>9. ASSUME NEW s \in FStream, StreamSendme(s) PROVE FlowInv'
  BY <1>9, StreamSendmeStep
<1>10. CASE ResumeStream
  BY <1>10, ResumeStreamStep
<1>11. CASE ResumeRound
  BY <1>11, ResumeRoundStep
<1>12. CASE UNCHANGED flowVars
  <2>1. UNCHANGED <<initWin, app, inb, reading, spw, cpw, blk, cellq, fnet,
                    sdw, cdw, xbuf, ended, back, killed, resume>>
    BY <1>12 DEF flowVars, xvars
  <2>2. FlowTypeOK' /\ NotOpenQuiet' /\ WindowsKept'
    BY <2>1 DEF FlowInv, FlowTypeOK, NotOpenQuiet, WindowsKept, Resuming
  <2>3. CircWindowConserved' /\ StreamWindowConserved' /\ NeverKilled'
    BY <2>1 DEF FlowInv, CircWindowConserved, StreamWindowConserved, NeverKilled
  <2> QED  BY <2>2, <2>3 DEF FlowInv
<1> QED
  BY <1>1, <1>2, <1>3, <1>4, <1>5, <1>6, <1>7, <1>8, <1>9, <1>10, <1>11, <1>12
     DEF FlowNext, HandleBack

\* The inductive invariant of a circuit's flow control: both windows'
\* equations, the bounds of the deliver windows and the queue's mark.
THEOREM FlowInvHolds == FlowSpec => []FlowInv
<1>1. FlowInit => FlowInv
  BY FlowInitInv
<1>2. FlowInv /\ [FlowNext]_flowVars => FlowInv'
  BY FlowStep
<1> QED  BY <1>1, <1>2, PTL DEF FlowSpec

\* The variables keep their types, for any sizes of windows and queues: the
\* share of each stream in a round of resuming is a number of cells.
THEOREM FlowTypes == FlowSpec => []FlowTypeOK
<1>1. FlowInv => FlowTypeOK
  BY DEF FlowInv
<1> QED  BY <1>1, FlowInvHolds, PTL

\* No cell of the circuit's package window ever leaks: it is in the window,
\* queued, under way, unacknowledged or in a SENDME, also after streams end.
THEOREM CircuitWindowNeverLeaks == FlowSpec => []CircWindowConserved
<1>1. FlowInv => CircWindowConserved
  BY DEF FlowInv
<1> QED  BY <1>1, FlowInvHolds, PTL

\* Nor does one of a stream's, until the exit ends the stream.
THEOREM StreamWindowNeverLeaks == FlowSpec => []StreamWindowConserved
<1>1. FlowInv => StreamWindowConserved
  BY DEF FlowInv
<1> QED  BY <1>1, FlowInvHolds, PTL

\* Two ends that follow the code never close the circuit for a window that
\* underflows or for an unexpected SENDME.
THEOREM CircuitNeverKilled == FlowSpec => []NeverKilled
<1>1. FlowInv => NeverKilled
  BY DEF FlowInv
<1> QED  BY <1>1, FlowInvHolds, PTL

=============================================================================
