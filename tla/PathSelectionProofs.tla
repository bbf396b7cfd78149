------------------------ MODULE PathSelectionProofs ------------------------
(* Proofs that the scan of AttackMatrix counts the attacker-free pairs      *)
(* right, that its matrix is sound and fits its allocation, and that the    *)
(* pair circuit_establish_circuit uses is one it may use: for any relays,   *)
(* lists of ASes, weights and answers of the LP.                            *)
EXTENDS PathSelection, TLAPS

-----------------------------------------------------------------------------
(* The scan *)

\* Integer division stays below the factor: used for x = pnum / exits.
LEMMA DivBound ==
    ASSUME NEW n \in Nat \ {0}, NEW m \in Nat \ {0}, NEW k \in Nat, k < m * n
    PROVE  k \div n \in 0 .. m - 1
<1> DEFINE q == k \div n
<1>1. q \in Nat /\ n * q <= k
  BY Z3
<1>2. ASSUME q >= m PROVE FALSE
  <2>1. PICK d \in Nat : q = m + d
    <3>1. q - m \in Nat /\ q = m + (q - m)
      BY <1>1, <1>2
    <3> QED  BY <3>1
  <2>2. n * q = n * m + n * d
    BY <2>1, <1>1, Z3
  <2>3. n * d >= 0 /\ n * m = m * n
    BY <2>1, Z3
  <2> QED  BY <1>1, <2>2, <2>3
<1> QED  BY <1>1, <1>2

\* paths is a positive number.
LEMMA PathsNat == Paths \in Nat \ {0}
  BY MatrixAssumption, Z3 DEF Paths

\* pathDetails holds indices of the relay lists.
LEMMA RelaysOfPair ==
    ASSUME NEW p \in Pairs
    PROVE  EntryOf(p) \in 1 .. NumEntry /\ ExitOf(p) \in 1 .. NumExit
<1>1. p - 1 \in Nat /\ p - 1 < NumEntry * NumExit
  BY PathsNat DEF Pairs, Paths
<1>2. (p - 1) \div NumExit \in 0 .. NumEntry - 1
  BY <1>1, DivBound, MatrixAssumption
<1>3. (p - 1) % NumExit \in 0 .. NumExit - 1
  BY <1>1, MatrixAssumption
<1> QED  BY <1>2, <1>3, MatrixAssumption DEF EntryOf, ExitOf

\* The list of the pair under scan is a bounded sequence of ASes.
LEMMA EntryListType ==
    ASSUME TypeOK, NEW p \in Pairs
    PROVE  /\ EntryList(p) \in Seq(ASN)
           /\ Len(EntryList(p)) \in 0 .. MaxEntryPath
<1>1. EntryList(p) \in Lists(MaxEntryPath)
  BY RelaysOfPair DEF TypeOK, EntryList
<1>2. PICK n \in 0 .. MaxEntryPath : EntryList(p) \in [1 .. n -> ASN]
  BY <1>1 DEF Lists
<1> QED  BY <1>2, MatrixAssumption

-----------------------------------------------------------------------------
\* What the part of the list before j says about the pair under scan.
ScanPrefix ==
    pnum \in Pairs =>
        /\ ~ hasAttacker =>
              \A k \in 1 .. Len(EntryList(pnum)) :
                  k < j => ~ OnExitSide(EntryList(pnum)[k], pnum)
        /\ hasAttacker =>
              /\ Attacked(pnum)
              /\ \E r \in 1 .. Len(S) : S[r][pnum] = 1

\* Only finished pairs are counted.
FreeFinished == free \subseteq 1 .. pnum - 1

\* At most one row per finished pair, and one more only if j is past it.
RowCount ==
    ShortLists =>
        \/ Len(attackers) < pnum
        \/ Len(attackers) = pnum /\ pnum \in Pairs /\ j = AfterNewRow

IInv ==
    /\ TypeOK
    /\ RowsSound
    /\ RowsDistinct
    /\ FreeExact
    /\ AttackedPairHasRow
    /\ ScanPrefix
    /\ FreeFinished

-----------------------------------------------------------------------------
\* The scan starts in the invariant.
LEMMA InitIInv == Init => IInv
<1> SUFFICES ASSUME Init PROVE IInv
  OBVIOUS
<1>1. TypeOK
  <2>1. << >> \in Seq(ASN) /\ << >> \in Seq([Pairs -> {0, 1}])
    OBVIOUS
  <2>2. pnum \in 1 .. Paths + 1 /\ j \in Nat \ {0}
    BY PathsNat DEF Init
  <2> QED  BY <2>1, <2>2 DEF Init, TypeOK
<1>2. RowsSound /\ RowsDistinct /\ FreeExact /\ AttackedPairHasRow
  BY DEF Init, RowsSound, RowsDistinct, FreeExact, AttackedPairHasRow
<1>3. ScanPrefix /\ FreeFinished
  BY DEF Init, ScanPrefix, FreeFinished
<1> QED  BY <1>1, <1>2, <1>3 DEF IInv

\* The vocabulary only depends on the lists, which no step changes.
LEMMA SameLists ==
    ASSUME UNCHANGED inputs
    PROVE  /\ \A p : EntryList(p)' = EntryList(p)
           /\ \A a, p : OnExitSide(a, p)' = OnExitSide(a, p)
           /\ \A a, p : Attacker(a, p)' = Attacker(a, p)
           /\ \A p : Attacked(p)' = Attacked(p)
  BY DEF inputs, EntryList, ExitList, OnExitSide, OnEntrySide, Attacker,
         Attacked

\* An AS met by the scan that is on the exit side attacks the pair.
LEMMA MetAttacker ==
    ASSUME TypeOK, NEW p \in Pairs, NEW k \in 1 .. Len(EntryList(p)),
           OnExitSide(EntryList(p)[k], p)
    PROVE  /\ EntryList(p)[k] \in ASN
           /\ Attacker(EntryList(p)[k], p)
           /\ Attacked(p)
<1>1. EntryList(p)[k] \in ASN
  BY EntryListType
<1>2. Attacker(EntryList(p)[k], p)
  BY DEF Attacker, OnEntrySide
<1> QED  BY <1>1, <1>2 DEF Attacked

-----------------------------------------------------------------------------
\* ScanHarmless keeps the invariant.
LEMMA HarmlessStep == IInv /\ ScanHarmless => IInv'
<1> SUFFICES ASSUME IInv, ScanHarmless PROVE IInv'
  OBVIOUS
<1> USE DEF IInv
<1>1. UNCHANGED <<pnum, hasAttacker, attackers, S, free>> /\ UNCHANGED inputs
      /\ j' = j + 1 /\ pnum \in Pairs
  BY DEF ScanHarmless, TypeOK, Pairs
<1>2. TypeOK'
  BY <1>1 DEF TypeOK, inputs
<1>3. RowsSound' /\ RowsDistinct' /\ FreeExact' /\ AttackedPairHasRow'
      /\ FreeFinished'
  BY <1>1, SameLists DEF RowsSound, RowsDistinct, FreeExact,
         AttackedPairHasRow, FreeFinished
<1>4. ScanPrefix'
  <2>1. ~ OnExitSide(EntryList(pnum)[j], pnum)
    BY DEF ScanHarmless
  <2>2. ASSUME ~ hasAttacker, NEW k \in 1 .. Len(EntryList(pnum)), k < j + 1
        PROVE  ~ OnExitSide(EntryList(pnum)[k], pnum)
    <3>1. k < j \/ k = j
      BY <2>2 DEF TypeOK
    <3> QED  BY <3>1, <2>1, <2>2, <1>1 DEF ScanPrefix
  <2> QED  BY <2>2, <1>1, SameLists DEF ScanPrefix
<1> QED  BY <1>2, <1>3, <1>4

\* ScanKnownAttacker keeps the invariant.
LEMMA KnownStep == IInv /\ ScanKnownAttacker => IInv'
<1> SUFFICES ASSUME IInv, ScanKnownAttacker PROVE IInv'
  OBVIOUS
<1> USE DEF IInv
<1> DEFINE a == EntryList(pnum)[j]
<1>1. UNCHANGED <<pnum, attackers, free>> /\ UNCHANGED inputs
      /\ j' = j + 1 /\ hasAttacker' = TRUE /\ pnum \in Pairs
  BY DEF ScanKnownAttacker, TypeOK, Pairs
<1>2. j \in 1 .. Len(EntryList(pnum))
  BY <1>1, EntryListType DEF ScanKnownAttacker, TypeOK
<1>3. Attacker(a, pnum) /\ Attacked(pnum)
  BY <1>1, <1>2, MetAttacker DEF ScanKnownAttacker
<1>4. PICK r \in 1 .. Len(attackers) :
          attackers[r] = a /\ S' = [S EXCEPT ![r] = [@ EXCEPT ![pnum] = 1]]
  BY DEF ScanKnownAttacker
<1>5. /\ S' \in Seq([Pairs -> {0, 1}])
      /\ Len(S') = Len(S)
      /\ \A q \in 1 .. Len(S) :
            S'[q] = IF q = r THEN [S[r] EXCEPT ![pnum] = 1] ELSE S[q]
  BY <1>1, <1>4 DEF TypeOK
<1>6. TypeOK'
  BY <1>1, <1>5 DEF TypeOK, inputs
<1>7. \A q \in 1 .. Len(S), p \in Pairs :
          S'[q][p] = IF q = r /\ p = pnum THEN 1 ELSE S[q][p]
  BY <1>1, <1>5 DEF TypeOK
<1>8. RowsSound'
  BY <1>1, <1>3, <1>4, <1>5, <1>7, SameLists DEF RowsSound
<1>9. RowsDistinct' /\ FreeExact' /\ FreeFinished'
  BY <1>1, SameLists DEF RowsDistinct, FreeExact, FreeFinished
<1>10. AttackedPairHasRow'
  <2> SUFFICES ASSUME NEW p \in 1 .. pnum - 1, Attacked(p)
               PROVE  \E q \in 1 .. Len(S) : S'[q][p] = 1
    BY <1>1, <1>5, SameLists DEF AttackedPairHasRow
  <2>1. p \in Pairs
    BY <1>1, PathsNat DEF Pairs
  <2>2. PICK q \in 1 .. Len(S) : S[q][p] = 1
    BY DEF AttackedPairHasRow
  <2> QED  BY <2>1, <2>2, <1>7
<1>11. ScanPrefix'
  BY <1>1, <1>3, <1>4, <1>5, <1>7, SameLists DEF ScanPrefix, TypeOK
<1> QED  BY <1>6, <1>8, <1>9, <1>10, <1>11

\* ScanNewAttacker keeps the invariant.
LEMMA NewStep == IInv /\ ScanNewAttacker => IInv'
<1> SUFFICES ASSUME IInv, ScanNewAttacker PROVE IInv'
  OBVIOUS
<1> USE DEF IInv
<1> DEFINE a == EntryList(pnum)[j]
<1>1. UNCHANGED <<pnum, free>> /\ UNCHANGED inputs /\ pnum \in Pairs
      /\ j' = Paths + 2 /\ hasAttacker' = TRUE
      /\ attackers' = Append(attackers, a) /\ S' = Append(S, RowFor(pnum))
  BY DEF ScanNewAttacker, TypeOK, Pairs, AfterNewRow
<1>2. j \in 1 .. Len(EntryList(pnum))
  BY <1>1, EntryListType DEF ScanNewAttacker, TypeOK
<1>3. a \in ASN /\ Attacker(a, pnum) /\ Attacked(pnum)
  BY <1>1, <1>2, MetAttacker DEF ScanNewAttacker
<1>4. /\ RowFor(pnum) \in [Pairs -> {0, 1}]
      /\ \A p \in Pairs : RowFor(pnum)[p] = 1 <=> p = pnum
  BY DEF RowFor
<1>5. /\ S' \in Seq([Pairs -> {0, 1}])
      /\ Len(S') = Len(S) + 1
      /\ \A q \in 1 .. Len(S) : S'[q] = S[q]
      /\ S'[Len(S) + 1] = RowFor(pnum)
  BY <1>1, <1>4 DEF TypeOK
<1>6. /\ attackers' \in Seq(ASN)
      /\ Len(attackers') = Len(attackers) + 1
      /\ \A q \in 1 .. Len(attackers) : attackers'[q] = attackers[q]
      /\ attackers'[Len(attackers) + 1] = a
  BY <1>1, <1>3 DEF TypeOK
<1>7. TypeOK'
  BY <1>1, <1>5, <1>6, PathsNat DEF TypeOK, inputs
<1>8. RowsSound'
  <2> SUFFICES ASSUME NEW q \in 1 .. Len(S'), NEW p \in Pairs, S'[q][p] = 1
               PROVE  Attacker(attackers'[q], p)
    BY <1>1, SameLists DEF RowsSound
  <2>1. CASE q \in 1 .. Len(S)
    <3>1. S[q][p] = 1 /\ attackers'[q] = attackers[q]
      BY <2>1, <1>5, <1>6 DEF TypeOK
    <3> QED  BY <2>1, <3>1 DEF RowsSound
  <2>2. CASE q = Len(S) + 1
    BY <2>2, <1>3, <1>4, <1>5, <1>6 DEF TypeOK
  <2> QED  BY <2>1, <2>2, <1>5 DEF TypeOK
<1>9. RowsDistinct'
  <2>1. \A q \in 1 .. Len(attackers) : attackers[q] # a
    BY DEF ScanNewAttacker, HasRow
  <2> QED  BY <2>1, <1>6 DEF RowsDistinct, TypeOK
<1>10. FreeExact' /\ FreeFinished'
  BY <1>1, SameLists DEF FreeExact, FreeFinished
<1>11. AttackedPairHasRow'
  BY <1>1, <1>5, SameLists DEF AttackedPairHasRow, TypeOK
<1>12. ScanPrefix'
  <2>1. Len(S) + 1 \in 1 .. Len(S') /\ S'[Len(S) + 1][pnum] = 1
    BY <1>1, <1>4, <1>5 DEF TypeOK
  <2> QED  BY <2>1, <1>1, <1>3, SameLists DEF ScanPrefix
<1> QED  BY <1>7, <1>8, <1>9, <1>10, <1>11, <1>12

\* FinishPair keeps the invariant.
LEMMA FinishStep == IInv /\ FinishPair => IInv'
<1> SUFFICES ASSUME IInv, FinishPair PROVE IInv'
  OBVIOUS
<1> USE DEF IInv
<1>1. UNCHANGED <<attackers, S>> /\ UNCHANGED inputs /\ pnum \in Pairs
      /\ pnum' = pnum + 1 /\ j' = 1 /\ hasAttacker' = FALSE
      /\ free' = IF hasAttacker THEN free ELSE free \cup {pnum}
  BY DEF FinishPair, TypeOK, Pairs
<1>2. TypeOK'
  <2>1. pnum' \in 1 .. Paths + 1 /\ j' \in Nat \ {0}
    BY <1>1, PathsNat DEF Pairs
  <2>2. free' \in SUBSET Pairs
    BY <1>1 DEF TypeOK
  <2> QED  BY <1>1, <2>1, <2>2 DEF TypeOK, inputs
<1>3. hasAttacker <=> Attacked(pnum)
  <2>1. ASSUME ~ hasAttacker, Attacked(pnum) PROVE FALSE
    <3>1. PICK k \in 1 .. Len(EntryList(pnum)) :
              OnExitSide(EntryList(pnum)[k], pnum)
      BY <2>1 DEF Attacked, Attacker, OnEntrySide
    <3>2. k < j
      BY <1>1, EntryListType DEF FinishPair, TypeOK
    <3> QED  BY <3>1, <3>2, <2>1, <1>1 DEF ScanPrefix
  <2> QED  BY <2>1, <1>1 DEF ScanPrefix, TypeOK
<1>4. pnum \notin free /\ \A p \in 1 .. pnum : p = pnum \/ p \in 1 .. pnum - 1
  BY <1>1 DEF FreeFinished, TypeOK
<1>5. FreeExact'
  <2> SUFFICES ASSUME NEW p \in 1 .. pnum
               PROVE  p \in free' <=> ~ Attacked(p)
    BY <1>1, SameLists DEF FreeExact, TypeOK
  <2>1. CASE p = pnum
    BY <2>1, <1>1, <1>3, <1>4
  <2>2. CASE p \in 1 .. pnum - 1 /\ p # pnum
    BY <2>2, <1>1 DEF FreeExact
  <2> QED  BY <2>1, <2>2, <1>4
<1>6. AttackedPairHasRow'
  <2> SUFFICES ASSUME NEW p \in 1 .. pnum, Attacked(p)
               PROVE  \E r \in 1 .. Len(S) : S[r][p] = 1
    BY <1>1, SameLists DEF AttackedPairHasRow, TypeOK
  <2>1. CASE p = pnum
    BY <2>1, <1>1, <1>3 DEF ScanPrefix
  <2>2. CASE p \in 1 .. pnum - 1
    BY <2>2 DEF AttackedPairHasRow
  <2> QED  BY <2>1, <2>2, <1>4
<1>7. RowsSound' /\ RowsDistinct'
  BY <1>1, SameLists DEF RowsSound, RowsDistinct
<1>8. FreeFinished' /\ ScanPrefix'
  BY <1>1, <1>2 DEF FreeFinished, ScanPrefix, TypeOK
<1> QED  BY <1>2, <1>5, <1>6, <1>7, <1>8

\* Every step of the scan, and every step that leaves it alone, keeps IInv.
LEMMA NextIInv == IInv /\ [Scan]_vars => IInv'
<1> SUFFICES ASSUME IInv, [Scan]_vars PROVE IInv'
  OBVIOUS
<1>1. CASE Scan
  BY <1>1, HarmlessStep, KnownStep, NewStep, FinishStep DEF Scan
<1>2. CASE UNCHANGED vars
  <2>1. TypeOK' /\ FreeFinished' /\ RowsDistinct'
    BY <1>2 DEF vars, inputs, IInv, TypeOK, FreeFinished, RowsDistinct
  <2>2. RowsSound' /\ FreeExact' /\ AttackedPairHasRow' /\ ScanPrefix'
    BY <1>2, SameLists DEF vars, IInv, RowsSound, FreeExact,
         AttackedPairHasRow, ScanPrefix
  <2> QED  BY <2>1, <2>2 DEF IInv
<1> QED  BY <1>1, <1>2 DEF vars

-----------------------------------------------------------------------------
\* The inductive invariant of the scan.
THEOREM IInvHolds == Spec => []IInv
  BY InitIInv, NextIInv, PTL DEF Spec

\* pnum, the rows, the attackers and the counted pairs keep their types.
THEOREM TypeCorrect == Spec => []TypeOK
<1>1. IInv => TypeOK
  BY DEF IInv
<1> QED  BY <1>1, IInvHolds, PTL

\* cntFree and attacker_free_paths are right: the scan counts a pair as free
\* exactly if its two sides have no AS in common, skipped positions or not.
THEOREM FreeCountIsExact == Spec => []FreeExact
<1>1. IInv => FreeExact
  BY DEF IInv
<1> QED  BY <1>1, IInvHolds, PTL

\* The matrix given to the LP has no false attacker, no attacker twice, and
\* at least one attacker in the column of every attacked pair.
THEOREM MatrixIsSound ==
    Spec => [](RowsSound /\ RowsDistinct /\ AttackedPairHasRow)
<1>1. IInv => RowsSound /\ RowsDistinct /\ AttackedPairHasRow
  BY DEF IInv
<1> QED  BY <1>1, IInvHolds, PTL

\* A pair that the scan did not count as free has a 1 in its column, so the LP
\* cannot take an attacked pair for a safe one.
THEOREM AttackedPairsKeepTheirRow == Spec => []AttackedPairHasRow
<1>1. IInv => AttackedPairHasRow
  BY DEF IInv
<1> QED  BY <1>1, IInvHolds, PTL

\* The rows never outgrow the allocation of S, if no entry list is longer
\* than the number of pairs plus one: then a new row ends the scan of its
\* pair, and a pair adds at most one row.
THEOREM RowsAlwaysFit == Spec => []RowsFit
<1> DEFINE Inv == IInv /\ RowCount
<1>1. Init => Inv
  <2>1. Init => RowCount
    BY PathsNat DEF Init, RowCount
  <2> QED  BY <2>1, InitIInv
<1>2. Inv /\ [Scan]_vars => Inv'
  <2> SUFFICES ASSUME IInv, RowCount, [Scan]_vars, ShortLists' PROVE RowCount'
    BY NextIInv DEF RowCount
  <2>0. ShortLists
    <3>1. UNCHANGED inputs
      BY DEF Scan, ScanHarmless, ScanKnownAttacker, ScanNewAttacker, FinishPair, vars
    <3> QED  BY <3>1, SameLists DEF ShortLists
  <2>1. /\ j \in Nat \ {0} /\ pnum \in 1 .. Paths + 1 /\ Len(attackers) \in Nat
    BY DEF IInv, TypeOK
  <2>2. CASE ScanHarmless \/ ScanKnownAttacker
    <3>1. pnum \in Pairs /\ j <= Len(EntryList(pnum))
      BY <2>1, <2>2 DEF ScanHarmless, ScanKnownAttacker, Pairs
    <3>2. j # AfterNewRow
      BY <3>1, <2>0, <2>1, EntryListType, PathsNat DEF IInv, ShortLists, AfterNewRow
    <3> QED  BY <2>0, <2>2, <3>2 DEF RowCount, ScanHarmless, ScanKnownAttacker
  <2>3. CASE ScanNewAttacker
    <3>1. pnum \in Pairs /\ j <= Len(EntryList(pnum))
      BY <2>1, <2>3 DEF ScanNewAttacker, Pairs
    <3>2. j # AfterNewRow
      BY <3>1, <2>0, <2>1, EntryListType, PathsNat DEF IInv, ShortLists, AfterNewRow
    <3>3. Len(attackers) < pnum
      BY <2>0, <3>2 DEF RowCount
    <3>4. Len(attackers') = Len(attackers) + 1
      BY <2>3 DEF ScanNewAttacker, IInv, TypeOK
    <3>5. pnum' = pnum /\ j' = AfterNewRow /\ AfterNewRow' = AfterNewRow
      BY <2>3 DEF ScanNewAttacker, AfterNewRow
    <3> QED  BY <2>1, <3>1, <3>3, <3>4, <3>5 DEF RowCount, AfterNewRow
  <2>4. CASE FinishPair
    BY <2>0, <2>1, <2>4 DEF RowCount, FinishPair
  <2>5. CASE UNCHANGED vars
    BY <2>0, <2>5 DEF RowCount, vars, AfterNewRow
  <2> QED  BY <2>2, <2>3, <2>4, <2>5 DEF Scan, vars
<1>3. Inv => RowsFit
  BY PathsNat DEF IInv, TypeOK, RowCount, RowsFit, Pairs
<1> QED  BY <1>1, <1>2, <1>3, PTL DEF Spec

-----------------------------------------------------------------------------
(* The selection *)

\* No pair is drawn before the scan is over.
DrawnAfterScan == phase # "scan" => Scanned

\* What is used was tested, and was drawn from the tuned distribution unless
\* the draw fell through.
ChosenDrawn ==
    phase = "chosen" =>
        /\ chosen \in Pairs
        /\ KnownPair(chosen)
        /\ ~ boundary => chosen \in TunedSupport

\* The inductive invariant of the selection.
SelIInv ==
    /\ IInv
    /\ SelTypeOK
    /\ DrawnAfterScan
    /\ ChosenDrawn

-----------------------------------------------------------------------------
\* No pair is drawn when the function starts.
LEMMA SelInitIInv == SelInit => SelIInv
<1> SUFFICES ASSUME SelInit PROVE SelIInv
  OBVIOUS
<1>1. IInv
  BY InitIInv DEF SelInit
<1>2. SelTypeOK
  <2>1. [entry |-> {}, exit |-> {}] \in RelaySets
    BY DEF RelaySets
  <2>2. unknown \in RelaySets /\ weighted \in RelaySets
    BY <2>1 DEF SelInit
  <2>3. lp \in SUBSET Pairs /\ chosen \in 0 .. Paths
    BY PathsNat DEF SelInit
  <2>4. phase \in {"scan", "pick", "chosen"} /\ boundary \in BOOLEAN
    BY DEF SelInit
  <2>5. TypeOK /\ twiceAlpha \in Alphas
    BY <1>1 DEF SelInit, IInv
  <2> QED  BY <2>2, <2>3, <2>4, <2>5 DEF SelTypeOK
<1>3. DrawnAfterScan /\ ChosenDrawn
  BY DEF SelInit, DrawnAfterScan, ChosenDrawn
<1> QED  BY <1>1, <1>2, <1>3 DEF SelIInv

\* The weights depend on nothing the loop of draws changes.
LEMMA SameWeights ==
    ASSUME UNCHANGED <<free, twiceAlpha, relays>>
    PROVE  /\ TunedSupport' = TunedSupport
           /\ \A p : KnownPair(p)' = KnownPair(p)
  BY DEF relays, TunedSupport, BwSupport, LpSupport, KnownPair

\* The scan goes on.
LEMMA ScanStepIInv == SelIInv /\ ScanStep => SelIInv'
<1> SUFFICES ASSUME SelIInv, ScanStep PROVE SelIInv'
  OBVIOUS
<1>1. Scan /\ UNCHANGED <<twiceAlpha, relays, phase, chosen, boundary>>
  BY DEF ScanStep
<1>2. IInv'
  BY <1>1, NextIInv DEF SelIInv
<1>3. SelTypeOK'
  BY <1>1, <1>2 DEF SelIInv, SelTypeOK, IInv, relays
<1>4. phase = "scan"
  <2>1. pnum <= Paths
    BY <1>1 DEF Scan, ScanHarmless, ScanKnownAttacker, ScanNewAttacker, FinishPair
  <2>2. pnum \in Nat
    BY PathsNat DEF SelIInv, SelTypeOK, TypeOK
  <2> QED  BY <2>1, <2>2, PathsNat DEF SelIInv, DrawnAfterScan, Scanned
<1> QED  BY <1>1, <1>2, <1>3, <1>4 DEF SelIInv, DrawnAfterScan, ChosenDrawn

\* The weights are set once the scan is over.
LEMMA SolveIInv == SelIInv /\ Solve => SelIInv'
<1> SUFFICES ASSUME SelIInv, Solve PROVE SelIInv'
  OBVIOUS
<1>1. IInv' /\ Scanned'
  BY NextIInv DEF SelIInv, Solve, Scanned, vars
<1>2. SelTypeOK'
  BY <1>1 DEF SelIInv, Solve, SelTypeOK, IInv
<1> QED  BY <1>1, <1>2 DEF SelIInv, Solve, DrawnAfterScan, ChosenDrawn

\* A turn of the do-while loop.
LEMMA DrawnIInv ==
    ASSUME SelIInv, NEW p \in Pairs, phase = "pick", Drawn(p),
           boundary' \in BOOLEAN, boundary' \/ p \in TunedSupport
    PROVE  SelIInv'
<1>1. UNCHANGED <<vars, twiceAlpha, relays>> /\ chosen' = p
  BY DEF Drawn
<1>2. IInv' /\ Scanned'
  BY <1>1, NextIInv DEF SelIInv, DrawnAfterScan, Scanned, vars
<1>3. SelTypeOK'
  BY <1>1, <1>2, PathsNat DEF SelIInv, SelTypeOK, IInv, relays, Drawn, Pairs
<1>4. ChosenDrawn'
  BY <1>1, SameWeights DEF vars, Drawn, ChosenDrawn, Pairs, Paths
<1> QED  BY <1>2, <1>3, <1>4 DEF SelIInv, DrawnAfterScan

\* Every step of the scan and of the draw keeps the invariant.
LEMMA SelNextIInv == SelIInv /\ [SelNext]_selVars => SelIInv'
<1> SUFFICES ASSUME SelIInv, [SelNext]_selVars PROVE SelIInv'
  OBVIOUS
<1>1. CASE ScanStep
  BY <1>1, ScanStepIInv
<1>2. CASE Solve
  BY <1>2, SolveIInv
<1>3. ASSUME NEW p \in Pairs, DrawWeighted(p) PROVE SelIInv'
  BY <1>3, DrawnIInv DEF DrawWeighted
<1>4. CASE DrawBoundary
  <2>1. 1 \in Pairs
    BY PathsNat DEF Pairs
  <2> QED  BY <1>4, <2>1, DrawnIInv DEF DrawBoundary
<1>5. CASE UNCHANGED selVars
  <2>1. IInv'
    BY <1>5, NextIInv DEF SelIInv, selVars
  <2>2. SelTypeOK'
    BY <1>5, <2>1 DEF selVars, relays, SelIInv, SelTypeOK, IInv
  <2>3. DrawnAfterScan' /\ ChosenDrawn'
    BY <1>5, SameWeights DEF selVars, vars, SelIInv, DrawnAfterScan, Scanned,
         ChosenDrawn
  <2> QED  BY <2>1, <2>2, <2>3 DEF SelIInv
<1> QED  BY <1>1, <1>2, <1>3, <1>4, <1>5 DEF SelNext

\* The inductive invariant of the scan, the weighting and the draw.
THEOREM SelIInvHolds == SelSpec => []SelIInv
  BY SelInitIInv, SelNextIInv, PTL DEF SelSpec

-----------------------------------------------------------------------------
\* The counted pairs are final when the pair is used.
LEMMA FreeIsFinal ==
    ASSUME SelIInv, phase = "chosen"
    PROVE  \A p \in Pairs : p \in free <=> ~ Attacked(p)
<1>1. pnum = Paths + 1
  BY PathsNat DEF SelIInv, DrawnAfterScan, Scanned, SelTypeOK, TypeOK
<1> QED  BY <1>1, PathsNat DEF SelIInv, IInv, FreeExact, Pairs

\* With alpha 0 the client never uses an attacked pair while there is an
\* attacker-free one, unless the draw fell through to the first pair.
THEOREM UsesAttackerFreePair == SelSpec => []AvoidsAttackers
<1>1. SelIInv => AvoidsAttackers
  <2> SUFFICES ASSUME SelIInv, phase = "chosen", free # {}, twiceAlpha = 0,
                      ~ boundary
               PROVE  ~ Attacked(chosen)
    BY DEF AvoidsAttackers
  <2>1. chosen \in Pairs /\ chosen \in TunedSupport
    BY DEF SelIInv, ChosenDrawn
  <2>2. chosen \in free
    BY <2>1 DEF TunedSupport, LpSupport
  <2> QED  BY <2>1, <2>2, FreeIsFinal
<1> QED  BY <1>1, SelIInvHolds, PTL

\* For every alpha the pair has bandwidth, unless the linear program gave it
\* its weight or the draw fell through.
THEOREM UsesBandwidth == SelSpec => []ChosenHasBandwidth
<1>1. SelIInv => ChosenHasBandwidth
  BY DEF SelIInv, ChosenDrawn, ChosenHasBandwidth, TunedSupport, LpSupport
<1> QED  BY <1>1, SelIInvHolds, PTL
=============================================================================
