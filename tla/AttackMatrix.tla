---------------------------- MODULE AttackMatrix ----------------------------
(***************************************************************************)
(* The search for correlating ASes inside circuit_establish_circuit        *)
(* (or/circuitbuild.c).  For every entry relay the client holds the ASes   *)
(* on the predicted routes source <-> entry, for every exit relay those on *)
(* the routes exit <-> destination.  An AS on both sides of a pair can     *)
(* correlate the traffic of the circuit: it is an attacker of the pair.    *)
(* Pair by pair and AS by AS the loop fills the matrix S (one row per      *)
(* attacker, one column per pair) that the linear program minimises over.  *)
(*                                                                         *)
(* Pairs, positions in a list and rows count from 1, in the code from 0.   *)
(***************************************************************************)
EXTENDS Integers, Sequences

CONSTANTS
    NumEntry,    \* length of as_entry
    NumExit,     \* length of as_exit
    ASN,         \* AS numbers
    MaxEntryPath, MaxExitPath  \* bounds on the lengths of the "all" arrays
                               \* (an array has room for 200 ASes)

ASSUME MatrixAssumption ==
    /\ NumEntry \in Nat \ {0}
    /\ NumExit \in Nat \ {0}
    /\ MaxEntryPath \in Nat
    /\ MaxExitPath \in Nat

Paths == NumEntry * NumExit
Pairs == 1 .. Paths

\* pathDetails[p]: the relays of pair p (x is the outer loop, y the inner).
EntryOf(p) == ((p - 1) \div NumExit) + 1
ExitOf(p)  == ((p - 1) % NumExit) + 1

\* What one "all" array can hold: the ASes of a route and of the way back.
Lists(max) == UNION {[1 .. n -> ASN] : n \in 0 .. max}

VARIABLES
    entryAll,    \* entry_parts[x].all
    exitAll,     \* exit_parts[y].all
    pnum,        \* the pair under scan; Paths + 1 when the scan is over
    j,           \* the position in entryAll the scan is at
    hasAttacker, \* was an attacker of the pair under scan found
    attackers,   \* the attackers found, in order
    S,           \* the rows of the matrix, in the order of attackers
    free         \* attacker_free_paths: the pairs without attacker

inputs == <<entryAll, exitAll>>
vars == <<inputs, pnum, j, hasAttacker, attackers, S, free>>

-----------------------------------------------------------------------------
EntryList(p) == entryAll[EntryOf(p)]
ExitList(p)  == exitAll[ExitOf(p)]

OnEntrySide(a, p) == \E k \in 1 .. Len(EntryList(p)) : EntryList(p)[k] = a
OnExitSide(a, p)  == \E k \in 1 .. Len(ExitList(p)) : ExitList(p)[k] = a

Attacker(a, p) == OnEntrySide(a, p) /\ OnExitSide(a, p)
Attacked(p) == \E a \in ASN : Attacker(a, p)

\* The lists are those of the last query.  The return value of get_aspath is
\* not looked at: after a failed query result[] is whatever the stack held,
\* so nothing is assumed about the lists.
Init ==
    /\ entryAll \in [1 .. NumEntry -> Lists(MaxEntryPath)]
    /\ exitAll \in [1 .. NumExit -> Lists(MaxExitPath)]
    /\ pnum = 1
    /\ j = 1
    /\ hasAttacker = FALSE
    /\ attackers = << >>
    /\ S = << >>
    /\ free = {}

\* Mutant of AfterNewRow: the row is cleared with a variable of its own.
NextPosition == j + 1

\* A fresh row is cleared with the j of the enclosing loop as loop variable
\* ("for (j = 0; j < paths; j++) S[a][j] = 0"), so that after the outer j++
\* the scan goes on at position paths + 1, counted from 0.
AfterNewRow == Paths + 2

\* Mutant of RowFor: the fresh row is not cleared but filled.
RowUncleared(p) == [q \in Pairs |-> 1]

RowFor(p) == [q \in Pairs |-> IF q = p THEN 1 ELSE 0]

HasRow(a) == \E r \in 1 .. Len(attackers) : attackers[r] = a

\* The AS under the scan is not on the exit side.
ScanHarmless ==
    /\ pnum <= Paths
    /\ j <= Len(EntryList(pnum))
    /\ ~ OnExitSide(EntryList(pnum)[j], pnum)
    /\ j' = j + 1
    /\ UNCHANGED <<inputs, pnum, hasAttacker, attackers, S, free>>

\* Mutant of ScanKnownAttacker: the row of a known attacker is left alone.
KnownNotEntered ==
    /\ pnum <= Paths
    /\ j <= Len(EntryList(pnum))
    /\ OnExitSide(EntryList(pnum)[j], pnum)
    /\ HasRow(EntryList(pnum)[j])
    /\ hasAttacker' = TRUE
    /\ j' = j + 1
    /\ UNCHANGED <<inputs, pnum, attackers, S, free>>

\* Mutant of ScanKnownAttacker: this branch clobbers j like the other one.
KnownClobbers ==
    /\ pnum <= Paths
    /\ j <= Len(EntryList(pnum))
    /\ OnExitSide(EntryList(pnum)[j], pnum)
    /\ \E r \in 1 .. Len(attackers) :
          /\ attackers[r] = EntryList(pnum)[j]
          /\ S' = [S EXCEPT ![r] = [@ EXCEPT ![pnum] = 1]]
    /\ hasAttacker' = TRUE
    /\ j' = AfterNewRow
    /\ UNCHANGED <<inputs, pnum, attackers, free>>

\* It is an attacker that already has a row.
ScanKnownAttacker ==
    /\ pnum <= Paths
    /\ j <= Len(EntryList(pnum))
    /\ OnExitSide(EntryList(pnum)[j], pnum)
    /\ \E r \in 1 .. Len(attackers) :
          /\ attackers[r] = EntryList(pnum)[j]
          /\ S' = [S EXCEPT ![r] = [@ EXCEPT ![pnum] = 1]]
    /\ hasAttacker' = TRUE
    /\ j' = j + 1
    /\ UNCHANGED <<inputs, pnum, attackers, free>>

\* It is an attacker seen for the first time: add it, with a row of its own.
ScanNewAttacker ==
    /\ pnum <= Paths
    /\ j <= Len(EntryList(pnum))
    /\ OnExitSide(EntryList(pnum)[j], pnum)
    /\ ~ HasRow(EntryList(pnum)[j])
    /\ attackers' = Append(attackers, EntryList(pnum)[j])
    /\ S' = Append(S, RowFor(pnum))
    /\ hasAttacker' = TRUE
    /\ j' = AfterNewRow
    /\ UNCHANGED <<inputs, pnum, free>>

\* Mutant of FinishPair: hasAttacker is not reset for the next pair.
FinishPairNoReset ==
    /\ pnum <= Paths
    /\ j > Len(EntryList(pnum))
    /\ free' = IF hasAttacker THEN free ELSE free \cup {pnum}
    /\ pnum' = pnum + 1
    /\ j' = 1
    /\ UNCHANGED <<inputs, hasAttacker, attackers, S>>

\* The list is at its end: count the pair, go to the next one.
FinishPair ==
    /\ pnum <= Paths
    /\ j > Len(EntryList(pnum))
    /\ free' = IF hasAttacker THEN free ELSE free \cup {pnum}
    /\ pnum' = pnum + 1
    /\ j' = 1
    /\ hasAttacker' = FALSE
    /\ UNCHANGED <<inputs, attackers, S>>

Scan == ScanHarmless \/ ScanKnownAttacker \/ ScanNewAttacker \/ FinishPair

Scanned == pnum > Paths

Spec == Init /\ [][Scan]_vars

\* The loop runs in the main thread without a wait.
FairSpec == Spec /\ WF_vars(Scan)

-----------------------------------------------------------------------------
(* Properties *)

\* Types of the loop's variables; S has as many rows as there are attackers.
TypeOK ==
    /\ entryAll \in [1 .. NumEntry -> Lists(MaxEntryPath)]
    /\ exitAll \in [1 .. NumExit -> Lists(MaxExitPath)]
    /\ pnum \in 1 .. Paths + 1
    /\ j \in Nat \ {0}
    /\ hasAttacker \in BOOLEAN
    /\ attackers \in Seq(ASN)
    /\ S \in Seq([Pairs -> {0, 1}])
    /\ Len(S) = Len(attackers)
    /\ free \in SUBSET Pairs

\* No entry list is longer than paths + 1.
ShortLists == \A p \in Pairs : Len(EntryList(p)) <= Paths + 1

\* S is allocated with one row pointer per PAIR, and a row is added per
\* ATTACKER: the rows fit, if the lists are short.
RowsFit == ShortLists => Len(attackers) <= Paths

\* A 1 in the matrix stands for an AS that is on both sides of that pair.
RowsSound ==
    \A r \in 1 .. Len(S), p \in Pairs :
        S[r][p] = 1 => Attacker(attackers[r], p)

\* No attacker has two rows: its exposure would be split between them.
RowsDistinct ==
    \A r, s \in 1 .. Len(attackers) : attackers[r] = attackers[s] => r = s

\* A scanned pair is counted attacker free exactly if no AS is on both its
\* sides, although the scan skips part of the list after a new row.
FreeExact == \A p \in 1 .. pnum - 1 : p \in free <=> ~ Attacked(p)

\* Every attacked pair has a 1 in some row, so the linear program cannot
\* take it for a pair without attacker.
AttackedPairHasRow ==
    \A p \in 1 .. pnum - 1 :
        Attacked(p) => \E r \in 1 .. Len(S) : S[r][p] = 1

\* "matrix attackers x paths for LP" (circuitbuild.c): when the linear
\* program is needed, every attacker of a pair has its 1 in that column.
MatrixComplete ==
    Scanned /\ free = {} =>
        \A p \in Pairs, a \in ASN :
            Attacker(a, p) =>
                \E r \in 1 .. Len(S) : attackers[r] = a /\ S[r][p] = 1

\* The scan ends, although clearing a row can move j backwards.
ScanTerminates == <>Scanned
=============================================================================
