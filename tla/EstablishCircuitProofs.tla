----------------------- MODULE EstablishCircuitProofs -----------------------
(* Proofs about circuit_establish_circuit for any number of relays and of  *)
(* guards needed, and for any relations between the relays: the hops of a  *)
(* path are unrelated, and the list of entries is bounded.                 *)
EXTENDS EstablishCircuit, FiniteSetTheorems, SequenceTheorems,
        WellFoundedInduction, TLAPS

\* Types, as far as the proofs need them.
EstTypeOK ==
    /\ net \in Networks
    /\ guards \in Seq(Relays)
    /\ call \in Calls
    /\ goodExits \in SUBSET Relays /\ entries \in SUBSET Relays
    /\ exit \in Relays \cup {None}
    /\ entry \in Relays \cup {None, Garbage}
    /\ len \in {0, 1, RouteLen, RouteLen + 1}
    /\ path \in Seq(Relays)

\* With a given exit no list is made and entry is never set.
GivenExit ==
    call.exit # None =>
        /\ pc # "exits" /\ goodExits = {}
        /\ exit = call.exit
        /\ entry \in {None, Garbage}

GuardSteps == {"guards", "fill", "live"}

\* What holds where the call is.
Stage ==
    /\ pc \in GuardSteps \cup {"idle", "exits", "exit", "entries", "draw"}
           => path = <<>>
    /\ pc \in GuardSteps \cup {"exit", "entries", "draw", "populate"}
           => exit \in Relays
    /\ pc = "entries" => Listing
    /\ pc \in GuardSteps => Listing \/ len > 1
    /\ pc = "populate" => len > 0
    /\ Len(path) <= len
    /\ pc \in {"firsthop", "done"} => Len(path) = len

\* Two hops may be related only as the ends of a path around a drawn pair.
Ends(i, j) == call.exit = None /\ i = 1 /\ j = len

\* The hops so far are unrelated to each other and to the exit to come.
HopsApart ==
    /\ \A i, j \in 1 .. Len(path) : i < j => Unrelated(i, j) \/ Ends(i, j)
    /\ \A i \in 1 .. Len(path) :
           i < len => path[i] \notin Family(exit) \/ Ends(i, len)

\* The inductive invariant of a call.
EstInv == EstTypeOK /\ GivenExit /\ Stage /\ HopsApart /\ EntriesBounded

-----------------------------------------------------------------------------
(* Sets of numbers *)

\* A set of naturals has a least element.
LEMMA LeastOf ==
    ASSUME NEW T \in SUBSET Nat, T # {}
    PROVE  \E x \in T : \A y \in T : x <= y
<1>1. \E x \in T : \A y \in T : ~ (<<y, x>> \in OpToRel(<, Nat))
  BY NatLessThanWellFounded, WFMin
<1>2. \A x, y \in T : <<y, x>> \in OpToRel(<, Nat) <=> y < x
  BY DEF OpToRel
<1>3. PICK x \in T : \A y \in T : ~ (y < x)
  BY <1>1, <1>2
<1>4. \A y \in T : x <= y
  BY <1>3
<1> QED  BY <1>4

\* A set of positions in a sequence has a greatest element.
LEMMA GreatestOf ==
    ASSUME NEW n \in Nat, NEW T \in SUBSET (1 .. n), T # {}
    PROVE  \E x \in T : \A y \in T : y <= x
<1> DEFINE D == {n - x : x \in T}
<1>1. D \in SUBSET Nat /\ D # {}
  <2>1. ASSUME NEW x \in T PROVE n - x \in Nat
    OBVIOUS
  <2>2. PICK x \in T : TRUE
    OBVIOUS
  <2>3. n - x \in D
    BY <2>2
  <2> QED  BY <2>1, <2>3
<1>2. PICK d \in D : \A e \in D : d <= e
  BY <1>1, LeastOf
<1>3. PICK x \in T : d = n - x
  BY <1>2
<1>4. ASSUME NEW y \in T PROVE y <= x
  <2>1. n - x <= n - y
    BY <1>2, <1>3
  <2> QED  BY <2>1
<1> QED  BY <1>4

\* A finite set with two elements has a second one.
LEMMA SecondOf ==
    ASSUME NEW S \in SUBSET Nat, IsFiniteSet(S), ~ (Cardinality(S) < 2)
    PROVE  Second(S) \in S
<1>1. S # {}
  BY FS_EmptySet
<1>2. PICK s \in S : \A y \in S : s <= y
  BY <1>1, LeastOf
<1>3. S \ {s} # {}
  <2> SUFFICES ASSUME S = {s} PROVE FALSE
    BY <1>2
  <2> QED  BY FS_Singleton
<1>4. PICK r \in S \ {s} : \A y \in S \ {s} : r <= y
  BY <1>3, LeastOf
<1>5. s < r /\ \A t \in S : t < r => t = s
  BY <1>2, <1>4
<1>6. \E q \in S : \E t \in S : t < q /\ \A u \in S : u < q => u = t
  BY <1>5
<1> QED  BY <1>6 DEF Second

-----------------------------------------------------------------------------
(* Choosing among relays *)

\* What the proofs need of the consensus.
LEMMA NetTypes ==
    ASSUME EstTypeOK
    PROVE  net.running \in SUBSET Relays /\ net.exits \in SUBSET Relays
<1>1. Network(net)
  BY EstablishAssumption DEF EstTypeOK
<1>2. net["running"] \in SUBSET Relays /\ net["exits"] \in SUBSET Relays
  BY <1>1 DEF Network
<1> QED  BY <1>2

\* With demands or without them, no excluded relay is listed.
LEMMA AllButExcludes ==
    ASSUME EstTypeOK, NEW X, NEW f
    PROVE  AllBut(X, f) \in SUBSET (Relays \ X)
<1>1. \A g : Running(g) \in SUBSET Relays
  BY NetTypes DEF Running
<1> QED  BY <1>1 DEF AllBut

\* The candidate exits are relays.
LEMMA GoodExitsAreRelays ==
    ASSUME EstTypeOK, NEW f
    PROVE  GoodExits(f) \in SUBSET Relays
<1>1. \A g : UsableExits(g) \in SUBSET Relays /\ Supporting(g) \in SUBSET Relays
  BY NetTypes DEF UsableExits, Supporting
<1>2. DEFINE g == IF Supporting(f) # {} THEN f
                  ELSE Requirement(FALSE, FALSE, FALSE, FALSE)
<1>3. UsableExits(g) \in SUBSET Relays /\ Supporting(g) \in SUBSET Relays
  BY <1>1
<1> HIDE DEF g
<1>4. /\ {r \in Supporting(g) :
              \A s \in Supporting(g) : net.supports[s] <= net.supports[r]}
             \in SUBSET Relays
      /\ UsableExits(g) \cap net.ports \in SUBSET Relays
  BY <1>3
<1>5. GoodExits(f)
        \in {UsableExits(g), UsableExits(g) \cap net.ports,
             {r \in Supporting(g) :
                 \A s \in Supporting(g) : net.supports[s] <= net.supports[r]}}
  BY DEF GoodExits, g
<1> QED  BY <1>3, <1>4, <1>5

\* Relations of relays are mutual.
LEMMA FamilySymmetric ==
    ASSUME NEW r \in Relays, NEW s \in Relays, r \in Family(s)
    PROVE  s \in Family(r)
<1>1. {r, s} = {s, r}
  OBVIOUS
<1> QED  BY <1>1 DEF Family

-----------------------------------------------------------------------------
(* The walk over the guards *)

\* The walk adds guards that are unrelated to the exit.
LEMMA ListedApart ==
    ASSUME EstTypeOK
    PROVE  Populated.list \in SUBSET (Relays \ Family(exit))
<1>1. \A i \in LiveAt : guards[i] \in Relays \ Family(exit)
  BY ElementOfSeq DEF EstTypeOK, LiveAt
<1> QED  BY <1>1 DEF Populated

\* ... and never more of them than are needed: had it added more, then the
\* one before the last would have made it stop.
LEMMA ListedBounded ==
    ASSUME EstTypeOK
    PROVE  Cardinality(Populated.list) <= NumGuards
<1> DEFINE K == {k \in LiveAt : \A s \in Enough : k <= s}
<1>1. guards \in Seq(Relays) /\ Len(guards) \in Nat /\ NumGuards \in Nat \ {0}
  BY EstablishAssumption DEF EstTypeOK
<1>2. LiveAt \in SUBSET (1 .. Len(guards)) /\ Enough \in SUBSET LiveAt
  BY DEF LiveAt, Enough
<1>3. IsFiniteSet(LiveAt)
  <2>1. IsFiniteSet(1 .. Len(guards))
    BY <1>1, FS_Interval
  <2> QED  BY <1>2, <2>1, FS_Subset
<1>4. K \in SUBSET LiveAt /\ IsFiniteSet(K) /\ Cardinality(K) \in Nat
  BY <1>3, FS_Subset, FS_CardinalityType
<1> HIDE DEF K
<1>5. ASSUME NEW T \in SUBSET K, T # {}, NumGuards <= Cardinality(T),
             \A t \in T, k \in LiveAt : k <= t => k \in T
      PROVE  \E m \in T : m \in Enough
  <2>1. PICK m \in T : \A t \in T : t <= m
    BY <1>1, <1>2, <1>4, <1>5, GreatestOf
  <2>2. {j \in LiveAt : j <= m} = T
    BY <1>2, <1>4, <1>5, <2>1
  <2>3. AddedBy(m) >= NumGuards
    BY <1>5, <2>2 DEF AddedBy
  <2> QED  BY <1>4, <2>1, <2>3 DEF Enough
<1>6. Cardinality(K) <= NumGuards
  <2> SUFFICES ASSUME Cardinality(K) > NumGuards PROVE FALSE
    BY <1>1, <1>4
  <2>0. \A S : IsFiniteSet(S) /\ Cardinality(S) # 0 => S # {}
    BY FS_EmptySet
  <2>1. K # {}
    <3>1. Cardinality(K) # 0
      BY <1>1, <1>4
    <3> QED  BY <1>4, <2>0, <3>1
  <2>2. PICK m \in K : \A k \in K : k <= m
    BY <1>1, <1>2, <1>4, <2>1, GreatestOf
  <2>3. Cardinality(K \ {m}) = Cardinality(K) - 1
    BY <1>4, <2>2, FS_RemoveElement
  <2>4. NumGuards <= Cardinality(K \ {m}) /\ K \ {m} # {}
    <3>1. NumGuards <= Cardinality(K \ {m}) /\ Cardinality(K \ {m}) # 0
      BY <1>1, <1>4, <2>3
    <3>2. IsFiniteSet(K \ {m})
      BY <1>4, FS_RemoveElement
    <3> QED  BY <2>0, <3>1, <3>2
  <2>5. ASSUME NEW t \in K \ {m}, NEW k \in LiveAt, k <= t PROVE k \in K \ {m}
    BY <1>2, <1>4, <2>2, <2>5 DEF K
  <2>6. PICK l \in K \ {m} : l \in Enough
    BY <1>5, <2>4, <2>5
  <2>7. l <= m /\ m <= l /\ l # m /\ l \in Nat /\ m \in Nat
    BY <1>2, <1>4, <2>2, <2>6 DEF K
  <2> QED  BY <2>7
<1>7. Cardinality(Populated.list) <= Cardinality(K)
  <2> DEFINE f == [k \in K |-> guards[k]]
  <2>1. Populated.list = {guards[k] : k \in K}
    BY DEF Populated, K
  <2>2. f \in Surjection(K, Populated.list)
    BY <2>1 DEF Surjection
  <2> QED  BY <1>4, <2>2, FS_Surjection
<1>8. Cardinality(Populated.list) \in Nat
  <2>1. IsFiniteSet(Relays)
    BY EstablishAssumption, FS_Interval DEF Relays
  <2> QED  BY <2>1, ListedApart, FS_Subset, FS_CardinalityType
<1> QED  BY <1>1, <1>4, <1>6, <1>7, <1>8

-----------------------------------------------------------------------------
(* What a step leaves alone *)

\* The hops stay apart while neither the path nor its exit changes.
LEMMA HopsKept ==
    ASSUME HopsApart, UNCHANGED <<net, call, exit, len, path>>
    PROVE  HopsApart'
  BY DEF HopsApart, Unrelated, Ends, Family

\* There is nothing to show of an empty path.
LEMMA NoHops ==
    ASSUME path' = <<>>
    PROVE  HopsApart'
<1>1. Len(path') = 0
  BY EmptySeq
<1>2. \A i : i \notin 1 .. Len(path')
  BY <1>1
<1> QED  BY <1>2 DEF HopsApart

\* The list of entries stays bounded while it does not change.
LEMMA EntriesKept ==
    ASSUME EntriesBounded, UNCHANGED <<net, call, entries>>
    PROVE  EntriesBounded'
  BY DEF EntriesBounded, UsesGuards

\* A step that only moves on, and may add a guard.
LEMMA MovesOn ==
    ASSUME EstInv, guards' \in Seq(Relays), Stage', pc' # "exits",
           UNCHANGED <<net, call, goodExits, entries, exit, entry, len, path>>
    PROVE  EstInv'
<1>1. EstTypeOK'
  BY DEF EstInv, EstTypeOK
<1>2. GivenExit'
  BY DEF EstInv, GivenExit
<1>3. HopsApart' /\ EntriesBounded'
  BY HopsKept, EntriesKept DEF EstInv
<1> QED  BY <1>1, <1>2, <1>3 DEF EstInv

\* A hop is added that is no relative of the hops before it and, unless it is
\* the last or the entry of a drawn pair, none of the exit.
LEMMA HopAdded ==
    ASSUME EstInv, NEW r \in Relays, AppendHop(r), Len(path) < len,
           exit \in Relays, UNCHANGED <<net, guards, call, goodExits, entries,
                                        exit, entry, len>>,
           \A i \in 1 .. Len(path) :
               r \notin Family(path[i]) \/ Ends(i, Len(path) + 1),
           Len(path) + 1 < len => r \notin Family(exit) \/ Ends(Len(path) + 1, len)
    PROVE  EstInv'
<1>1. path \in Seq(Relays) /\ Len(path) \in Nat /\ len \in Nat
  BY DEF EstInv, EstTypeOK, RouteLen
<1>2. path' = Append(path, r) /\ pc' = "populate"
  BY DEF AppendHop
<1>3. /\ path' \in Seq(Relays)
      /\ Len(path') = Len(path) + 1
      /\ \A i \in 1 .. Len(path) : path'[i] = path[i]
      /\ path'[Len(path) + 1] = r
  BY <1>1, <1>2, AppendProperties
<1>4. EstTypeOK'
  BY <1>3 DEF EstInv, EstTypeOK
<1>5. GivenExit'
  BY <1>2 DEF EstInv, GivenExit
<1>6. Stage'
  BY <1>1, <1>2, <1>3 DEF Stage, GuardSteps
<1>7. HopsApart'
  <2>1. ASSUME NEW i \in 1 .. Len(path'), NEW j \in 1 .. Len(path'), i < j
        PROVE  Unrelated(i, j)' \/ Ends(i, j)'
    <3>1. i \in 1 .. Len(path) /\ path'[i] = path[i]
      BY <1>1, <1>3, <2>1
    <3>2. CASE j = Len(path) + 1
      <4>1. r \notin Family(path[i]) \/ Ends(i, j)
        BY <3>1, <3>2
      <4>2. path'[j] = r
        BY <1>3, <3>2
      <4> QED  BY <3>1, <4>1, <4>2 DEF Ends, Family, Unrelated
    <3>3. CASE j # Len(path) + 1
      <4>1. j \in 1 .. Len(path) /\ path'[j] = path[j]
        BY <1>1, <1>3, <3>3
      <4>2. path[j] \notin Family(path[i]) \/ Ends(i, j)
        BY <2>1, <3>1, <4>1 DEF EstInv, HopsApart, Unrelated
      <4> QED  BY <3>1, <4>1, <4>2 DEF Ends, Family, Unrelated
    <3> QED  BY <3>2, <3>3
  <2>2. ASSUME NEW i \in 1 .. Len(path'), i < len'
        PROVE  path'[i] \notin Family(exit)' \/ Ends(i, len)'
    <3>1. CASE i = Len(path) + 1
      <4>1. path'[i] = r
        BY <1>3, <3>1
      <4>2. r \notin Family(exit) \/ Ends(i, len)
        BY <2>2, <3>1
      <4> QED  BY <4>1, <4>2 DEF Ends, Family
    <3>2. CASE i # Len(path) + 1
      <4>1. i \in 1 .. Len(path) /\ path'[i] = path[i]
        BY <1>1, <1>3, <3>2
      <4>2. path[i] \notin Family(exit) \/ Ends(i, len)
        BY <2>2, <4>1 DEF EstInv, HopsApart
      <4> QED  BY <4>1, <4>2 DEF Ends, Family
    <3> QED  BY <3>1, <3>2
  <2> QED  BY <2>1, <2>2 DEF HopsApart
<1>8. EntriesBounded'
  BY EntriesKept DEF EstInv
<1> QED  BY <1>4, <1>5, <1>6, <1>7, <1>8 DEF EstInv

-----------------------------------------------------------------------------
(* The steps of a call *)

\* A guard that is added is a relay.
LEMMA GuardAdded ==
    ASSUME EstInv, NEW r \in Relays, AddGuard(r)
    PROVE  guards' \in Seq(Relays)
<1>1. guards \in Seq(Relays)
  BY DEF EstInv, EstTypeOK
<1> QED  BY <1>1, AppendProperties DEF AddGuard

\* Filling up the list of guards, searching it, relaxing the requirements.
LEMMA GuardSearchStep ==
    ASSUME EstInv,
           \/ FillGuards \/ PickedGuards \/ RetryRelaxed
           \/ \E r \in Relays : PickGuard(r) \/ RetryWithGuard(r)
    PROVE  EstInv'
<1>1. /\ pc \in GuardSteps /\ pc' \in GuardSteps
      /\ UNCHANGED <<net, call, goodExits, entries, exit, entry, len, path>>
  BY DEF FillGuards, PickedGuards, RetryRelaxed, PickGuard, RetryWithGuard,
         locals, GuardSteps
<1>2. guards' \in Seq(Relays)
  <2>1. CASE \E r \in Relays : PickGuard(r) \/ RetryWithGuard(r)
    BY <2>1, GuardAdded DEF PickGuard, RetryWithGuard
  <2>2. CASE FillGuards \/ PickedGuards \/ RetryRelaxed
    BY <2>2 DEF FillGuards, PickedGuards, RetryRelaxed, EstInv, EstTypeOK
  <2> QED  BY <2>1, <2>2
<1>3. Stage' /\ pc' # "exits"
  BY <1>1 DEF EstInv, Stage, Listing, GuardSteps
<1> QED  BY <1>1, <1>2, <1>3, MovesOn

\* The list of entries is taken from the guards, or from all relays.
LEMMA EntriesListedStep ==
    ASSUME EstInv, GuardsListed \/ ListEntries
    PROVE  EstInv'
<1>1. /\ pc \in GuardSteps \cup {"entries"} /\ pc' = "draw"
      /\ UNCHANGED <<net, guards, call, goodExits, exit, entry, len, path>>
  BY DEF GuardsListed, ListEntries, GuardSteps
<1>2. entries' \in SUBSET Relays /\ EntriesBounded'
  <2>1. CASE GuardsListed
    <3>1. entries' = Populated.list
      BY <2>1 DEF GuardsListed
    <3> QED  BY <3>1, ListedApart, ListedBounded DEF EntriesBounded, EstInv
  <2>2. CASE ListEntries
    <3>1. ~ UsesGuards'
      BY <1>1, <2>2 DEF ListEntries, UsesGuards
    <3>2. entries' \in SUBSET Relays
      <4>1. PICK X, f : entries' = AllBut(X, f)
        BY <2>2 DEF ListEntries
      <4>2. AllBut(X, f) \in SUBSET (Relays \ X)
        BY AllButExcludes DEF EstInv
      <4> QED  BY <4>1, <4>2
    <3> QED  BY <3>1, <3>2 DEF EntriesBounded
  <2> QED  BY <2>1, <2>2
<1>3. EstTypeOK'
  BY <1>1, <1>2 DEF EstInv, EstTypeOK
<1>4. GivenExit'
  BY <1>1 DEF EstInv, GivenExit
<1>5. Stage'
  BY <1>1 DEF EstInv, Stage, GuardSteps
<1>6. HopsApart'
  BY <1>1, HopsKept DEF EstInv
<1> QED  BY <1>2, <1>3, <1>4, <1>5, <1>6 DEF EstInv

\* The call begins.
LEMMA EstablishStep ==
    ASSUME EstInv, NEW c \in Calls, Establish(c)
    PROVE  EstInv'
<1>1. /\ call' = c /\ exit' = c.exit /\ entry' \in {None, Garbage}
      /\ pc' = IF c.exit = None THEN "exits" ELSE "exit"
      /\ goodExits' = {} /\ entries' = {} /\ len' = 0 /\ path' = <<>>
      /\ UNCHANGED <<net, guards>>
  BY DEF Establish
<1>2. c.exit \in Relays \cup {None} /\ path' \in Seq(Relays) /\ Len(path') = 0
  BY <1>1, EmptySeq DEF Calls
<1>3. EstTypeOK'
  BY <1>1, <1>2 DEF EstInv, EstTypeOK
<1>4. GivenExit'
  BY <1>1 DEF GivenExit
<1>5. Stage'
  BY <1>1, <1>2 DEF Stage, GuardSteps
<1>6. HopsApart' /\ EntriesBounded'
  BY <1>1, NoHops, FS_EmptySet, EstablishAssumption DEF EntriesBounded
<1> QED  BY <1>3, <1>4, <1>5, <1>6 DEF EstInv

\* The candidate exits, and the second of them for the time being.
LEMMA ListExitsStep ==
    ASSUME EstInv, ListExits
    PROVE  EstInv'
<1>1. /\ pc = "exits" /\ goodExits' = GoodExits(CallNeeds)
      /\ \/ pc' = "undefined" /\ exit' = exit
         \/ /\ ~ (Cardinality(goodExits') < 2)
            /\ pc' = "exit" /\ exit' = Second(goodExits')
      /\ UNCHANGED <<net, guards, call, entries, entry, len, path>>
  BY DEF ListExits
<1>2. goodExits' \in SUBSET Relays
  BY <1>1, GoodExitsAreRelays DEF EstInv
<1>3. exit' \in Relays \cup {None} /\ (pc' = "exit" => exit' \in Relays)
  <2>1. PICK S : S = goodExits'
    OBVIOUS
  <2>2. S \in SUBSET Nat /\ IsFiniteSet(S)
    <3>1. Relays \in SUBSET Nat
      BY EstablishAssumption DEF Relays
    <3>2. IsFiniteSet(Relays)
      BY EstablishAssumption, FS_Interval DEF Relays
    <3> QED  BY <1>2, <2>1, <3>1, <3>2, FS_Subset
  <2>3. ~ (Cardinality(S) < 2) => Second(S) \in Relays
    BY <1>2, <2>1, <2>2, SecondOf
  <2> QED  BY <1>1, <2>1, <2>3 DEF EstInv, EstTypeOK
<1>4. call.exit = None /\ path = <<>>
  BY <1>1 DEF EstInv, GivenExit, Stage
<1>5. EstTypeOK'
  BY <1>1, <1>2, <1>3 DEF EstInv, EstTypeOK
<1>6. GivenExit' /\ HopsApart'
  BY <1>1, <1>4, NoHops DEF GivenExit
<1>7. Stage'
  BY <1>1, <1>3, <1>4 DEF EstInv, Stage, GuardSteps
<1>8. EntriesBounded'
  BY <1>1, EntriesKept DEF EstInv
<1> QED  BY <1>5, <1>6, <1>7, <1>8 DEF EstInv

\* onion_pick_cpath_exit.
LEMMA PickExitStep ==
    ASSUME EstInv, PickExit
    PROVE  EstInv'
<1>1. /\ pc = "exit" /\ len' \in {1, RouteLen, RouteLen + 1}
      /\ \/ pc' = "failed"
         \/ pc' = "entries" /\ Listing
         \/ pc' = "populate"
      /\ UNCHANGED <<net, guards, call, goodExits, entries, exit, entry, path>>
  BY DEF PickExit, NewRouteLen, Fail
<1>2. path = <<>> /\ exit \in Relays /\ Len(path) = 0
  BY <1>1, EmptySeq DEF EstInv, Stage
<1>3. EstTypeOK' /\ GivenExit'
  BY <1>1 DEF EstInv, EstTypeOK, GivenExit
<1>4. Stage'
  BY <1>1, <1>2 DEF Stage, GuardSteps, Listing, RouteLen
<1>5. HopsApart' /\ EntriesBounded'
  BY <1>1, <1>2, NoHops, EntriesKept DEF EstInv
<1> QED  BY <1>3, <1>4, <1>5 DEF EstInv

\* The pair takes the place of the temporary exit.
LEMMA DrawPairStep ==
    ASSUME EstInv, NEW e \in Relays, NEW x \in Relays, DrawPair(e, x)
    PROVE  EstInv'
<1>1. /\ pc = "draw" /\ x \in goodExits
      /\ entry' \in Relays \cup {None} /\ exit' = x /\ pc' = "exit"
      /\ UNCHANGED <<net, guards, call, goodExits, entries, len, path>>
  BY DEF DrawPair
<1>2. path = <<>> /\ call.exit = None
  BY <1>1 DEF EstInv, Stage, GivenExit
<1>3. EstTypeOK' /\ GivenExit'
  BY <1>1, <1>2 DEF EstInv, EstTypeOK, GivenExit
<1>4. Stage'
  BY <1>1, <1>2 DEF EstInv, Stage, GuardSteps
<1>5. HopsApart' /\ EntriesBounded'
  BY <1>1, <1>2, NoHops, EntriesKept DEF EstInv
<1> QED  BY <1>3, <1>4, <1>5 DEF EstInv

\* The call ends.
LEMMA ReturnStep ==
    ASSUME EstInv, Return
    PROVE  EstInv'
<1>1. /\ call' = Idle /\ exit' = None /\ entry' = None /\ pc' = "idle"
      /\ goodExits' = {} /\ entries' = {} /\ len' = 0 /\ path' = <<>>
      /\ UNCHANGED <<net, guards>>
  BY DEF Return
<1>2. Idle \in Calls /\ Idle.exit = None
  BY DEF Idle, Calls
<1>3. path' \in Seq(Relays) /\ Len(path') = 0
  BY <1>1, EmptySeq
<1>4. EstTypeOK' /\ GivenExit'
  BY <1>1, <1>2, <1>3 DEF EstInv, EstTypeOK, GivenExit
<1>5. Stage'
  BY <1>1, <1>3 DEF Stage, GuardSteps
<1>6. HopsApart' /\ EntriesBounded'
  BY <1>1, NoHops, FS_EmptySet, EstablishAssumption DEF EntriesBounded
<1> QED  BY <1>4, <1>5, <1>6 DEF EstInv

\* No hop does ntor.
LEMMA PopulateAgainStep ==
    ASSUME EstInv, PopulateAgain
    PROVE  EstInv'
<1>1. /\ pc = "populate"
      /\ \/ pc' = "failed" /\ path' = path
         \/ pc' = "populate" /\ path' = <<>>
      /\ UNCHANGED <<net, guards, call, goodExits, entries, exit, entry, len>>
  BY DEF PopulateAgain, Fail
<1>2. path' \in Seq(Relays) /\ Len(path') <= len
  <2>1. path \in Seq(Relays) /\ Len(path) <= len /\ len \in Nat
    BY DEF EstInv, EstTypeOK, Stage, RouteLen
  <2>2. <<>> \in Seq(Relays) /\ Len(<<>>) = 0
    BY EmptySeq
  <2>3. CASE path' = path
    BY <2>1, <2>3
  <2>4. CASE path' = <<>>
    BY <2>1, <2>2, <2>4
  <2> QED  BY <1>1, <2>3, <2>4
<1>3. EstTypeOK' /\ GivenExit'
  BY <1>1, <1>2 DEF EstInv, EstTypeOK, GivenExit
<1>4. Stage'
  BY <1>1, <1>2 DEF EstInv, Stage, GuardSteps
<1>5. HopsApart' /\ EntriesBounded'
  BY <1>1, NoHops, HopsKept, EntriesKept DEF EstInv
<1> QED  BY <1>3, <1>4, <1>5 DEF EstInv

\* The other steps that only move on: to the guards, to the first hop, to
\* the end, or to where the C code has no defined behaviour.
LEMMA OtherStep ==
    ASSUME EstInv,
           \/ ListGuards \/ StandardGuard \/ Populate \/ HandleFirstHop
           \/ DrawNothing \/ LogsNullEntry \/ ExtendGarbage \/ NoLogFile
    PROVE  EstInv'
<1>1. /\ UNCHANGED <<net, guards, call, goodExits, entries, exit, entry, len, path>>
      /\ \/ pc = "entries" /\ pc' = "guards"
         \/ pc = "populate" /\ pc' = "guards" /\ path = <<>> /\ ~ Last
         \/ pc = "populate" /\ pc' = "firsthop" /\ Len(path) >= len
         \/ pc = "firsthop" /\ pc' \in {"done", "failed"}
         \/ pc' = "undefined"
  BY DEF ListGuards, StandardGuard, Populate, HandleFirstHop, DrawNothing,
         LogsNullEntry, ExtendGarbage, NoLogFile, locals, Fail
<1>2. path \in Seq(Relays) /\ Len(path) \in Nat /\ len \in Nat
  BY DEF EstInv, EstTypeOK, RouteLen
<1>3. path = <<>> => Len(path) = 0
  BY EmptySeq
<1>4. Stage'
  BY <1>1, <1>2, <1>3 DEF EstInv, Stage, GuardSteps, Listing, Last
<1>5. guards' \in Seq(Relays) /\ pc' # "exits"
  BY <1>1 DEF EstInv, EstTypeOK
<1> QED  BY <1>1, <1>4, <1>5, MovesOn

-----------------------------------------------------------------------------
(* The hops *)

\* Where a hop is added, and how far the path is.
LEMMA PathTypes ==
    ASSUME EstInv
    PROVE  /\ path \in Seq(Relays) /\ Len(path) \in Nat /\ len \in Nat
           /\ path = <<>> => Len(path) = 0
           /\ \A i \in 1 .. Len(path) : path[i] \in Relays
           /\ Len(path) <= len
<1>1. path \in Seq(Relays) /\ len \in Nat /\ Len(path) <= len
  BY DEF EstInv, EstTypeOK, Stage, RouteLen
<1> QED  BY <1>1, EmptySeq, ElementOfSeq

\* The last hop is the exit, which no hop before it is related to.
LEMMA ExtendLastStep ==
    ASSUME EstInv, ExtendLast
    PROVE  EstInv'
<1>1. /\ pc = "populate" /\ Len(path) = len - 1 /\ AppendHop(exit)
      /\ UNCHANGED <<net, guards, call, goodExits, entries, exit, entry, len>>
  BY DEF ExtendLast, Last
<1>2. exit \in Relays
  BY <1>1 DEF EstInv, Stage
<1>3. Len(path) < len /\ ~ (Len(path) + 1 < len) /\ Len(path) + 1 = len
  BY <1>1, PathTypes
<1>4. ASSUME NEW i \in 1 .. Len(path)
      PROVE  exit \notin Family(path[i]) \/ Ends(i, Len(path) + 1)
  <2>1. path[i] \in Relays /\ i < len
    BY <1>3, PathTypes
  <2>2. path[i] \notin Family(exit) \/ Ends(i, len)
    BY <2>1 DEF EstInv, HopsApart
  <2> QED  BY <1>2, <1>3, <2>1, <2>2, FamilySymmetric
<1> QED  BY <1>1, <1>2, <1>3, <1>4, HopAdded

\* The entry of a drawn pair is the first hop.
LEMMA ExtendEntryStep ==
    ASSUME EstInv, ExtendEntry
    PROVE  EstInv'
<1>1. /\ pc = "populate" /\ path = <<>> /\ ~ Last /\ entry \in Relays
      /\ AppendHop(entry)
      /\ UNCHANGED <<net, guards, call, goodExits, entries, exit, entry, len>>
  BY DEF ExtendEntry
<1>2. exit \in Relays
  BY <1>1 DEF EstInv, Stage
<1>3. Len(path) = 0 /\ Len(path) < len
  BY <1>1, PathTypes DEF EstInv, Stage
<1>4. call.exit = None
  BY <1>1, EstablishAssumption DEF EstInv, GivenExit, Relays, None, Garbage
<1>5. \A i \in 1 .. Len(path) :
          entry \notin Family(path[i]) \/ Ends(i, Len(path) + 1)
  BY <1>3
<1>6. Ends(Len(path) + 1, len)
  BY <1>3, <1>4 DEF Ends
<1> QED  BY <1>1, <1>2, <1>3, <1>5, <1>6, HopAdded

\* The entry is chosen the standard way, outside the family of the exit.
LEMMA StandardStep ==
    ASSUME EstInv, NEW S \in SUBSET (Relays \ Family(exit)),
           exit \in Relays, path = <<>>, len > 1, ChooseHop(S, "undefined"),
           UNCHANGED <<net, guards, call, goodExits, entries, exit, entry, len>>
    PROVE  EstInv'
<1>1. Len(path) = 0 /\ Len(path) < len
  BY PathTypes
<1>2. CASE S = {}
  <2>1. pc' = "undefined" /\ path' = path
    BY <1>2 DEF ChooseHop
  <2>2. Stage' /\ guards' \in Seq(Relays)
    BY <2>1 DEF EstInv, Stage, GuardSteps, EstTypeOK
  <2> QED  BY <2>1, <2>2, MovesOn
<1>3. CASE S # {}
  <2>1. PICK r \in S : AppendHop(r)
    BY <1>3 DEF ChooseHop
  <2>2. r \in Relays /\ r \notin Family(exit)
    OBVIOUS
  <2>3. \A i \in 1 .. Len(path) :
            r \notin Family(path[i]) \/ Ends(i, Len(path) + 1)
    BY <1>1
  <2> QED  BY <1>1, <2>1, <2>2, <2>3, HopAdded
<1> QED  BY <1>2, <1>3

\* ... among the guards ...
LEMMA GuardChosenStep ==
    ASSUME EstInv, GuardChosen
    PROVE  EstInv'
<1>1. /\ pc = "live" /\ ~ Listing /\ ChooseHop(Populated.list, "undefined")
      /\ UNCHANGED <<net, guards, call, goodExits, entries, exit, entry, len>>
  BY DEF GuardChosen
<1>2. exit \in Relays /\ path = <<>> /\ len > 1
  BY <1>1 DEF EstInv, Stage, GuardSteps
<1>3. Populated.list \in SUBSET (Relays \ Family(exit))
  BY ListedApart DEF EstInv
<1> QED  BY <1>1, <1>2, <1>3, StandardStep

\* ... or among all relays.
LEMMA StandardEntryStep ==
    ASSUME EstInv, StandardEntry
    PROVE  EstInv'
<1>1. /\ pc = "populate" /\ path = <<>> /\ ~ Last
      /\ UNCHANGED <<net, guards, call, goodExits, entries, exit, entry, len>>
  BY DEF StandardEntry
<1>2. PICK X, f : ChooseHop(AllBut(Family(exit) \cup X, f), "undefined")
  BY DEF StandardEntry
<1>3. AllBut(Family(exit) \cup X, f) \in SUBSET (Relays \ Family(exit))
  <2>1. PICK Y : Y = Family(exit) \cup X
    OBVIOUS
  <2>2. AllBut(Y, f) \in SUBSET (Relays \ Y)
    BY AllButExcludes DEF EstInv
  <2> QED  BY <2>1, <2>2
<1>4. exit \in Relays /\ len > 1
  <2>1. exit \in Relays /\ len > 0
    BY <1>1 DEF EstInv, Stage
  <2> QED  BY <1>1, <2>1, PathTypes DEF Last
<1> QED  BY <1>1, <1>2, <1>3, <1>4, StandardStep

\* The middle hops are no relatives of the exit and of the hops so far.
LEMMA ExtendMiddleStep ==
    ASSUME EstInv, ExtendMiddle
    PROVE  EstInv'
<1>1. /\ pc = "populate" /\ Len(path) < len - 1
      /\ ChooseHop(AllBut(MiddleExcluded, CallNeeds), "failed")
      /\ UNCHANGED <<net, guards, call, goodExits, entries, exit, entry, len>>
  BY DEF ExtendMiddle
<1>2. exit \in Relays
  BY <1>1 DEF EstInv, Stage
<1>3. Len(path) < len
  BY <1>1, PathTypes
<1>4. AllBut(MiddleExcluded, CallNeeds) \in SUBSET (Relays \ MiddleExcluded)
  BY AllButExcludes DEF EstInv
<1>5. CASE AllBut(MiddleExcluded, CallNeeds) = {}
  <2>1. pc' = "failed" /\ path' = path
    BY <1>1, <1>5 DEF ChooseHop
  <2>2. Stage' /\ guards' \in Seq(Relays)
    BY <1>1, <2>1 DEF EstInv, Stage, GuardSteps, EstTypeOK
  <2> QED  BY <1>1, <2>1, <2>2, MovesOn
<1>6. CASE AllBut(MiddleExcluded, CallNeeds) # {}
  <2>1. PICK r \in AllBut(MiddleExcluded, CallNeeds) : AppendHop(r)
    BY <1>1, <1>6 DEF ChooseHop
  <2>2. r \in Relays /\ r \notin MiddleExcluded
    BY <1>4
  <2>3. r \notin Family(exit)
    BY <2>2 DEF MiddleExcluded, Families
  <2>4. \A i \in 1 .. Len(path) :
            r \notin Family(path[i]) \/ Ends(i, Len(path) + 1)
    BY <2>2 DEF MiddleExcluded, Families
  <2> QED  BY <1>1, <1>2, <1>3, <2>1, <2>2, <2>3, <2>4, HopAdded
<1> QED  BY <1>5, <1>6

-----------------------------------------------------------------------------
(* The theorems *)

\* Before the first call there is no path.
LEMMA EstInitInv == EstInit => EstInv
<1> SUFFICES ASSUME EstInit PROVE EstInv
  OBVIOUS
<1>1. Idle \in Calls /\ Idle.exit = None
  BY DEF Idle, Calls
<1>2. <<>> \in Seq(Relays) /\ Len(<<>>) = 0
  BY EmptySeq
<1>3. EstTypeOK /\ GivenExit
  BY <1>1, <1>2 DEF EstInit, EstTypeOK, GivenExit
<1>4. Stage
  BY <1>2 DEF EstInit, Stage, GuardSteps
<1>5. HopsApart
  BY <1>2 DEF EstInit, HopsApart
<1>6. EntriesBounded
  BY FS_EmptySet, EstablishAssumption DEF EstInit, EntriesBounded
<1> QED  BY <1>3, <1>4, <1>5, <1>6 DEF EstInv

\* No step of a call breaks the invariant.
LEMMA EstStep == EstInv /\ [EstNext]_estVars => EstInv'
<1> SUFFICES ASSUME EstInv, [EstNext]_estVars PROVE EstInv'
  OBVIOUS
<1>1. CASE \/ FillGuards \/ PickedGuards \/ RetryRelaxed
           \/ \E r \in Relays : PickGuard(r) \/ RetryWithGuard(r)
  BY <1>1, GuardSearchStep
<1>2. CASE GuardsListed \/ ListEntries
  BY <1>2, EntriesListedStep
<1>3. CASE \E c \in Calls : Establish(c)
  BY <1>3, EstablishStep
<1>4. CASE ListExits
  BY <1>4, ListExitsStep
<1>5. CASE PickExit
  BY <1>5, PickExitStep
<1>6. CASE \E e, x \in Relays : DrawPair(e, x)
  BY <1>6, DrawPairStep
<1>7. CASE Return
  BY <1>7, ReturnStep
<1>8. CASE PopulateAgain
  BY <1>8, PopulateAgainStep
<1>9. CASE \/ ListGuards \/ StandardGuard \/ Populate \/ HandleFirstHop
           \/ DrawNothing \/ LogsNullEntry \/ ExtendGarbage \/ NoLogFile
  BY <1>9, OtherStep
<1>10. CASE ExtendLast
  BY <1>10, ExtendLastStep
<1>11. CASE ExtendEntry
  BY <1>11, ExtendEntryStep
<1>12. CASE GuardChosen
  BY <1>12, GuardChosenStep
<1>13. CASE StandardEntry
  BY <1>13, StandardEntryStep
<1>14. CASE ExtendMiddle
  BY <1>14, ExtendMiddleStep
<1>15. CASE UNCHANGED estVars
  <2>1. UNCHANGED <<net, guards, pc, call, goodExits, entries, exit, entry, len, path>>
    BY <1>15 DEF estVars, locals
  <2> QED
    BY <2>1, HopsKept, EntriesKept
       DEF EstInv, EstTypeOK, GivenExit, Stage, Listing
<1> QED
  BY <1>1, <1>2, <1>3, <1>4, <1>5, <1>6, <1>7, <1>8, <1>9, <1>10, <1>11, <1>12,
     <1>13, <1>14, <1>15
     DEF EstNext, EstSteps

\* The invariant holds throughout every sequence of calls.
THEOREM EstInvHolds == EstSpec => []EstInv
  BY EstInitInv, EstStep, PTL DEF EstSpec

\* The hops of a finished path are pairwise unrelated, up to the two ends of a
\* path around a drawn pair (choose_good_middle_server,
\* populate_live_entry_guards), for any relays and any relations of theirs.
THEOREM HopsAreUnrelated == EstSpec => []PathUnrelated
<1>1. EstInv => PathUnrelated
  <2> SUFFICES ASSUME EstInv, pc \in {"firsthop", "done"}
               PROVE  \A i, j \in 1 .. Len(path) :
                          i < j => \/ Unrelated(i, j)
                                   \/ call.exit = None /\ i = 1 /\ j = Len(path)
    BY DEF PathUnrelated
  <2>1. Len(path) = len
    BY DEF EstInv, Stage
  <2> QED  BY <2>1 DEF EstInv, HopsApart, Ends
<1> QED  BY <1>1, EstInvHolds, PTL

\* However many guards the calls before have collected, no more entries are
\* listed than guards are needed (populate_live_entry_guards).
THEOREM GuardEntriesBounded == EstSpec => []EntriesBounded
<1>1. EstInv => EntriesBounded
  BY DEF EstInv
<1> QED  BY <1>1, EstInvHolds, PTL

=============================================================================
