-------------------------- MODULE CircuitUseProofs --------------------------
(* Proofs about the circuits and the streams on them, for any number of     *)
(* either and any timeouts: streams are only on open circuits, all those of *)
(* a circuit go to one AS, no circuit stays reserved, and what is under     *)
(* construction or fails stays bounded.                                     *)
EXTENDS CircuitUse, FiniteSetTheorems, SequenceTheorems, TLAPS

\* A circuit under construction has never been used.
BuildingIsFresh ==
  \A c \in Circ : Building(c) => circ[c].dirty = Clean /\ ~ circ[c].unusable

\* A circuit that may carry streams.
Carries(r) ==
  r.state = "open" /\ r.used /\ r.dirty # Clean

\* A stream is on a circuit that carries it and remembers its destination, or
\* on none.
StreamOK(s, st, ci) ==
  \/ /\ st[s].state \in {"none", "wait"} /\ st[s].on = None
     /\ st[s].state = "wait" => st[s].dest # None
  \/ /\ st[s].state \in {"connect", "open"} /\ st[s].on \in Circ
     /\ st[s].dest # None
     /\ Carries(ci[st[s].on]) /\ ci[st[s].on].dest = st[s].dest

StreamsCarried == \A s \in Stream : StreamOK(s, stream, circ)

\* The calls that are still to be made: only the first can be a loop that
\* attaches streams, and these are still waiting.
Calls ==
  [op : {"attach", "clear", "expire_building", "expire_beginning", "expire",
         "attach_all", "expire_old", "predict", "close_all_marked"},
   arg : (SUBSET Stream) \cup Circ]

CallOK(a) ==
  /\ a.op \in {"attach", "expire"} => a.arg \subseteq Stream
  /\ a.op = "clear" => a.arg \in Circ

Later(q) ==
  \A i \in 1 .. Len(q) : CallOK(q[i]) /\ q[i].op # "attach"

AgendaOK(q, st) ==
  q # << >> =>
    /\ Later(Tail(q))
    /\ CallOK(Head(q))
    /\ Head(q).op = "attach" => \A s \in Head(q).arg : st[s].state = "wait"

\* An open circuit that is reserved and was never used is to be cleared.
HasClear(q, c) ==
  \E i \in 1 .. Len(q) : q[i].op = "clear" /\ q[i].arg = c

Reserved(r) == r.state = "open" /\ ~ r.used /\ r.dest # None

ReservationsCleared ==
  \A c \in Circ : Reserved(circ[c]) => HasClear(agenda, c)

UseInv ==
  /\ TypeOK
  /\ BuildingIsFresh
  /\ StreamsCarried
  /\ AgendaOK(agenda, stream)
  /\ ReservationsCleared
  /\ PendingBounded
  /\ FailuresThrottled

-----------------------------------------------------------------------------
(* The agenda *)

\* Head and tail of a sequence that is not empty.
LEMMA TailProps ==
  ASSUME NEW S, NEW q \in Seq(S), q # << >>
  PROVE  /\ Head(q) \in S /\ Tail(q) \in Seq(S)
         /\ Len(Tail(q)) = Len(q) - 1 /\ Len(q) \in Nat \ {0}
         /\ Head(q) = q[1]
         /\ \A i \in 1 .. Len(Tail(q)) : Tail(q)[i] = q[i + 1]
  OBVIOUS

\* An element in front of a sequence.
LEMMA ConsProps ==
  ASSUME NEW S, NEW q \in Seq(S), NEW x \in S
  PROVE  /\ <<x>> \o q \in Seq(S) /\ <<x>> \o q # << >>
         /\ Head(<<x>> \o q) = x /\ Tail(<<x>> \o q) = q
<1> DEFINE r == <<x>> \o q
<1>1. <<x>> \in Seq(S) /\ Len(<<x>>) = 1 /\ <<x>>[1] = x
  OBVIOUS
<1>2. /\ r \in Seq(S) /\ Len(r) = Len(<<x>>) + Len(q)
      /\ \A i \in 1 .. Len(<<x>>) + Len(q) :
            r[i] = IF i <= Len(<<x>>) THEN <<x>>[i] ELSE q[i - Len(<<x>>)]
  BY <1>1, ConcatProperties
<1>3. /\ r \in Seq(S) /\ Len(r) = 1 + Len(q) /\ Len(q) \in Nat
      /\ \A i \in 1 .. 1 + Len(q) : r[i] = IF i <= 1 THEN x ELSE q[i - 1]
  BY <1>1, <1>2
<1> HIDE DEF r
<1>4. r # << >> /\ r[1] = x
  BY <1>3
<1>5. /\ Tail(r) \in Seq(S) /\ Len(Tail(r)) = Len(q) /\ Head(r) = x
      /\ \A i \in 1 .. Len(Tail(r)) : Tail(r)[i] = r[i + 1]
  BY <1>3, <1>4, TailProps
<1>6. \A i \in 1 .. Len(q) : Tail(r)[i] = q[i]
  <2> SUFFICES ASSUME NEW i \in 1 .. Len(q) PROVE Tail(r)[i] = q[i]
    OBVIOUS
  <2>1. i + 1 \in 1 .. 1 + Len(q) /\ ~(i + 1 <= 1) /\ (i + 1) - 1 = i
    BY <1>3
  <2>2. Tail(r)[i] = r[i + 1]
    BY <1>5
  <2>3. r[i + 1] = q[(i + 1) - 1]
    BY <1>3, <2>1
  <2> QED  BY <2>1, <2>2, <2>3
<1>7. Tail(r) = q
  BY <1>5, <1>6, SeqEqual
<1> QED  BY <1>3, <1>4, <1>5, <1>7 DEF r

\* What waits in the agenda without an attachment fits any streams.
LEMMA LaterIsOK ==
  ASSUME NEW q \in Seq(Calls), Later(q), NEW st
  PROVE  AgendaOK(q, st)
<1> SUFFICES ASSUME q # << >> PROVE AgendaOK(q, st)
  BY DEF AgendaOK
<1>1. /\ Head(q) = q[1] /\ Len(q) \in Nat \ {0}
      /\ Tail(q) \in Seq(Calls) /\ Len(Tail(q)) = Len(q) - 1
      /\ \A i \in 1 .. Len(Tail(q)) : Tail(q)[i] = q[i + 1]
  BY TailProps
<1>2. CallOK(Head(q)) /\ Head(q).op # "attach"
  BY <1>1 DEF Later
<1>3. Later(Tail(q))
  BY <1>1 DEF Later
<1> QED  BY <1>2, <1>3 DEF AgendaOK

\* A call in front of the agenda keeps it well formed.
LEMMA ConsOK ==
  ASSUME NEW q \in Seq(Calls), Later(q), NEW a \in Calls, CallOK(a), NEW st,
         a.op = "attach" => \A s \in a.arg : st[s].state = "wait"
  PROVE  /\ <<a>> \o q \in Seq(Calls)
         /\ AgendaOK(<<a>> \o q, st)
         /\ a.op # "attach" => Later(<<a>> \o q)
         /\ \A c : HasClear(q, c) => HasClear(<<a>> \o q, c)
<1> DEFINE r == <<a>> \o q
<1>1. r \in Seq(Calls) /\ r # << >> /\ Head(r) = a /\ Tail(r) = q
  BY ConsProps
<1> HIDE DEF r
<1>2. AgendaOK(r, st)
  BY <1>1 DEF AgendaOK
<1>3. /\ Len(r) \in Nat \ {0} /\ Len(q) = Len(r) - 1 /\ r[1] = a
      /\ \A i \in 1 .. Len(q) : q[i] = r[i + 1]
  BY <1>1, TailProps
<1>4. ASSUME a.op # "attach" PROVE Later(r)
  <2> SUFFICES ASSUME NEW i \in 1 .. Len(r)
               PROVE  CallOK(r[i]) /\ r[i].op # "attach"
    BY DEF Later
  <2>1. CASE i = 1
    BY <1>3, <1>4, <2>1
  <2>2. CASE i # 1
    <3>1. i - 1 \in 1 .. Len(q) /\ (i - 1) + 1 = i
      BY <1>3, <2>2
    <3>2. r[i] = q[i - 1]
      BY <1>3, <3>1
    <3> QED  BY <3>1, <3>2 DEF Later
  <2> QED  BY <2>1, <2>2
<1>5. ASSUME NEW c, HasClear(q, c) PROVE HasClear(r, c)
  <2>1. PICK i \in 1 .. Len(q) : q[i].op = "clear" /\ q[i].arg = c
    BY <1>5 DEF HasClear
  <2>2. i + 1 \in 1 .. Len(r) /\ r[i + 1] = q[i]
    BY <1>3
  <2> QED  BY <2>1, <2>2 DEF HasClear
<1> QED  BY <1>1, <1>2, <1>4, <1>5 DEF r

\* The calls of a loop over streams, in front of the agenda, keep it well
\* formed.
LEMMA LoopOK ==
  ASSUME NEW q \in Seq(Calls), Later(q), NEW set \in SUBSET Stream, NEW st,
         NEW op \in {"attach", "expire"},
         op = "attach" => \A s \in set : st[s].state = "wait"
  PROVE  /\ Loop(op, set, q) \in Seq(Calls)
         /\ AgendaOK(Loop(op, set, q), st)
         /\ op # "attach" => Later(Loop(op, set, q))
         /\ \A c : HasClear(q, c) => HasClear(Loop(op, set, q), c)
<1>1. CASE set = {}
  BY <1>1, LaterIsOK DEF Loop
<1>2. CASE set # {}
  <2> DEFINE a == Call(op, set)
  <2>1. a \in Calls /\ a.op = op /\ a.arg = set
    BY DEF Call, Calls
  <2>2. CallOK(a)
    BY <2>1 DEF CallOK
  <2>3. Loop(op, set, q) = <<a>> \o q
    BY <1>2 DEF Loop
  <2> HIDE DEF a
  <2> QED  BY <2>1, <2>2, <2>3, ConsOK
<1> QED  BY <1>1, <1>2

\* The head of the agenda is done.
LEMMA RestOK ==
  ASSUME NEW q \in Seq(Calls), q # << >>, NEW st, AgendaOK(q, st)
  PROVE  /\ Head(q) \in Calls /\ CallOK(Head(q))
         /\ Tail(q) \in Seq(Calls) /\ Later(Tail(q))
         /\ \A u : AgendaOK(Tail(q), u)
         /\ \A c : HasClear(q, c) =>
              \/ HasClear(Tail(q), c)
              \/ Head(q).op = "clear" /\ Head(q).arg = c
<1>1. /\ Head(q) \in Calls /\ Head(q) = q[1] /\ Len(q) \in Nat \ {0}
      /\ Tail(q) \in Seq(Calls) /\ Len(Tail(q)) = Len(q) - 1
      /\ \A i \in 1 .. Len(Tail(q)) : Tail(q)[i] = q[i + 1]
  BY TailProps
<1>2. Later(Tail(q)) /\ CallOK(Head(q))
  BY DEF AgendaOK
<1>3. \A u : AgendaOK(Tail(q), u)
  BY <1>1, <1>2, LaterIsOK
<1>4. ASSUME NEW c, HasClear(q, c), ~(Head(q).op = "clear" /\ Head(q).arg = c)
      PROVE  HasClear(Tail(q), c)
  <2>1. PICK i \in 1 .. Len(q) : q[i].op = "clear" /\ q[i].arg = c
    BY <1>4 DEF HasClear
  <2>2. i # 1
    BY <1>1, <1>4, <2>1
  <2>3. i - 1 \in 1 .. Len(Tail(q)) /\ (i - 1) + 1 = i
    BY <1>1, <2>2
  <2>4. Tail(q)[i - 1] = q[i]
    BY <1>1, <2>3
  <2> QED  BY <2>1, <2>3, <2>4 DEF HasClear
<1> QED  BY <1>1, <1>2, <1>3, <1>4

-----------------------------------------------------------------------------
(* Circuits and streams *)

\* The caps on ages are naturals, and Clean is none of the ages it stands
\* beside.
LEMMA Times ==
  /\ AgeCap \in Nat /\ DirtyCap \in Nat /\ Clean \in Nat
  /\ MaxDirtiness \in 0 .. Clean /\ MaxDirtiness # Clean
  /\ DirtyCap \in 0 .. Clean /\ DirtyCap # Clean /\ 0 \in 0 .. Clean /\ 0 # Clean
  /\ Clean \in 0 .. Clean /\ 0 \in 0 .. AgeCap
  /\ None \notin AS /\ None \notin Circ
<1>1. {MaxDirtiness, FourHopTimeout, CloseTime, IdleTimeout} \subseteq Nat
  BY UseAssumption
<1> QED  BY <1>1, UseAssumption DEF AgeCap, DirtyCap, Clean, Larger

\* An age stays within its cap.
LEMMA Older01 ==
  ASSUME NEW cap \in Nat, NEW a \in 0 .. cap
  PROVE  Older(a, cap) \in 0 .. cap
  BY DEF Older, Smaller

\* The records of new, marked and free circuits and streams have their types.
LEMMA FreshTypes ==
  /\ NoCircuit \in Circuits /\ Marked \in Circuits /\ NoStream \in Streams
  /\ \A st \in {"chan_wait", "building"} : Launched(st) \in Circuits
<1>1. NoCircuit \in Circuits
  BY Times DEF NoCircuit, Circuits
<1>2. Marked \in Circuits /\ \A st \in {"chan_wait", "building"} : Launched(st) \in Circuits
  BY <1>1 DEF Marked, Launched, Circuits
<1>3. NoStream \in Streams
  <2>1. 0 \in 0 .. SocksTimeout /\ 0 \in 0 .. RetryTimeout
    BY UseAssumption
  <2> QED  BY <2>1 DEF NoStream, Streams
<1> QED  BY <1>1, <1>2, <1>3

\* The fields of these records.
LEMMA FreshFields ==
  /\ Marked.state = "marked" /\ NoCircuit.state = "free"
  /\ \A st : /\ Launched(st).state = st /\ Launched(st).purpose = "general"
             /\ Launched(st).dest = None /\ Launched(st).dirty = Clean
             /\ Launched(st).unusable = FALSE
  /\ NoStream.state = "none" /\ NoStream.on = None
  BY DEF Marked, NoCircuit, NoStream, Launched

\* What reserving a circuit for a stream changes: its destination.
LEMMA IsolatedFields ==
  ASSUME TypeOK, NEW r \in Circuits, NEW s \in Stream
  PROVE  /\ Isolated(r, s) \in Circuits
         /\ Isolated(r, s).state = r.state /\ Isolated(r, s).purpose = r.purpose
         /\ Isolated(r, s).used = r.used /\ Isolated(r, s).dirty = r.dirty
         /\ Isolated(r, s).unusable = r.unusable
         /\ Isolated(r, s).dest = IF r.dest = None THEN stream[s].dest ELSE r.dest
<1>1. stream[s].dest \in AS \cup {None}
  BY DEF TypeOK, Streams
<1> QED  BY <1>1 DEF Isolated, Circuits

\* What attaching a stream changes: destination, use and dirtiness.
LEMMA CarryingFields ==
  ASSUME TypeOK, NEW r \in Circuits, NEW s \in Stream
  PROVE  /\ Carrying(r, s) \in Circuits
         /\ Carrying(r, s).state = r.state /\ Carrying(r, s).purpose = r.purpose
         /\ Carrying(r, s).used = TRUE /\ Carrying(r, s).dirty # Clean
         /\ Carrying(r, s).dest = IF r.dest = None THEN stream[s].dest ELSE r.dest
<1> DEFINE i == Isolated(r, s)
<1>1. /\ i \in Circuits
      /\ i.state = r.state /\ i.purpose = r.purpose
      /\ i.dest = IF r.dest = None THEN stream[s].dest ELSE r.dest
  BY IsolatedFields
<1> HIDE DEF i
<1> DEFINE d == IF i.dirty = Clean THEN 0 ELSE i.dirty
           p == IF i.path = "unused" THEN "attempted" ELSE i.path
<1>2. d \in 0 .. Clean /\ d # Clean
  BY <1>1, Times DEF Circuits
<1>3. p \in {"unused", "attempted", "succeeded"}
  BY <1>1 DEF Circuits
<1>4. Carrying(r, s) = [i EXCEPT !.used = TRUE, !.dirty = d, !.path = p]
  BY DEF Carrying, i
<1> HIDE DEF d, p
<1> QED  BY <1>1, <1>2, <1>3, <1>4 DEF Circuits

\* What mark_circuit_unusable_for_new_conns changes.
LEMMA UnusableFields ==
  ASSUME NEW r \in Circuits
  PROVE  /\ Unusable(r) \in Circuits
         /\ Unusable(r).state = r.state /\ Unusable(r).purpose = r.purpose
         /\ Unusable(r).used = r.used /\ Unusable(r).dest = r.dest
         /\ Unusable(r).dirty # Clean
<1> DEFINE d == IF r.dirty = Clean THEN MaxDirtiness
                ELSE Smaller(r.dirty + MaxDirtiness, DirtyCap)
<1>1. r.dirty \in 0 .. Clean /\ MaxDirtiness \in Nat /\ DirtyCap \in Nat
  BY Times, UseAssumption DEF Circuits
<1>2. d \in 0 .. Clean /\ d # Clean
  BY <1>1, Times DEF Smaller, Clean, DirtyCap
<1>3. Unusable(r) = [r EXCEPT !.dirty = d, !.unusable = TRUE]
  BY DEF Unusable
<1> HIDE DEF d
<1> QED  BY <1>2, <1>3 DEF Circuits

\* What rolling back path bias changes.
LEMMA RolledBackFields ==
  ASSUME NEW r \in Circuits
  PROVE  /\ RolledBack(r) \in Circuits
         /\ RolledBack(r).state = r.state /\ RolledBack(r).purpose = r.purpose
         /\ RolledBack(r).used = r.used /\ RolledBack(r).dest = r.dest
         /\ RolledBack(r).dirty = r.dirty
  BY DEF RolledBack, Circuits

\* What a path bias probe changes.
LEMMA ProbedFields ==
  ASSUME NEW r \in Circuits
  PROVE  /\ Probed(r) \in Circuits
         /\ Probed(r).state = r.state /\ Probed(r).purpose = "testing"
         /\ Probed(r).used = r.used /\ Probed(r).dest = r.dest
         /\ Probed(r).dirty # Clean
  BY Times DEF Probed, Circuits

-----------------------------------------------------------------------------
(* Counting *)

\* The circuits under construction are finitely many, the limits naturals.
LEMMA PendingNat ==
  /\ IsFiniteSet(Pending) /\ Cardinality(Pending) \in Nat
  /\ PendingLimit \in Nat /\ MaxPending <= PendingLimit
  /\ MaxUnused <= PendingLimit /\ MaxFailures \in Nat /\ MaxPending \in Nat
  /\ MaxUnused \in Nat /\ FailureBound \in Nat
<1>1. IsFiniteSet(Pending)
  BY UseAssumption, FS_Subset DEF Pending
<1>2. Cardinality(Pending) \in Nat
  BY <1>1, FS_CardinalityType
<1>3. {MaxPending, MaxUnused, MaxFailures, FailureBound} \subseteq Nat
  BY UseAssumption
<1>4. PendingLimit \in Nat /\ MaxPending <= PendingLimit /\ MaxUnused <= PendingLimit
  BY <1>3 DEF PendingLimit, Larger
<1> QED  BY <1>1, <1>2, <1>3, <1>4

\* Nothing new is under construction and nothing more has failed.
LEMMA NumbersFewer ==
  ASSUME UseInv, Pending' \subseteq Pending, failures' \in Nat,
         failedLast' => \/ failedLast /\ failures' <= failures
                        \/ failures' = 0
  PROVE  PendingBounded' /\ FailuresThrottled'
<1>1. PICK P : P = Pending'
  OBVIOUS
<1>2. IsFiniteSet(P) /\ Cardinality(P) <= Cardinality(Pending)
      /\ Cardinality(P) \in Nat
  BY <1>1, PendingNat, FS_Subset, FS_CardinalityType
<1>3. failures \in Nat
  BY PendingNat DEF UseInv, TypeOK
<1>4. Cardinality(P) <= PendingLimit
  BY <1>2, PendingNat DEF UseInv, PendingBounded
<1>5. ASSUME failedLast'
      PROVE  failures' + Cardinality(P) <= MaxFailures + PendingLimit
  <2>1. CASE failedLast /\ failures' <= failures
    <3>1. failures + Cardinality(Pending) <= MaxFailures + PendingLimit
      BY <2>1 DEF UseInv, FailuresThrottled
    <3> QED  BY <1>2, <1>3, <2>1, <3>1, PendingNat
  <2>2. CASE failures' = 0
    BY <1>2, <1>4, <2>2, PendingNat
  <2> QED  BY <1>5, <2>1, <2>2
<1>6. PendingBounded'
  BY <1>1, <1>4 DEF PendingBounded, PendingLimit
<1>7. FailuresThrottled'
  BY <1>1, <1>5 DEF FailuresThrottled, PendingLimit
<1> QED  BY <1>6, <1>7

\* A launch, below the limit and not throttled.
LEMMA NumbersLaunch ==
  ASSUME UseInv, NEW c \in Circ, Pending' \subseteq Pending \cup {c},
         Cardinality(Pending) < PendingLimit, ~ Throttled,
         failures' = failures, failedLast' = failedLast
  PROVE  PendingBounded' /\ FailuresThrottled'
<1>1. PICK P : P = Pending'
  OBVIOUS
<1>2. /\ IsFiniteSet(Pending \cup {c})
      /\ Cardinality(Pending \cup {c}) <= Cardinality(Pending) + 1
      /\ Cardinality(Pending \cup {c}) \in Nat
  <2>1. IsFiniteSet(Pending \cup {c})
        /\ Cardinality(Pending \cup {c})
             = IF c \in Pending THEN Cardinality(Pending)
               ELSE Cardinality(Pending) + 1
    BY PendingNat, FS_AddElement
  <2> QED  BY <2>1, PendingNat
<1>3. Cardinality(P) <= Cardinality(Pending \cup {c}) /\ Cardinality(P) \in Nat
  BY <1>1, <1>2, FS_Subset, FS_CardinalityType
<1>4. Cardinality(P) <= PendingLimit
  BY <1>2, <1>3, PendingNat
<1>5. failures \in Nat
  BY PendingNat DEF UseInv, TypeOK
<1>6. ASSUME failedLast
      PROVE  failures + Cardinality(P) <= MaxFailures + PendingLimit
  <2>1. failures <= MaxFailures
    BY <1>5, <1>6, PendingNat DEF Throttled
  <2> QED  BY <1>3, <1>4, <1>5, <2>1, PendingNat
<1>7. PendingBounded'
  BY <1>1, <1>4 DEF PendingBounded, PendingLimit
<1>8. FailuresThrottled'
  BY <1>1, <1>6 DEF FailuresThrottled, PendingLimit
<1> QED  BY <1>7, <1>8

\* A launch that fails at once.
LEMMA NumbersFail ==
  ASSUME UseInv, Pending' = Pending, Cardinality(Pending) < PendingLimit,
         ~ Throttled, failures' = Failed(1), failedLast' = failedLast
  PROVE  PendingBounded' /\ FailuresThrottled' /\ failures' \in 0 .. FailureBound
<1>1. failures \in Nat
  BY PendingNat DEF UseInv, TypeOK
<1>2. failures' \in 0 .. FailureBound /\ failures' <= failures + 1
  BY <1>1, PendingNat DEF Failed, Smaller
<1>3. PICK P : P = Pending'
  OBVIOUS
<1>4. ASSUME failedLast
      PROVE  failures' + Cardinality(P) <= MaxFailures + PendingLimit
  <2>1. failures <= MaxFailures
    BY <1>1, <1>4, PendingNat DEF Throttled
  <2>2. Cardinality(P) = Cardinality(Pending)
    BY <1>3
  <2> QED  BY <1>1, <1>2, <2>1, <2>2, PendingNat
<1>5. PendingBounded'
  BY DEF UseInv, PendingBounded, PendingLimit
<1>6. FailuresThrottled'
  BY <1>3, <1>4 DEF FailuresThrottled, PendingLimit
<1> QED  BY <1>2, <1>5, <1>6

\* Circuits are given up: each was counted as pending, and now as a failure.
LEMMA NumbersGone ==
  ASSUME UseInv, NEW gone, Pending' \subseteq Pending \ gone,
         failures' = Failed(BuildFailures(gone)), failedLast' = failedLast
  PROVE  PendingBounded' /\ FailuresThrottled' /\ failures' \in 0 .. FailureBound
<1> DEFINE A == gone \cap Pending
           B == Pending \ gone
<1>1. IsFiniteSet(A) /\ IsFiniteSet(B)
  BY PendingNat, FS_Subset
<1>2. Cardinality(A) \in Nat /\ Cardinality(B) \in Nat
      /\ Cardinality(A) + Cardinality(B) = Cardinality(Pending)
  <2>1. Pending = A \cup B /\ A \cap B = {}
    OBVIOUS
  <2>2. Cardinality(A \cup B)
          = Cardinality(A) + Cardinality(B) - Cardinality(A \cap B)
    BY <1>1, FS_Union
  <2>3. Cardinality(A) \in Nat /\ Cardinality(B) \in Nat /\ Cardinality({}) = 0
    BY <1>1, FS_CardinalityType, FS_EmptySet
  <2>4. Cardinality(A \cap B) = 0 /\ Cardinality(A \cup B) = Cardinality(Pending)
    BY <2>1, <2>3
  <2> HIDE DEF A, B
  <2> QED  BY <2>2, <2>3, <2>4
<1>3. failures' = Failed(Cardinality(A))
  BY DEF BuildFailures
<1> HIDE DEF A, B
<1>4. failures \in Nat
  BY PendingNat DEF UseInv, TypeOK
<1>5. failures' \in 0 .. FailureBound /\ failures' <= failures + Cardinality(A)
  BY <1>2, <1>3, <1>4, PendingNat DEF Failed, Smaller
<1>6. PICK P : P = Pending'
  OBVIOUS
<1>7. Cardinality(P) <= Cardinality(B) /\ Cardinality(P) \in Nat
  <2>1. P \subseteq B
    BY <1>6 DEF B
  <2> QED  BY <1>1, <2>1, FS_Subset, FS_CardinalityType
<1>8. PendingBounded'
  <2>1. Cardinality(P) <= PendingLimit
    BY <1>2, <1>7, PendingNat DEF UseInv, PendingBounded
  <2> QED  BY <1>6, <2>1 DEF PendingBounded, PendingLimit
<1>9. ASSUME failedLast
      PROVE  failures' + Cardinality(P) <= MaxFailures + PendingLimit
  <2>1. failures + Cardinality(Pending) <= MaxFailures + PendingLimit
    BY <1>9 DEF UseInv, FailuresThrottled
  <2> QED  BY <1>2, <1>4, <1>5, <1>7, <2>1, PendingNat
<1>10. FailuresThrottled'
  BY <1>6, <1>9 DEF FailuresThrottled, PendingLimit
<1> QED  BY <1>5, <1>8, <1>10

-----------------------------------------------------------------------------
(* What the steps have in common *)

\* The parts of the invariant that most steps use.
LEMMA InvParts ==
  ASSUME UseInv
  PROVE  /\ circ \in [Circ -> Circuits] /\ stream \in [Stream -> Streams]
         /\ failures \in 0 .. FailureBound /\ failures \in Nat
         /\ agenda \in Seq(Calls) /\ AgendaOK(agenda, stream)
         /\ \A s \in Stream : StreamOK(s, stream, circ)
         /\ \A c \in Circ : Building(c) => circ[c].dirty = Clean /\ ~ circ[c].unusable
         /\ \A c \in Circ : Reserved(circ[c]) => HasClear(agenda, c)
<1>1. failures \in 0 .. FailureBound /\ FailureBound \in Nat
  BY PendingNat DEF UseInv, TypeOK
<1> QED  BY <1>1 DEF UseInv, TypeOK, Calls, StreamsCarried, BuildingIsFresh,
                    ReservationsCleared

\* The running call of a handler that is not a loop ends.
LEMMA CallEnds ==
  ASSUME UseInv, NEW op, Running(op)
  PROVE  /\ agenda # << >> /\ Head(agenda) \in Calls /\ Head(agenda).op = op
         /\ CallOK(Head(agenda))
         /\ Rest \in Seq(Calls) /\ Later(Rest) /\ \A u : AgendaOK(Rest, u)
         /\ \A c : HasClear(agenda, c) =>
              \/ HasClear(Rest, c)
              \/ op = "clear" /\ Head(agenda).arg = c
<1>1. agenda # << >> /\ Head(agenda).op = op
  BY DEF Running
<1>2. agenda \in Seq(Calls) /\ AgendaOK(agenda, stream)
  BY InvParts
<1> QED  BY <1>1, <1>2, RestOK DEF Rest

\* A loop goes on with the other streams.
LEMMA LoopGoesOn ==
  ASSUME UseInv, NEW op \in {"attach", "expire"}, Running(op), NEW s \in Stream,
         s \in Head(agenda).arg, NEW st,
         \A t \in Stream \ {s} : st[t].state = stream[t].state
  PROVE  /\ After(s) \in Seq(Calls) /\ AgendaOK(After(s), st)
         /\ op = "expire" => Later(After(s))
         /\ op = "attach" => stream[s].state = "wait"
         /\ \A c : HasClear(agenda, c) => HasClear(After(s), c)
<1> DEFINE set == Head(agenda).arg \ {s}
<1>1. /\ Rest \in Seq(Calls) /\ Later(Rest) /\ Head(agenda).op = op
      /\ CallOK(Head(agenda)) /\ agenda # << >>
      /\ \A c : HasClear(agenda, c) => HasClear(Rest, c)
  BY CallEnds
<1>2. Head(agenda).arg \subseteq Stream
  BY <1>1 DEF CallOK
<1>3. op = "attach" => \A t \in Head(agenda).arg : stream[t].state = "wait"
  BY <1>1, InvParts DEF AgendaOK
<1>4. set \in SUBSET Stream /\ (op = "attach" => \A t \in set : st[t].state = "wait")
  BY <1>2, <1>3
<1>5. After(s) = Loop(op, set, Rest)
  BY <1>1 DEF After
<1> HIDE DEF set
<1>6. /\ Loop(op, set, Rest) \in Seq(Calls)
      /\ AgendaOK(Loop(op, set, Rest), st)
      /\ op # "attach" => Later(Loop(op, set, Rest))
      /\ \A c : HasClear(Rest, c) => HasClear(Loop(op, set, Rest), c)
  BY <1>1, <1>4, LoopOK
<1> QED  BY <1>1, <1>3, <1>5, <1>6

\* No circuit changes.
LEMMA CircuitsSame ==
  ASSUME UseInv, circ' = circ
  PROVE  BuildingIsFresh' /\ Pending' = Pending
  BY DEF UseInv, BuildingIsFresh, Building, Pending

\* One circuit changes, and no stream.
LEMMA OneCircuit ==
  ASSUME UseInv, NEW c \in Circ, NEW r \in Circuits,
         circ' = [circ EXCEPT ![c] = r], stream' = stream,
         r.state \in {"chan_wait", "building"} => r.dirty = Clean /\ ~ r.unusable,
         Carries(circ[c]) => Carries(r) /\ r.dest = circ[c].dest
  PROVE  /\ circ' \in [Circ -> Circuits]
         /\ \A d \in Circ : circ'[d] = IF d = c THEN r ELSE circ[d]
         /\ BuildingIsFresh' /\ StreamsCarried'
         /\ Pending' \subseteq Pending \cup {c}
         /\ (c \in Pending \/ r.state \notin {"chan_wait", "building"})
              => Pending' \subseteq Pending
<1>1. circ \in [Circ -> Circuits]
  BY InvParts
<1>2. \A d \in Circ : circ'[d] = IF d = c THEN r ELSE circ[d]
  BY <1>1
<1>3. circ' \in [Circ -> Circuits]
  BY <1>1
<1>4. BuildingIsFresh'
  BY <1>2, InvParts DEF BuildingIsFresh, Building
<1>5. StreamsCarried'
  <2> SUFFICES ASSUME NEW s \in Stream PROVE StreamOK(s, stream, circ')
    BY DEF StreamsCarried
  <2>1. StreamOK(s, stream, circ)
    BY InvParts
  <2> QED  BY <1>2, <2>1 DEF StreamOK
<1>6. /\ Pending' \subseteq Pending \cup {c}
      /\ (c \in Pending \/ r.state \notin {"chan_wait", "building"})
           => Pending' \subseteq Pending
  BY <1>2 DEF Pending, Building
<1> QED  BY <1>2, <1>3, <1>4, <1>5, <1>6

\* A stream is closed, or waits again, and no circuit changes.
LEMMA OneStream ==
  ASSUME UseInv, NEW s \in Stream, NEW x \in Streams,
         stream' = [stream EXCEPT ![s] = x], circ' = circ,
         x.on = None, x.state \in {"none", "wait"}, x.state = "wait" => x.dest # None
  PROVE  /\ stream' \in [Stream -> Streams] /\ StreamsCarried'
         /\ \A t \in Stream : stream'[t] = IF t = s THEN x ELSE stream[t]
<1>1. stream \in [Stream -> Streams]
  BY InvParts
<1>2. \A t \in Stream : stream'[t] = IF t = s THEN x ELSE stream[t]
  BY <1>1
<1>3. StreamsCarried'
  <2> SUFFICES ASSUME NEW t \in Stream PROVE StreamOK(t, stream', circ)
    BY DEF StreamsCarried
  <2>1. StreamOK(t, stream, circ)
    BY InvParts
  <2> QED  BY <1>2, <2>1 DEF StreamOK
<1> QED  BY <1>1, <1>2, <1>3

-----------------------------------------------------------------------------
(* Attaching a stream *)

\* GiveUp keeps the invariant.
LEMMA GiveUpStep ==
  ASSUME UseInv, NEW s \in Stream, GiveUp(s)
  PROVE  UseInv'
<1>1. /\ Running("attach") /\ s \in Head(agenda).arg /\ agenda' = After(s)
      /\ stream' = [stream EXCEPT ![s] = NoStream]
      /\ UNCHANGED <<circ, failures, failedLast, resetIn, crashed>>
  BY DEF GiveUp, Attaching
<1>2. /\ stream' \in [Stream -> Streams] /\ StreamsCarried'
      /\ \A t \in Stream : stream'[t] = IF t = s THEN NoStream ELSE stream[t]
  BY <1>1, FreshTypes, FreshFields, OneStream
<1>3. /\ agenda' \in Seq(Calls) /\ AgendaOK(agenda', stream')
      /\ \A c : HasClear(agenda, c) => HasClear(agenda', c)
  BY <1>1, <1>2, LoopGoesOn
<1>4. TypeOK'
  BY <1>1, <1>2, <1>3 DEF UseInv, TypeOK, Calls
<1>5. BuildingIsFresh' /\ Pending' = Pending
  BY <1>1, CircuitsSame
<1>6. PendingBounded' /\ FailuresThrottled'
  BY <1>1, <1>5 DEF UseInv, PendingBounded, FailuresThrottled, PendingLimit
<1>7. ReservationsCleared'
  BY <1>1, <1>3, InvParts DEF ReservationsCleared
<1> QED  BY <1>2, <1>3, <1>4, <1>5, <1>6, <1>7 DEF UseInv

\* WaitForPending keeps the invariant.
LEMMA WaitForPendingStep ==
  ASSUME UseInv, NEW s \in Stream, WaitForPending(s)
  PROVE  UseInv'
<1>1. /\ Running("attach") /\ s \in Head(agenda).arg /\ agenda' = After(s)
      /\ UNCHANGED <<circ, stream, failures, failedLast, resetIn, crashed>>
  BY DEF WaitForPending, NeedsLaunch, Seeking, Attaching
<1>2. /\ agenda' \in Seq(Calls) /\ AgendaOK(agenda', stream')
      /\ \A c : HasClear(agenda, c) => HasClear(agenda', c)
  BY <1>1, LoopGoesOn
<1>3. TypeOK'
  BY <1>1, <1>2 DEF UseInv, TypeOK, Calls
<1>4. BuildingIsFresh' /\ Pending' = Pending
  BY <1>1, CircuitsSame
<1>5. PendingBounded' /\ FailuresThrottled' /\ StreamsCarried'
  BY <1>1, <1>4 DEF UseInv, PendingBounded, FailuresThrottled, PendingLimit,
                    StreamsCarried
<1>6. ReservationsCleared'
  BY <1>1, <1>2, InvParts DEF ReservationsCleared
<1> QED  BY <1>2, <1>3, <1>4, <1>5, <1>6 DEF UseInv

\* LaunchReturnsNull keeps the invariant.
LEMMA LaunchReturnsNullStep ==
  ASSUME UseInv, NEW s \in Stream, LaunchReturnsNull(s)
  PROVE  UseInv'
<1>1. /\ Running("attach") /\ s \in Head(agenda).arg /\ agenda' = After(s)
      /\ Cardinality(Pending) < MaxPending
      /\ \/ failures' = failures
         \/ ~ Throttled /\ failures' = Failed(1)
      /\ crashed' = LogWritable
      /\ UNCHANGED <<circ, stream, failedLast, resetIn>>
  BY DEF LaunchReturnsNull, MayLaunch, NeedsLaunch, Seeking, Attaching,
         EstablishFails
<1>2. /\ agenda' \in Seq(Calls) /\ AgendaOK(agenda', stream')
      /\ \A c : HasClear(agenda, c) => HasClear(agenda', c)
  BY <1>1, LoopGoesOn
<1>3. BuildingIsFresh' /\ Pending' = Pending
  BY <1>1, CircuitsSame
<1>4. PendingBounded' /\ FailuresThrottled' /\ failures' \in 0 .. FailureBound
  <2>1. CASE failures' = failures
    BY <1>1, <1>3, <2>1, InvParts DEF UseInv, PendingBounded, FailuresThrottled,
                                      PendingLimit
  <2>2. CASE ~ Throttled /\ failures' = Failed(1)
    <3>1. Cardinality(Pending) < PendingLimit
      BY <1>1, PendingNat
    <3> QED  BY <1>1, <1>3, <2>2, <3>1, NumbersFail
  <2> QED  BY <1>1, <2>1, <2>2
<1>5. TypeOK'
  <2>1. crashed' \in BOOLEAN
    BY <1>1, UseAssumption
  <2> QED  BY <1>1, <1>2, <1>4, <2>1 DEF UseInv, TypeOK, Calls
<1>6. ReservationsCleared'
  BY <1>1, <1>2, InvParts DEF ReservationsCleared
<1>7. StreamsCarried'
  BY <1>1 DEF UseInv, StreamsCarried
<1> QED  BY <1>2, <1>3, <1>4, <1>5, <1>6, <1>7 DEF UseInv

\* LaunchForStream keeps the invariant.
LEMMA LaunchForStreamStep ==
  ASSUME UseInv, NEW s \in Stream, LaunchForStream(s)
  PROVE  UseInv'
<1>1. /\ Running("attach") /\ s \in Head(agenda).arg /\ agenda' = After(s)
      /\ Cardinality(Pending) < MaxPending
      /\ UNCHANGED <<stream, failures, failedLast, resetIn, crashed>>
  BY DEF LaunchForStream, MayLaunch, NeedsLaunch, Seeking, Attaching
<1>2. PICK c \in Circ, st \in {"chan_wait", "building"} :
         /\ Establishes(c, st)
         /\ circ' = [circ EXCEPT ![c] = Isolated(Launched(st), s)]
  BY DEF LaunchForStream
<1> DEFINE r == Isolated(Launched(st), s)
<1>3. ~ Throttled /\ circ[c].state = "free"
  BY <1>2 DEF Establishes
<1>4. r \in Circuits /\ r.state = st /\ r.dirty = Clean /\ r.unusable = FALSE
  <2>1. Launched(st) \in Circuits
    BY FreshTypes
  <2>2. /\ r \in Circuits /\ r.state = Launched(st).state
        /\ r.dirty = Launched(st).dirty /\ r.unusable = Launched(st).unusable
    BY <2>1, IsolatedFields DEF UseInv
  <2> HIDE DEF r
  <2> QED  BY <2>2, FreshFields
<1>5. circ' = [circ EXCEPT ![c] = r]
  BY <1>2
<1> HIDE DEF r
<1>6. ~ Carries(circ[c])
  BY <1>3 DEF Carries
<1>7. /\ circ' \in [Circ -> Circuits]
      /\ \A d \in Circ : circ'[d] = IF d = c THEN r ELSE circ[d]
      /\ BuildingIsFresh' /\ StreamsCarried'
      /\ Pending' \subseteq Pending \cup {c}
  BY <1>1, <1>4, <1>5, <1>6, OneCircuit
<1>8. /\ agenda' \in Seq(Calls) /\ AgendaOK(agenda', stream')
      /\ \A d : HasClear(agenda, d) => HasClear(agenda', d)
  BY <1>1, LoopGoesOn
<1>9. TypeOK'
  BY <1>1, <1>7, <1>8 DEF UseInv, TypeOK, Calls
<1>10. PendingBounded' /\ FailuresThrottled'
  <2>1. Cardinality(Pending) < PendingLimit
    BY <1>1, PendingNat
  <2> QED  BY <1>1, <1>3, <1>7, <2>1, NumbersLaunch
<1>11. ReservationsCleared'
  <2>1. ~ Reserved(r)
    BY <1>4 DEF Reserved
  <2> QED  BY <1>7, <1>8, <2>1, InvParts DEF ReservationsCleared
<1> QED  BY <1>7, <1>8, <1>9, <1>10, <1>11 DEF UseInv

\* circuit_get_best finds a circuit if one is acceptable: of the four kinds of
\* circuits that Better tells apart, one of the best kind there is.
LEMMA BestExists ==
  ASSUME UseInv, NEW s, NEW open \in BOOLEAN,
         NEW c \in Circ, Acceptable(c, s, open)
  PROVE  Best(s, open) # {}
<1> DEFINE ok == {d \in Circ : Acceptable(d, s, open)}
           top(d) == \A e \in ok : ~ Better(e, d)
<1>0. \A d \in Circ : circ[d].relaxed \in BOOLEAN
  BY InvParts DEF Circuits
<1>1. c \in ok
  OBVIOUS
<1>2. Best(s, open) = {d \in ok : top(d)}
  BY DEF Best
<1> HIDE DEF ok
<1>3. ok \subseteq Circ
  BY DEF ok
<1>4. \E d \in ok : top(d)
  <2>1. CASE \E d \in ok : ~ circ[d].relaxed /\ circ[d].dest # None
    BY <1>0, <1>3, <2>1 DEF Better
  <2>2. CASE /\ ~ \E d \in ok : ~ circ[d].relaxed /\ circ[d].dest # None
             /\ \E d \in ok : ~ circ[d].relaxed
    BY <1>0, <1>3, <2>2 DEF Better
  <2>3. CASE /\ ~ \E d \in ok : ~ circ[d].relaxed
             /\ \E d \in ok : circ[d].dest # None
    BY <1>0, <1>3, <2>3 DEF Better
  <2>4. CASE /\ ~ \E d \in ok : ~ circ[d].relaxed
             /\ ~ \E d \in ok : circ[d].dest # None
    BY <1>0, <1>1, <1>3, <2>4 DEF Better
  <2> QED  BY <2>1, <2>2, <2>3, <2>4
<1> QED  BY <1>2, <1>4

\* The stream that is attached, and the circuit that takes it.
LEMMA AttachCarried ==
  ASSUME UseInv, NEW s \in Stream, stream[s].state = "wait",
         NEW c \in Circ, Acceptable(c, s, TRUE),
         NEW r \in Circuits, r.state = "open",
         r.used = TRUE, r.dirty # Clean,
         r.dest = (IF circ[c].dest = None THEN stream[s].dest ELSE circ[c].dest),
         circ' = [circ EXCEPT ![c] = r],
         NEW x \in Streams, stream' = [stream EXCEPT ![s] = x],
         \/ x.state = "none" /\ x.on = None
         \/ x.state = "connect" /\ x.on = c /\ x.dest = stream[s].dest
  PROVE  /\ circ' \in [Circ -> Circuits] /\ stream' \in [Stream -> Streams]
         /\ \A d \in Circ : circ'[d] = IF d = c THEN r ELSE circ[d]
         /\ \A t \in Stream : stream'[t] = IF t = s THEN x ELSE stream[t]
         /\ BuildingIsFresh' /\ StreamsCarried' /\ Pending' \subseteq Pending
         /\ \A d \in Circ : Reserved(circ'[d]) => Reserved(circ[d])
<1>1. /\ circ \in [Circ -> Circuits] /\ stream \in [Stream -> Streams]
      /\ \A t \in Stream : StreamOK(t, stream, circ)
      /\ \A d \in Circ : Building(d) => circ[d].dirty = Clean /\ ~ circ[d].unusable
  BY InvParts
<1>2. \A d \in Circ : circ'[d] = IF d = c THEN r ELSE circ[d]
  BY <1>1
<1>3. \A t \in Stream : stream'[t] = IF t = s THEN x ELSE stream[t]
  BY <1>1
<1>4. circ' \in [Circ -> Circuits] /\ stream' \in [Stream -> Streams]
  BY <1>1
<1>5. BuildingIsFresh' /\ Pending' \subseteq Pending
  BY <1>1, <1>2 DEF BuildingIsFresh, Building, Pending
<1>6. \A d \in Circ : Reserved(circ'[d]) => Reserved(circ[d])
  BY <1>2 DEF Reserved
<1>7. stream[s].dest # None /\ circ[c].dest \in {None, stream[s].dest}
  BY <1>1 DEF StreamOK, Acceptable
<1>8. Carries(r) /\ r.dest = stream[s].dest
  BY <1>7 DEF Carries
<1>9. StreamsCarried'
  <2> SUFFICES ASSUME NEW t \in Stream PROVE StreamOK(t, stream', circ')
    BY DEF StreamsCarried
  <2>1. CASE t = s
    <3>1. stream'[t] = x
      BY <1>3, <2>1
    <3>2. CASE x.state = "none" /\ x.on = None
      BY <3>1, <3>2 DEF StreamOK
    <3>3. CASE x.state = "connect" /\ x.on = c /\ x.dest = stream[s].dest
      <4>1. circ'[c] = r
        BY <1>2
      <4> QED  BY <1>7, <1>8, <3>1, <3>3, <4>1 DEF StreamOK
    <3> QED  BY <3>2, <3>3
  <2>2. CASE t # s
    <3>1. stream'[t] = stream[t] /\ StreamOK(t, stream, circ)
      BY <1>1, <1>3, <2>2
    <3>2. CASE stream[t].on = c
      <4>1. circ[c].dest = stream[t].dest /\ stream[t].dest # None
            /\ stream[t].state \in {"connect", "open"}
        BY <3>1, <3>2, Times DEF StreamOK
      <4>2. r.dest = stream[t].dest /\ circ'[c] = r
        BY <1>2, <4>1
      <4> QED  BY <1>8, <3>1, <3>2, <4>1, <4>2 DEF StreamOK
    <3>3. CASE stream[t].on # c
      BY <1>2, <3>1, <3>3 DEF StreamOK
    <3> QED  BY <3>2, <3>3
  <2> QED  BY <2>1, <2>2
<1> QED  BY <1>2, <1>3, <1>4, <1>5, <1>6, <1>9

\* Attach keeps the invariant.
LEMMA AttachStep ==
  ASSUME UseInv, NEW s \in Stream, Attach(s)
  PROVE  UseInv'
<1>1. /\ Running("attach") /\ s \in Head(agenda).arg /\ agenda' = After(s)
      /\ UNCHANGED <<failures, failedLast, resetIn, crashed>>
  BY DEF Attach, Seeking, Attaching
<1>2. PICK c \in Best(s, TRUE) :
         /\ circ' = [circ EXCEPT ![c] = Carrying(circ[c], s)]
         /\ stream' = [stream EXCEPT ![s] =
              [stream[s] EXCEPT !.state = "connect", !.on = c, !.idle = 0]]
  BY DEF Attach
<1> DEFINE r == Carrying(circ[c], s)
           x == [stream[s] EXCEPT !.state = "connect", !.on = c, !.idle = 0]
<1>3. c \in Circ /\ Acceptable(c, s, TRUE)
  BY DEF Best
<1>4. stream[s].state = "wait"
  BY <1>1, LoopGoesOn
<1>5. /\ circ \in [Circ -> Circuits] /\ stream \in [Stream -> Streams]
  BY InvParts
<1>6. /\ r \in Circuits /\ r.state = "open"
      /\ r.used = TRUE /\ r.dirty # Clean
      /\ r.dest = IF circ[c].dest = None THEN stream[s].dest ELSE circ[c].dest
  <2>1. circ[c].state = "open" /\ circ[c].purpose = "general" /\ circ[c] \in Circuits
    BY <1>3, <1>5 DEF Acceptable
  <2>2. /\ r \in Circuits /\ r.state = circ[c].state
        /\ r.purpose = circ[c].purpose /\ r.used = TRUE /\ r.dirty # Clean
        /\ r.dest = IF circ[c].dest = None THEN stream[s].dest ELSE circ[c].dest
    BY <1>5, <2>1, CarryingFields DEF UseInv
  <2> HIDE DEF r
  <2> QED  BY <2>1, <2>2
<1>7. /\ x \in Streams /\ x.state = "connect" /\ x.on = c
      /\ x.dest = stream[s].dest
  <2>1. 0 \in 0 .. RetryTimeout /\ stream[s] \in Streams
    BY <1>5, UseAssumption
  <2> QED  BY <1>3, <2>1 DEF Streams
<1> HIDE DEF r, x
<1>8. circ' = [circ EXCEPT ![c] = r] /\ stream' = [stream EXCEPT ![s] = x]
  BY <1>2 DEF r, x
<1>9. /\ circ' \in [Circ -> Circuits] /\ stream' \in [Stream -> Streams]
      /\ \A t \in Stream : stream'[t] = IF t = s THEN x ELSE stream[t]
      /\ BuildingIsFresh' /\ StreamsCarried' /\ Pending' \subseteq Pending
      /\ \A d \in Circ : Reserved(circ'[d]) => Reserved(circ[d])
  BY <1>3, <1>4, <1>6, <1>7, <1>8, AttachCarried
<1>10. /\ agenda' \in Seq(Calls) /\ AgendaOK(agenda', stream')
       /\ \A d : HasClear(agenda, d) => HasClear(agenda', d)
  BY <1>1, <1>9, LoopGoesOn
<1>11. TypeOK'
  BY <1>1, <1>9, <1>10 DEF UseInv, TypeOK, Calls
<1>12. PendingBounded' /\ FailuresThrottled'
  <2>1. failures' \in Nat /\ failures' <= failures
    BY <1>1, InvParts
  <2> QED  BY <1>1, <1>9, <2>1, NumbersFewer
<1>13. ReservationsCleared'
  BY <1>9, <1>10, InvParts DEF ReservationsCleared
<1> QED  BY <1>9, <1>10, <1>11, <1>12, <1>13 DEF UseInv

\* AttachNoStreamId keeps the invariant.
LEMMA AttachNoStreamIdStep ==
  ASSUME UseInv, NEW s \in Stream, AttachNoStreamId(s)
  PROVE  UseInv'
<1>1. /\ Running("attach") /\ s \in Head(agenda).arg /\ agenda' = After(s)
      /\ UNCHANGED <<failures, failedLast, resetIn, crashed>>
  BY DEF AttachNoStreamId, Seeking, Attaching
<1>2. PICK c \in Best(s, TRUE) :
         /\ circ' = [circ EXCEPT ![c] = Unusable(Carrying(circ[c], s))]
         /\ stream' = [stream EXCEPT ![s] = NoStream]
  BY DEF AttachNoStreamId
<1> DEFINE r == Unusable(Carrying(circ[c], s))
<1>3. c \in Circ /\ Acceptable(c, s, TRUE)
  BY DEF Best
<1>4. stream[s].state = "wait"
  BY <1>1, LoopGoesOn
<1>5. /\ circ \in [Circ -> Circuits] /\ stream \in [Stream -> Streams]
  BY InvParts
<1>6. /\ r \in Circuits /\ r.state = "open"
      /\ r.used = TRUE /\ r.dirty # Clean
      /\ r.dest = IF circ[c].dest = None THEN stream[s].dest ELSE circ[c].dest
  <2> DEFINE q == Carrying(circ[c], s)
  <2>1. circ[c].state = "open" /\ circ[c].purpose = "general" /\ circ[c] \in Circuits
    BY <1>3, <1>5 DEF Acceptable
  <2>2. /\ q \in Circuits /\ q.state = circ[c].state
        /\ q.purpose = circ[c].purpose /\ q.used = TRUE
        /\ q.dest = IF circ[c].dest = None THEN stream[s].dest ELSE circ[c].dest
    BY <1>5, <2>1, CarryingFields DEF UseInv
  <2> HIDE DEF q
  <2>3. /\ Unusable(q) \in Circuits /\ Unusable(q).state = q.state
        /\ Unusable(q).purpose = q.purpose /\ Unusable(q).used = q.used
        /\ Unusable(q).dest = q.dest /\ Unusable(q).dirty # Clean
    BY <2>2, UnusableFields
  <2>4. r = Unusable(q)
    BY DEF q
  <2> HIDE DEF r
  <2> QED  BY <2>1, <2>2, <2>3, <2>4
<1> HIDE DEF r
<1>8. circ' = [circ EXCEPT ![c] = r]
  BY <1>2 DEF r
<1>9. /\ circ' \in [Circ -> Circuits] /\ stream' \in [Stream -> Streams]
      /\ \A t \in Stream : stream'[t] = IF t = s THEN NoStream ELSE stream[t]
      /\ BuildingIsFresh' /\ StreamsCarried' /\ Pending' \subseteq Pending
      /\ \A d \in Circ : Reserved(circ'[d]) => Reserved(circ[d])
  <2>1. NoStream \in Streams /\ NoStream.state = "none" /\ NoStream.on = None
    BY FreshTypes, FreshFields
  <2> DEFINE x == NoStream
  <2>2. /\ x \in Streams /\ x.state = "none" /\ x.on = None
        /\ stream' = [stream EXCEPT ![s] = x]
    BY <1>2, <2>1
  <2>3. x = NoStream
    OBVIOUS
  <2> HIDE DEF x
  <2>4. /\ circ' \in [Circ -> Circuits] /\ stream' \in [Stream -> Streams]
        /\ \A t \in Stream : stream'[t] = IF t = s THEN x ELSE stream[t]
        /\ BuildingIsFresh' /\ StreamsCarried' /\ Pending' \subseteq Pending
        /\ \A d \in Circ : Reserved(circ'[d]) => Reserved(circ[d])
    BY <1>3, <1>4, <1>6, <1>8, <2>2, AttachCarried
  <2> QED  BY <2>3, <2>4
<1>10. /\ agenda' \in Seq(Calls) /\ AgendaOK(agenda', stream')
       /\ \A d : HasClear(agenda, d) => HasClear(agenda', d)
  BY <1>1, <1>9, LoopGoesOn
<1>11. TypeOK'
  BY <1>1, <1>9, <1>10 DEF UseInv, TypeOK, Calls
<1>12. PendingBounded' /\ FailuresThrottled'
  <2>1. failures' \in Nat /\ failures' <= failures
    BY <1>1, InvParts
  <2> QED  BY <1>1, <1>9, <2>1, NumbersFewer
<1>13. ReservationsCleared'
  BY <1>9, <1>10, InvParts DEF ReservationsCleared
<1> QED  BY <1>9, <1>10, <1>11, <1>12, <1>13 DEF UseInv

\* Only a circuit under construction is reserved: an open one would have
\* been found acceptable at once.
LEMMA JoinPendingStep ==
  ASSUME UseInv, NEW s \in Stream, JoinPending(s)
  PROVE  UseInv'
<1>1. /\ Running("attach") /\ s \in Head(agenda).arg /\ agenda' = After(s)
      /\ Best(s, TRUE) = {}
      /\ UNCHANGED <<stream, failures, failedLast, resetIn, crashed>>
  BY DEF JoinPending, Seeking, Attaching
<1>2. PICK c \in Best(s, FALSE) : circ' = [circ EXCEPT ![c] = Isolated(circ[c], s)]
  BY DEF JoinPending
<1> DEFINE r == Isolated(circ[c], s)
<1>3. c \in Circ /\ Acceptable(c, s, FALSE)
  BY DEF Best
<1>4. circ \in [Circ -> Circuits] /\ circ[c] \in Circuits
  BY <1>3, InvParts
<1>5. circ[c].state # "open"
  <2>1. circ[c].state = "open" => Acceptable(c, s, TRUE)
    BY <1>3 DEF Acceptable
  <2>2. ~ Acceptable(c, s, TRUE)
    BY <1>1, <1>3, BestExists
  <2> QED  BY <2>1, <2>2
<1>6. /\ r \in Circuits /\ r.state = circ[c].state /\ r.purpose = circ[c].purpose
      /\ r.dirty = circ[c].dirty /\ r.unusable = circ[c].unusable
  BY <1>4, IsolatedFields DEF UseInv
<1> HIDE DEF r
<1>7. circ' = [circ EXCEPT ![c] = r]
  BY <1>2 DEF r
<1>8. /\ r.state \in {"chan_wait", "building"} => r.dirty = Clean /\ ~ r.unusable
      /\ ~ Carries(circ[c]) /\ ~ Reserved(r)
  BY <1>3, <1>5, <1>6, InvParts DEF Building, Carries, Reserved
<1>9. /\ circ' \in [Circ -> Circuits]
      /\ \A d \in Circ : circ'[d] = IF d = c THEN r ELSE circ[d]
      /\ BuildingIsFresh' /\ StreamsCarried'
  BY <1>1, <1>3, <1>6, <1>7, <1>8, OneCircuit
<1>10. Pending' \subseteq Pending
  BY <1>6, <1>9 DEF Pending, Building
<1>11. /\ agenda' \in Seq(Calls) /\ AgendaOK(agenda', stream')
       /\ \A d : HasClear(agenda, d) => HasClear(agenda', d)
  BY <1>1, LoopGoesOn
<1>12. TypeOK'
  BY <1>1, <1>9, <1>11 DEF UseInv, TypeOK, Calls
<1>13. PendingBounded' /\ FailuresThrottled'
  <2>1. failures' \in Nat /\ failures' <= failures
    BY <1>1, InvParts
  <2> QED  BY <1>1, <1>10, <2>1, NumbersFewer
<1>14. ReservationsCleared'
  BY <1>8, <1>9, <1>11, InvParts DEF ReservationsCleared
<1> QED  BY <1>9, <1>11, <1>12, <1>13, <1>14 DEF UseInv

-----------------------------------------------------------------------------
(* The other calls of a handler *)

\* Queueing the attachment of all waiting streams keeps the agenda well
\* formed.
LEMMA AttachPendingOK ==
  ASSUME NEW q \in Seq(Calls), Later(q)
  PROVE  /\ AttachPending(q) \in Seq(Calls) /\ AgendaOK(AttachPending(q), stream)
         /\ \A c : HasClear(q, c) => HasClear(AttachPending(q), c)
<1>1. Waiting \in SUBSET Stream /\ \A s \in Waiting : stream[s].state = "wait"
  BY DEF Waiting
<1> QED  BY <1>1, LoopOK DEF AttachPending

\* With an empty agenda no reservation is left.
LEMMA IdleFacts ==
  ASSUME UseInv, agenda = << >>
  PROVE  \A c \in Circ : ~ Reserved(circ[c])
<1>1. \A c : ~ HasClear(<< >>, c)
  BY DEF HasClear
<1> QED  BY <1>1, InvParts

\* The empty agenda is well formed.
LEMMA EmptyAgenda ==
  << >> \in Seq(Calls) /\ Later(<< >>) /\ \A st : AgendaOK(<< >>, st)
  BY DEF Later, AgendaOK

\* TryClearing keeps the invariant.
LEMMA TryClearingStep ==
  ASSUME UseInv, TryClearing
  PROVE  UseInv'
<1> DEFINE c == Head(agenda).arg
           r == [circ[c] EXCEPT !.dest = None]
           clears == /\ circ[c].state = "open" /\ circ[c].dest # None
                     /\ ~ circ[c].used
<1>1. /\ Running("clear")
      /\ IF clears
         THEN circ' = [circ EXCEPT ![c] = r] /\ agenda' = AttachPending(Rest)
         ELSE circ' = circ /\ agenda' = Rest
      /\ UNCHANGED <<stream, failures, failedLast, resetIn, crashed>>
  BY DEF TryClearing
<1>2. /\ CallOK(Head(agenda)) /\ Head(agenda).op = "clear"
      /\ Rest \in Seq(Calls) /\ Later(Rest) /\ \A u : AgendaOK(Rest, u)
      /\ \A d : HasClear(agenda, d) => HasClear(Rest, d) \/ c = d
  BY <1>1, CallEnds
<1>3. c \in Circ
  BY <1>2 DEF CallOK
<1>4. circ \in [Circ -> Circuits] /\ circ[c] \in Circuits
  BY <1>3, InvParts
<1> HIDE DEF c
<1>5. r \in Circuits /\ r.state = circ[c].state /\ r.dest = None
  BY <1>4 DEF Circuits
<1> HIDE DEF r
<1>6. CASE clears
  <2>1. circ' = [circ EXCEPT ![c] = r] /\ agenda' = AttachPending(Rest)
    BY <1>1, <1>6
  <2>2. /\ r.state \notin {"chan_wait", "building"}
        /\ ~ Carries(circ[c]) /\ ~ Reserved(r)
    BY <1>5, <1>6 DEF Carries, Reserved
  <2>3. /\ circ' \in [Circ -> Circuits]
        /\ \A d \in Circ : circ'[d] = IF d = c THEN r ELSE circ[d]
        /\ BuildingIsFresh' /\ StreamsCarried' /\ Pending' \subseteq Pending
    BY <1>1, <1>3, <1>5, <2>1, <2>2, OneCircuit
  <2>4. /\ agenda' \in Seq(Calls) /\ AgendaOK(agenda', stream')
        /\ \A d : HasClear(Rest, d) => HasClear(agenda', d)
    BY <1>1, <1>2, <2>1, AttachPendingOK
  <2>5. TypeOK'
    BY <1>1, <2>3, <2>4 DEF UseInv, TypeOK, Calls
  <2>6. PendingBounded' /\ FailuresThrottled'
    <3>1. failures' \in Nat /\ failures' <= failures
      BY <1>1, InvParts
    <3> QED  BY <1>1, <2>3, <3>1, NumbersFewer
  <2>7. ReservationsCleared'
    BY <1>2, <2>2, <2>3, <2>4, InvParts DEF ReservationsCleared
  <2> QED  BY <2>3, <2>4, <2>5, <2>6, <2>7 DEF UseInv
<1>7. CASE ~ clears
  <2>1. circ' = circ /\ agenda' = Rest
    BY <1>1, <1>7
  <2>2. BuildingIsFresh' /\ Pending' = Pending
    BY <2>1, CircuitsSame
  <2>3. TypeOK'
    BY <1>1, <1>2, <2>1 DEF UseInv, TypeOK, Calls
  <2>4. PendingBounded' /\ FailuresThrottled' /\ StreamsCarried'
    BY <1>1, <2>1, <2>2 DEF UseInv, PendingBounded, FailuresThrottled,
                            PendingLimit, StreamsCarried
  <2>5. ReservationsCleared'
    <3>1. ~ Reserved(circ[c])
      BY <1>4, <1>7 DEF Reserved, Circuits
    <3> QED  BY <1>2, <2>1, <3>1, InvParts DEF ReservationsCleared
  <2>6. AgendaOK(agenda', stream')
    BY <1>2, <2>1
  <2> QED  BY <2>2, <2>3, <2>4, <2>5, <2>6 DEF UseInv
<1> QED  BY <1>6, <1>7

\* ExpireBeginning keeps the invariant.
LEMMA ExpireBeginningStep ==
  ASSUME UseInv, ExpireBeginning \/ AttachAll
  PROVE  UseInv'
<1>1. UNCHANGED <<circ, stream, failures, failedLast, resetIn, crashed>>
  BY DEF ExpireBeginning, AttachAll
<1>2. /\ agenda' \in Seq(Calls) /\ AgendaOK(agenda', stream')
      /\ \A d : HasClear(agenda, d) => HasClear(agenda', d)
  <2>1. CASE ExpireBeginning
    <3> DEFINE set == {s \in Stream : WaitedTooLong(s) \/ NoAnswer(s)}
    <3>1. Running("expire_beginning") /\ agenda' = Loop("expire", set, Rest)
      BY <2>1 DEF ExpireBeginning
    <3>2. /\ Rest \in Seq(Calls) /\ Later(Rest)
          /\ \A d : HasClear(agenda, d) => HasClear(Rest, d)
      BY <3>1, CallEnds
    <3>3. set \in SUBSET Stream
      OBVIOUS
    <3> HIDE DEF set
    <3> QED  BY <3>1, <3>2, <3>3, LoopOK
  <2>2. CASE AttachAll
    <3>1. Running("attach_all") /\ agenda' = AttachPending(Rest)
      BY <2>2 DEF AttachAll
    <3>2. /\ Rest \in Seq(Calls) /\ Later(Rest)
          /\ \A d : HasClear(agenda, d) => HasClear(Rest, d)
      BY <3>1, CallEnds
    <3> QED  BY <1>1, <3>1, <3>2, AttachPendingOK
  <2> QED  BY <2>1, <2>2
<1>3. TypeOK'
  BY <1>1, <1>2 DEF UseInv, TypeOK, Calls
<1>4. BuildingIsFresh' /\ Pending' = Pending
  BY <1>1, CircuitsSame
<1>5. PendingBounded' /\ FailuresThrottled' /\ StreamsCarried'
  BY <1>1, <1>4 DEF UseInv, PendingBounded, FailuresThrottled, PendingLimit,
                    StreamsCarried
<1>6. ReservationsCleared'
  BY <1>1, <1>2, InvParts DEF ReservationsCleared
<1> QED  BY <1>2, <1>3, <1>4, <1>5, <1>6 DEF UseInv

\* Circuits are marked for close, and their streams end.
LEMMA MarkedCircuits ==
  ASSUME UseInv, NEW gone \in SUBSET Circ, circ' \in [Circ -> Circuits],
         \A c \in gone : circ'[c] = Marked,
         \A c \in Circ \ gone :
            /\ circ'[c].state = circ[c].state /\ circ'[c].dest = circ[c].dest
            /\ circ'[c].used = circ[c].used /\ circ'[c].dirty = circ[c].dirty
            /\ circ'[c].unusable = circ[c].unusable
            /\ circ'[c].purpose = circ[c].purpose,
         stream' = Dropped(gone)
  PROVE  /\ stream' \in [Stream -> Streams]
         /\ BuildingIsFresh' /\ StreamsCarried' /\ Pending' \subseteq Pending \ gone
         /\ \A c \in Circ : Reserved(circ'[c]) => Reserved(circ[c])
<1>1. /\ circ \in [Circ -> Circuits] /\ stream \in [Stream -> Streams]
      /\ \A t \in Stream : StreamOK(t, stream, circ)
  BY InvParts
<1>2. \A s \in Stream : stream'[s] = IF stream[s].on \in gone THEN NoStream
                                     ELSE stream[s]
  BY DEF Dropped
<1>3. stream' \in [Stream -> Streams]
  BY <1>1, FreshTypes DEF Dropped
<1>4. \A c \in gone : circ'[c].state = "marked"
  BY FreshFields
<1>5. BuildingIsFresh' /\ Pending' \subseteq Pending \ gone
  BY <1>4, InvParts DEF BuildingIsFresh, Building, Pending
<1>6. \A c \in Circ : Reserved(circ'[c]) => Reserved(circ[c])
  BY <1>4 DEF Reserved
<1>7. StreamsCarried'
  <2> SUFFICES ASSUME NEW s \in Stream PROVE StreamOK(s, stream', circ')
    BY DEF StreamsCarried
  <2>1. CASE stream[s].on \in gone
    BY <1>2, <2>1, FreshFields DEF StreamOK
  <2>2. CASE stream[s].on \notin gone
    <3>1. stream'[s] = stream[s] /\ StreamOK(s, stream, circ)
      BY <1>1, <1>2, <2>2
    <3> QED  BY <2>2, <3>1 DEF StreamOK, Carries
  <2> QED  BY <2>1, <2>2
<1> QED  BY <1>3, <1>5, <1>6, <1>7

\* ExpireBuilding keeps the invariant.
LEMMA ExpireBuildingStep ==
  ASSUME UseInv, ExpireBuilding
  PROVE  UseInv'
<1>1. /\ Running("expire_building") /\ agenda' = Rest
      /\ UNCHANGED <<failedLast, resetIn, crashed>>
  BY DEF ExpireBuilding
<1> DEFINE gone == {c \in Circ : Victim(c)}
<1>2. /\ circ' = [c \in Circ |->
            IF Relaxes(c) THEN [circ[c] EXCEPT !.relaxed = TRUE]
            ELSE IF c \in gone THEN Marked ELSE circ[c]]
      /\ stream' = Dropped(gone)
      /\ failures' = Failed(BuildFailures(gone))
  BY DEF ExpireBuilding
<1>3. \A c \in Circ : circ'[c] =
            IF Relaxes(c) THEN [circ[c] EXCEPT !.relaxed = TRUE]
            ELSE IF c \in gone THEN Marked ELSE circ[c]
  BY <1>2
<1>4. circ \in [Circ -> Circuits]
  BY InvParts
<1>5. \A c \in gone : circ'[c] = Marked
  BY <1>3 DEF Victim
<1>6. ASSUME NEW c \in Circ \ gone
      PROVE  /\ circ'[c] \in Circuits
             /\ circ'[c].state = circ[c].state /\ circ'[c].dest = circ[c].dest
             /\ circ'[c].used = circ[c].used /\ circ'[c].dirty = circ[c].dirty
             /\ circ'[c].unusable = circ[c].unusable
             /\ circ'[c].purpose = circ[c].purpose
  <2>0. circ[c] \in Circuits
    BY <1>4
  <2>1. CASE Relaxes(c)
    <3>1. circ'[c] = [circ[c] EXCEPT !.relaxed = TRUE]
      BY <1>3, <2>1
    <3> QED  BY <2>0, <3>1 DEF Circuits
  <2>2. CASE ~ Relaxes(c)
    <3>1. circ'[c] = circ[c]
      BY <1>3, <2>2
    <3> QED  BY <2>0, <3>1
  <2> QED  BY <2>1, <2>2
<1>7. circ' \in [Circ -> Circuits]
  <2>1. \A c \in Circ : circ'[c] \in Circuits
    BY <1>5, <1>6, FreshTypes
  <2>2. circ' = [c \in Circ |-> circ'[c]]
    BY <1>2
  <2> QED  BY <2>1, <2>2
<1>8. stream' = Dropped(gone) /\ failures' = Failed(BuildFailures(gone))
  BY <1>2
<1>9. gone \in SUBSET Circ
  OBVIOUS
<1> HIDE DEF gone
<1>10. /\ stream' \in [Stream -> Streams]
       /\ BuildingIsFresh' /\ StreamsCarried' /\ Pending' \subseteq Pending \ gone
       /\ \A c \in Circ : Reserved(circ'[c]) => Reserved(circ[c])
  BY <1>5, <1>6, <1>7, <1>8, <1>9, MarkedCircuits
<1>11. PendingBounded' /\ FailuresThrottled' /\ failures' \in 0 .. FailureBound
  BY <1>1, <1>8, <1>10, NumbersGone
<1>12. /\ agenda' \in Seq(Calls) /\ AgendaOK(agenda', stream')
       /\ \A d : HasClear(agenda, d) => HasClear(agenda', d)
  BY <1>1, CallEnds
<1>13. TypeOK'
  BY <1>1, <1>7, <1>10, <1>11, <1>12 DEF UseInv, TypeOK, Calls
<1>14. ReservationsCleared'
  BY <1>10, <1>12, InvParts DEF ReservationsCleared
<1> QED  BY <1>10, <1>11, <1>12, <1>13, <1>14 DEF UseInv

-----------------------------------------------------------------------------
(* The remaining calls, and the events between handlers *)

\* A step that counts nothing, launches nothing and reserves nothing.
LEMMA QuietStep ==
  ASSUME UseInv, UNCHANGED <<failures, failedLast, resetIn, crashed>>,
         circ' \in [Circ -> Circuits], stream' \in [Stream -> Streams],
         BuildingIsFresh', StreamsCarried', Pending' \subseteq Pending,
         \A c \in Circ : Reserved(circ'[c]) => Reserved(circ[c]),
         agenda' \in Seq(Calls), AgendaOK(agenda', stream'),
         \A c : HasClear(agenda, c) => HasClear(agenda', c)
  PROVE  UseInv'
<1>1. TypeOK'
  BY DEF UseInv, TypeOK, Calls
<1>2. failures' \in Nat /\ failures' <= failures
  BY InvParts
<1>3. PendingBounded' /\ FailuresThrottled'
  BY <1>2, NumbersFewer
<1>4. ReservationsCleared'
  BY InvParts DEF ReservationsCleared
<1> QED  BY <1>1, <1>3, <1>4 DEF UseInv

\* A circuit in use stays so, and a stream leaves it or is connected.
StaysInUse(r, old) ==
  /\ r.state = old.state /\ r.purpose = old.purpose /\ r.used = old.used
  /\ r.dest = old.dest /\ r.dirty # Clean

Answered(x, old) ==
  \/ x.state = "none" /\ x.on = None
  \/ x.state = "wait" /\ x.on = None /\ x.dest = old.dest
  \/ x.state = "open" /\ x.on = old.on /\ x.dest = old.dest

\* The circuit still carries the other streams.
LEMMA StreamAnswered ==
  ASSUME UseInv, NEW s \in Stream, stream[s].state = "connect",
         NEW c, c = stream[s].on,
         NEW r \in Circuits, StaysInUse(r, circ[c]), circ' = [circ EXCEPT ![c] = r],
         NEW x \in Streams, Answered(x, stream[s]), stream' = [stream EXCEPT ![s] = x]
  PROVE  /\ circ' \in [Circ -> Circuits] /\ stream' \in [Stream -> Streams]
         /\ \A t \in Stream : stream'[t] = IF t = s THEN x ELSE stream[t]
         /\ BuildingIsFresh' /\ StreamsCarried' /\ Pending' \subseteq Pending
         /\ \A d \in Circ : Reserved(circ'[d]) => Reserved(circ[d])
<1>1. /\ circ \in [Circ -> Circuits] /\ stream \in [Stream -> Streams]
      /\ \A t \in Stream : StreamOK(t, stream, circ)
      /\ \A d \in Circ : Building(d) => circ[d].dirty = Clean /\ ~ circ[d].unusable
  BY InvParts
<1>2. /\ c \in Circ /\ Carries(circ[c]) /\ stream[s].dest # None
      /\ circ[c].dest = stream[s].dest
  BY <1>1 DEF StreamOK
<1>3. \A d \in Circ : circ'[d] = IF d = c THEN r ELSE circ[d]
  BY <1>1
<1>4. \A t \in Stream : stream'[t] = IF t = s THEN x ELSE stream[t]
  BY <1>1
<1>5. circ' \in [Circ -> Circuits] /\ stream' \in [Stream -> Streams]
  BY <1>1, <1>2
<1>6. Carries(r) /\ r.dest = circ[c].dest
  BY <1>2 DEF Carries, StaysInUse
<1>7. BuildingIsFresh' /\ Pending' \subseteq Pending
  BY <1>1, <1>3, <1>6 DEF BuildingIsFresh, Building, Pending, Carries
<1>8. \A d \in Circ : Reserved(circ'[d]) => Reserved(circ[d])
  BY <1>3, <1>6 DEF Reserved, Carries
<1>9. StreamsCarried'
  <2> SUFFICES ASSUME NEW t \in Stream PROVE StreamOK(t, stream', circ')
    BY DEF StreamsCarried
  <2>1. CASE t = s
    <3>1. stream'[t] = x /\ circ'[c] = r
      BY <1>2, <1>3, <1>4, <2>1
    <3> QED  BY <1>2, <1>6, <3>1 DEF StreamOK, Answered
  <2>2. CASE t # s
    <3>1. stream'[t] = stream[t] /\ StreamOK(t, stream, circ)
      BY <1>1, <1>4, <2>2
    <3> QED  BY <1>3, <1>6, <3>1 DEF StreamOK
  <2> QED  BY <2>1, <2>2
<1> QED  BY <1>4, <1>5, <1>7, <1>8, <1>9

\* connection_ap_detach_retriable, for a stream that got no answer or an END.
LEMMA RetryFacts ==
  ASSUME UseInv, NEW s \in Stream, stream[s].state = "connect",
         circ' = [circ EXCEPT ![stream[s].on] = RolledBack(Unusable(circ[stream[s].on]))],
         stream' = Detached(s)
  PROVE  /\ circ' \in [Circ -> Circuits] /\ stream' \in [Stream -> Streams]
         /\ stream'[s].state = "wait"
         /\ \A t \in Stream \ {s} : stream'[t] = stream[t]
         /\ BuildingIsFresh' /\ StreamsCarried' /\ Pending' \subseteq Pending
         /\ \A d \in Circ : Reserved(circ'[d]) => Reserved(circ[d])
<1> DEFINE c == stream[s].on
           u == Unusable(circ[c])
           r == RolledBack(u)
           x == [stream[s] EXCEPT !.state = "wait", !.on = None, !.idle = 0]
<1>1. circ \in [Circ -> Circuits] /\ stream \in [Stream -> Streams]
  BY InvParts
<1>2. c \in Circ /\ circ[c] \in Circuits
  BY <1>1, InvParts DEF StreamOK
<1>3. /\ x \in Streams /\ x.state = "wait" /\ x.on = None
      /\ x.dest = stream[s].dest
  <2>1. 0 \in 0 .. RetryTimeout /\ stream[s] \in Streams
    BY <1>1, UseAssumption
  <2> QED  BY <2>1 DEF Streams
<1>4. circ' = [circ EXCEPT ![c] = r] /\ stream' = [stream EXCEPT ![s] = x]
  BY DEF Detached
<1> HIDE DEF x, r
<1>5. /\ u \in Circuits /\ u.state = circ[c].state /\ u.purpose = circ[c].purpose
      /\ u.used = circ[c].used /\ u.dest = circ[c].dest /\ u.dirty # Clean
  BY <1>2, UnusableFields
<1> HIDE DEF u
<1>6. /\ r \in Circuits /\ r.state = u.state /\ r.purpose = u.purpose
      /\ r.used = u.used /\ r.dest = u.dest /\ r.dirty = u.dirty
  BY <1>5, RolledBackFields DEF r
<1>7. StaysInUse(r, circ[c]) /\ c = stream[s].on /\ Answered(x, stream[s])
  BY <1>3, <1>5, <1>6 DEF StaysInUse, Answered
<1> HIDE DEF c
<1>8. /\ circ' \in [Circ -> Circuits] /\ stream' \in [Stream -> Streams]
      /\ \A t \in Stream : stream'[t] = IF t = s THEN x ELSE stream[t]
      /\ BuildingIsFresh' /\ StreamsCarried' /\ Pending' \subseteq Pending
      /\ \A d \in Circ : Reserved(circ'[d]) => Reserved(circ[d])
  BY <1>3, <1>4, <1>6, <1>7, StreamAnswered
<1> QED  BY <1>3, <1>8

\* ExpireStream keeps the invariant.
LEMMA ExpireStreamStep ==
  ASSUME UseInv, NEW s \in Stream, ExpireStream(s)
  PROVE  UseInv'
<1>1. /\ Running("expire") /\ s \in Head(agenda).arg
      /\ UNCHANGED <<failures, failedLast, resetIn, crashed>>
  BY DEF ExpireStream
<1>2. CASE ExpireWaiting(s)
  <2>1. /\ stream' = [stream EXCEPT ![s] = NoStream]
        /\ agenda' = After(s) /\ circ' = circ
    BY <1>2 DEF ExpireWaiting
  <2>2. /\ stream' \in [Stream -> Streams] /\ StreamsCarried'
        /\ \A t \in Stream : stream'[t] = IF t = s THEN NoStream ELSE stream[t]
    BY <2>1, FreshTypes, FreshFields, OneStream
  <2>3. /\ agenda' \in Seq(Calls) /\ AgendaOK(agenda', stream')
        /\ \A c : HasClear(agenda, c) => HasClear(agenda', c)
    BY <1>1, <2>1, <2>2, LoopGoesOn
  <2>4. BuildingIsFresh' /\ Pending' = Pending /\ circ' \in [Circ -> Circuits]
    BY <2>1, CircuitsSame, InvParts
  <2> QED  BY <1>1, <2>1, <2>2, <2>3, <2>4, QuietStep
<1>3. CASE RetryStream(s)
  <2>1. /\ stream[s].state = "connect"
        /\ circ' = [circ EXCEPT ![stream[s].on] = RolledBack(Unusable(circ[stream[s].on]))]
        /\ stream' = Detached(s)
        /\ agenda' = <<Call("attach", {s})>> \o After(s)
    BY <1>3 DEF RetryStream, NoAnswer
  <2>2. /\ circ' \in [Circ -> Circuits] /\ stream' \in [Stream -> Streams]
        /\ stream'[s].state = "wait"
        /\ \A t \in Stream \ {s} : stream'[t] = stream[t]
        /\ BuildingIsFresh' /\ StreamsCarried' /\ Pending' \subseteq Pending
        /\ \A d \in Circ : Reserved(circ'[d]) => Reserved(circ[d])
    BY <2>1, RetryFacts
  <2>3. /\ After(s) \in Seq(Calls) /\ Later(After(s))
        /\ \A c : HasClear(agenda, c) => HasClear(After(s), c)
    BY <1>1, <2>2, LoopGoesOn
  <2>4. agenda' = Loop("attach", {s}, After(s))
    BY <2>1 DEF Loop
  <2>5. /\ agenda' \in Seq(Calls) /\ AgendaOK(agenda', stream')
        /\ \A c : HasClear(After(s), c) => HasClear(agenda', c)
    <3>1. {s} \in SUBSET Stream /\ \A t \in {s} : stream'[t].state = "wait"
      BY <2>2
    <3> QED  BY <2>3, <2>4, <3>1, LoopOK
  <2> QED  BY <1>1, <2>2, <2>3, <2>5, QuietStep
<1> QED  BY <1>2, <1>3 DEF ExpireStream

\* CloseAllMarked keeps the invariant.
LEMMA CloseAllMarkedStep ==
  ASSUME UseInv, CloseAllMarked
  PROVE  UseInv'
<1>1. /\ Running("close_all_marked") /\ agenda' = Rest
      /\ circ' = [c \in Circ |-> IF circ[c].state = "marked" THEN NoCircuit ELSE circ[c]]
      /\ UNCHANGED <<stream, failures, failedLast, resetIn, crashed>>
  BY DEF CloseAllMarked
<1>2. circ \in [Circ -> Circuits] /\ stream \in [Stream -> Streams]
  BY InvParts
<1>3. \A c \in Circ : circ'[c] = IF circ[c].state = "marked" THEN NoCircuit ELSE circ[c]
  BY <1>1
<1>4. circ' \in [Circ -> Circuits]
  BY <1>1, <1>2, FreshTypes
<1>5. BuildingIsFresh' /\ Pending' \subseteq Pending
  BY <1>3, FreshFields, InvParts DEF BuildingIsFresh, Building, Pending
<1>6. \A c \in Circ : Reserved(circ'[c]) => Reserved(circ[c])
  BY <1>3, FreshFields DEF Reserved
<1>7. StreamsCarried'
  <2> SUFFICES ASSUME NEW s \in Stream PROVE StreamOK(s, stream, circ')
    BY <1>1 DEF StreamsCarried
  <2>1. StreamOK(s, stream, circ)
    BY InvParts
  <2> QED  BY <1>3, <2>1 DEF StreamOK, Carries
<1>8. /\ agenda' \in Seq(Calls) /\ AgendaOK(agenda', stream')
      /\ \A d : HasClear(agenda, d) => HasClear(agenda', d)
  BY <1>1, CallEnds
<1> QED  BY <1>1, <1>2, <1>4, <1>5, <1>6, <1>7, <1>8, QuietStep

\* What is under construction counts as clean, so a prediction is made only
\* below the limit.
LEMMA PredictAndLaunchStep ==
  ASSUME UseInv, PredictAndLaunch
  PROVE  UseInv'
<1>1. /\ Running("predict") /\ agenda' = Rest
      /\ UNCHANGED <<stream, failedLast, resetIn, crashed>>
  BY DEF PredictAndLaunch
<1>2. /\ agenda' \in Seq(Calls) /\ AgendaOK(agenda', stream')
      /\ \A d : HasClear(agenda, d) => HasClear(agenda', d)
  BY <1>1, CallEnds
<1>3. circ \in [Circ -> Circuits] /\ stream \in [Stream -> Streams]
  BY InvParts
<1>4. Cardinality(CleanCircuits) < MaxUnused => Cardinality(Pending) < PendingLimit
  <2>1. Pending \subseteq CleanCircuits
    BY InvParts DEF Pending, CleanCircuits, Building, Live
  <2>2. IsFiniteSet(CleanCircuits)
    BY UseAssumption, FS_Subset DEF CleanCircuits
  <2>3. /\ Cardinality(Pending) <= Cardinality(CleanCircuits)
        /\ Cardinality(CleanCircuits) \in Nat
    BY <2>1, <2>2, FS_Subset, FS_CardinalityType
  <2> QED  BY <2>3, PendingNat
<1>5. CASE UNCHANGED <<circ, failures>>
  <2>1. BuildingIsFresh' /\ Pending' = Pending /\ circ' \in [Circ -> Circuits]
    BY <1>3, <1>5, CircuitsSame
  <2>2. StreamsCarried'
    BY <1>1, <1>5 DEF UseInv, StreamsCarried
  <2> QED  BY <1>1, <1>2, <1>3, <1>5, <2>1, <2>2, QuietStep
<1>6. CASE /\ Cardinality(CleanCircuits) < MaxUnused
           /\ EstablishFails /\ UNCHANGED circ
  <2>1. BuildingIsFresh' /\ Pending' = Pending /\ circ' \in [Circ -> Circuits]
    BY <1>3, <1>6, CircuitsSame
  <2>2. PendingBounded' /\ FailuresThrottled' /\ failures' \in 0 .. FailureBound
    BY <1>1, <1>4, <1>6, <2>1, NumbersFail DEF EstablishFails
  <2>3. TypeOK'
    BY <1>1, <1>2, <2>1, <2>2 DEF UseInv, TypeOK, Calls
  <2>4. StreamsCarried' /\ ReservationsCleared'
    BY <1>1, <1>2, <1>6, InvParts DEF UseInv, StreamsCarried, ReservationsCleared
  <2> QED  BY <1>2, <2>1, <2>2, <2>3, <2>4 DEF UseInv
<1>7. ASSUME Cardinality(CleanCircuits) < MaxUnused,
             NEW c \in Circ, NEW st \in {"chan_wait", "building"}, Establishes(c, st),
             circ' = [circ EXCEPT ![c] = Launched(st)], failures' = failures
      PROVE  UseInv'
  <2> DEFINE r == Launched(st)
  <2>1. r \in Circuits /\ r.state = st /\ r.dirty = Clean /\ r.unusable = FALSE
    BY FreshTypes, FreshFields
  <2>2. ~ Throttled /\ ~ Carries(circ[c])
    BY <1>7 DEF Establishes, Carries
  <2>3. circ' = [circ EXCEPT ![c] = r]
    BY <1>7
  <2> HIDE DEF r
  <2>4. /\ circ' \in [Circ -> Circuits]
        /\ \A d \in Circ : circ'[d] = IF d = c THEN r ELSE circ[d]
        /\ BuildingIsFresh' /\ StreamsCarried' /\ Pending' \subseteq Pending \cup {c}
    BY <1>1, <2>1, <2>2, <2>3, OneCircuit
  <2>5. PendingBounded' /\ FailuresThrottled'
    BY <1>1, <1>4, <1>7, <2>2, <2>4, NumbersLaunch
  <2>6. TypeOK'
    BY <1>1, <1>2, <1>7, <2>4 DEF UseInv, TypeOK, Calls
  <2>7. ~ Reserved(r)
    BY <2>1 DEF Reserved
  <2>8. ReservationsCleared'
    BY <1>2, <2>4, <2>7, InvParts DEF ReservationsCleared
  <2> QED  BY <1>2, <2>4, <2>5, <2>6, <2>8 DEF UseInv
<1> QED  BY <1>5, <1>6, <1>7 DEF PredictAndLaunch

\* A circuit that is too old carries no stream, and is not under construction.
LEMMA TooOldFacts ==
  ASSUME UseInv, NEW c \in Circ, TooOld(c)
  PROVE  ~ Building(c) /\ \A s \in Stream : stream[s].on # c
<1>1. /\ Building(c) => circ[c].dirty = Clean
      /\ \A s \in Stream : StreamOK(s, stream, circ)
  BY InvParts
<1>2. ~ Building(c)
  BY <1>1, Times DEF TooOld, Building
<1>3. ASSUME NEW s \in Stream, stream[s].on = c PROVE FALSE
  <2>1. Carries(circ[c])
    BY <1>1, <1>3, Times DEF StreamOK
  <2>2. On(c) # {}
    BY <1>3 DEF On
  <2> QED  BY <2>1, <2>2 DEF TooOld, Carries
<1> QED  BY <1>2, <1>3

\* ExpireOld keeps the invariant.
LEMMA ExpireOldStep ==
  ASSUME UseInv, ExpireOld
  PROVE  UseInv'
<1>1. Running("expire_old") /\ agenda' = Rest /\ crashed' = crashed
  BY DEF ExpireOld
<1>2. /\ agenda' \in Seq(Calls) /\ AgendaOK(agenda', stream')
      /\ \A d : HasClear(agenda, d) => HasClear(agenda', d)
  BY <1>1, CallEnds
<1>3. circ \in [Circ -> Circuits] /\ stream \in [Stream -> Streams]
  BY InvParts
<1>4. CASE resetIn > 0
  <2>1. UNCHANGED <<circ, stream, failures, failedLast, resetIn>>
    BY <1>4 DEF ExpireOld
  <2>2. BuildingIsFresh' /\ Pending' = Pending
    BY <2>1, CircuitsSame
  <2>3. StreamsCarried'
    BY <2>1 DEF UseInv, StreamsCarried
  <2> QED  BY <1>1, <1>2, <1>3, <2>1, <2>2, <2>3, QuietStep
<1>5. CASE ~(resetIn > 0)
  <2>1. /\ failedLast' = (failures > MaxFailures) /\ failures' = 0
        /\ resetIn' = NewCircuitPeriod + 1 /\ stream' = stream
    BY <1>5 DEF ExpireOld
  <2>2. PICK probe \in SUBSET {c \in Circ : TooOld(c) /\ circ[c].path = "attempted"} :
          circ' = [c \in Circ |-> IF c \in probe THEN Probed(circ[c])
                                  ELSE IF TooOld(c) THEN Marked ELSE circ[c]]
    BY <1>5 DEF ExpireOld
  <2>3. \A c \in Circ : circ'[c] = IF c \in probe THEN Probed(circ[c])
                                  ELSE IF TooOld(c) THEN Marked ELSE circ[c]
    BY <2>2
  <2>4. probe \subseteq Circ /\ \A c \in probe : TooOld(c)
    BY <2>2
  <2>5. \A c \in Circ : /\ Probed(circ[c]) \in Circuits
                        /\ Probed(circ[c]).state = circ[c].state
                        /\ Probed(circ[c]).purpose = "testing"
                        /\ Probed(circ[c]).used = circ[c].used
                        /\ Probed(circ[c]).dest = circ[c].dest
    BY <1>3, ProbedFields
  <2>6. circ' \in [Circ -> Circuits]
    <3>1. \A c \in Circ : circ'[c] \in Circuits
      BY <1>3, <2>3, <2>5, FreshTypes
    <3>2. circ' = [c \in Circ |-> circ'[c]]
      BY <2>2
    <3> QED  BY <3>1, <3>2
  <2>7. BuildingIsFresh' /\ Pending' \subseteq Pending
    <3>1. \A c \in Circ : TooOld(c) => ~ Building(c)
      BY TooOldFacts
    <3>2. ASSUME NEW c \in Circ, circ'[c].state \in {"chan_wait", "building"}
          PROVE  circ'[c] = circ[c]
      BY <2>3, <2>4, <2>5, <3>1, <3>2, FreshFields DEF Building
    <3> QED  BY <3>2, InvParts DEF BuildingIsFresh, Building, Pending
  <2>8. \A c \in Circ : Reserved(circ'[c]) => Reserved(circ[c])
    BY <2>3, <2>5, FreshFields DEF Reserved
  <2>9. StreamsCarried'
    <3> SUFFICES ASSUME NEW s \in Stream PROVE StreamOK(s, stream, circ')
      BY <2>1 DEF StreamsCarried
    <3>1. StreamOK(s, stream, circ)
      BY InvParts
    <3>2. \A c \in Circ : stream[s].on = c => circ'[c] = circ[c]
      BY <2>3, <2>4, TooOldFacts
    <3> QED  BY <3>1, <3>2 DEF StreamOK
  <2>10. PendingBounded' /\ FailuresThrottled'
    BY <2>1, <2>7, NumbersFewer
  <2>11. TypeOK'
    <3>1. failedLast' \in BOOLEAN
      BY <2>1
    <3>2. /\ failures' \in 0 .. FailureBound
          /\ resetIn' \in 0 .. (NewCircuitPeriod + 1)
      BY <2>1, UseAssumption
    <3> QED  BY <1>1, <1>2, <1>3, <2>1, <2>6, <3>1, <3>2 DEF UseInv, TypeOK, Calls
  <2>12. ReservationsCleared'
    BY <1>2, <2>8, InvParts DEF ReservationsCleared
  <2> QED  BY <1>2, <2>7, <2>9, <2>10, <2>11, <2>12 DEF UseInv
<1> QED  BY <1>4, <1>5

\* A second passes: only times change, and the six calls are made in turn.
LEMMA RunScheduledEventsStep ==
  ASSUME UseInv, RunScheduledEvents
  PROVE  UseInv'
<1> DEFINE calls == <<Call("expire_building", {}), Call("expire_beginning", {}),
                      Call("attach_all", {}), Call("expire_old", {}),
                      Call("predict", {}), Call("close_all_marked", {})>>
<1>1. /\ agenda = << >> /\ agenda' = calls
      /\ resetIn' = (IF resetIn = 0 THEN 0 ELSE resetIn - 1)
      /\ UNCHANGED <<failures, failedLast, crashed>>
  BY Zenon DEF RunScheduledEvents
<1> HIDE DEF calls
<1>2. circ \in [Circ -> Circuits] /\ stream \in [Stream -> Streams]
  BY InvParts
<1>3. ASSUME NEW c \in Circ
      PROVE  /\ circ'[c] \in Circuits
             /\ circ'[c].state = circ[c].state /\ circ'[c].dest = circ[c].dest
             /\ circ'[c].used = circ[c].used
             /\ (circ'[c].dirty = Clean <=> circ[c].dirty = Clean)
             /\ circ'[c].unusable = circ[c].unusable
             /\ circ'[c].purpose = circ[c].purpose
  <2>1. CASE ~ Live(c)
    <3>1. circ'[c] = circ[c]
      BY <2>1, Zenon DEF RunScheduledEvents
    <3> QED  BY <1>2, <3>1
  <2>2. CASE Live(c)
    <3> DEFINE a == IF InUse(c) THEN 0 ELSE Older(circ[c].age, AgeCap)
               d == IF circ[c].dirty = Clean THEN Clean ELSE Older(circ[c].dirty, DirtyCap)
    <3>1. circ'[c] = [circ[c] EXCEPT !.age = a, !.dirty = d]
      BY <2>2, Zenon DEF RunScheduledEvents
    <3>2. /\ circ[c] \in Circuits /\ circ[c].age \in 0 .. AgeCap
          /\ circ[c].dirty \in 0 .. Clean
      BY <1>2 DEF Circuits
    <3>3. a \in 0 .. AgeCap
      BY <3>2, Times, Older01
    <3>4. d \in 0 .. Clean /\ (d = Clean <=> circ[c].dirty = Clean)
      <4>1. circ[c].dirty # Clean => circ[c].dirty \in 0 .. DirtyCap
        BY <3>2, Times DEF Clean
      <4>2. circ[c].dirty # Clean => Older(circ[c].dirty, DirtyCap) \in 0 .. DirtyCap
        BY <4>1, Times, Older01
      <4> QED  BY <4>2, Times DEF Clean
    <3> HIDE DEF a, d
    <3> QED  BY <3>1, <3>2, <3>3, <3>4 DEF Circuits
  <2> QED  BY <2>1, <2>2
<1>4. ASSUME NEW s \in Stream
      PROVE  /\ stream'[s] \in Streams
             /\ stream'[s].state = stream[s].state /\ stream'[s].dest = stream[s].dest
             /\ stream'[s].on = stream[s].on
  <2>1. CASE stream[s].state \notin {"wait", "connect"}
    <3>1. stream'[s] = stream[s]
      BY <2>1, Zenon DEF RunScheduledEvents
    <3> QED  BY <1>2, <3>1
  <2>2. CASE stream[s].state \in {"wait", "connect"}
    <3> DEFINE a == Older(stream[s].age, SocksTimeout)
               i == IF stream[s].state = "wait" THEN stream[s].idle
                    ELSE Older(stream[s].idle, RetryTimeout)
    <3>1. stream'[s] = [stream[s] EXCEPT !.age = a, !.idle = i]
      BY <2>2, Zenon DEF RunScheduledEvents
    <3>2. /\ stream[s] \in Streams /\ stream[s].age \in 0 .. SocksTimeout
          /\ stream[s].idle \in 0 .. RetryTimeout
      BY <1>2 DEF Streams
    <3>3. SocksTimeout \in Nat /\ RetryTimeout \in Nat
      BY UseAssumption
    <3>4. a \in 0 .. SocksTimeout /\ i \in 0 .. RetryTimeout
      BY <3>2, <3>3, Older01
    <3> HIDE DEF a, i
    <3> QED  BY <3>1, <3>2, <3>4 DEF Streams
  <2> QED  BY <2>1, <2>2
<1>5. circ' \in [Circ -> Circuits] /\ stream' \in [Stream -> Streams]
  <2>1. circ' = [c \in Circ |-> circ'[c]] /\ stream' = [s \in Stream |-> stream'[s]]
    BY Zenon DEF RunScheduledEvents
  <2>2. circ' \in [Circ -> Circuits]
    BY <1>3, <2>1
  <2>3. stream' \in [Stream -> Streams]
    BY <1>4, <2>1
  <2> QED  BY <2>2, <2>3
<1>6. BuildingIsFresh' /\ Pending' \subseteq Pending
  BY <1>3, InvParts DEF BuildingIsFresh, Building, Pending
<1>7. \A c \in Circ : ~ Reserved(circ'[c])
  BY <1>1, <1>3, IdleFacts DEF Reserved
<1>8. StreamsCarried'
  <2> SUFFICES ASSUME NEW s \in Stream PROVE StreamOK(s, stream', circ')
    BY DEF StreamsCarried
  <2>1. StreamOK(s, stream, circ)
    BY InvParts
  <2> QED  BY <1>3, <1>4, <2>1 DEF StreamOK, Carries
<1>9. calls \in Seq(Calls) /\ Later(calls)
  <2>1. \A o \in {"expire_building", "expire_beginning", "attach_all", "expire_old",
                  "predict", "close_all_marked"} :
          Call(o, {}) \in Calls /\ CallOK(Call(o, {})) /\ Call(o, {}).op # "attach"
    BY DEF Call, Calls, CallOK
  <2>2. calls \in Seq(Calls)
    BY <2>1 DEF calls
  <2>3. Later(calls)
    BY <2>1 DEF Later, calls
  <2> QED  BY <2>2, <2>3
<1>10. agenda' \in Seq(Calls) /\ AgendaOK(agenda', stream')
  BY <1>1, <1>9, LaterIsOK
<1>11. PendingBounded' /\ FailuresThrottled'
  <2>1. failures' \in Nat /\ failures' <= failures
    BY <1>1, InvParts
  <2> QED  BY <1>1, <1>6, <2>1, NumbersFewer
<1>12. TypeOK'
  <2>1. resetIn' \in 0 .. (NewCircuitPeriod + 1)
    <3>1. resetIn \in 0 .. (NewCircuitPeriod + 1) /\ NewCircuitPeriod \in Nat
      BY UseAssumption DEF UseInv, TypeOK
    <3> QED  BY <1>1, <3>1
  <2> QED  BY <1>1, <1>5, <1>10, <2>1 DEF UseInv, TypeOK, Calls
<1>13. ReservationsCleared'
  BY <1>7 DEF ReservationsCleared
<1> QED  BY <1>6, <1>8, <1>10, <1>11, <1>12, <1>13 DEF UseInv

\* NewStream keeps the invariant.
LEMMA NewStreamStep ==
  ASSUME UseInv, NEW s \in Stream, NEW as \in AS, NewStream(s, as)
  PROVE  UseInv'
<1> DEFINE x == [stream[s] EXCEPT !.state = "wait", !.dest = as]
<1>1. /\ agenda = << >> /\ stream[s].state = "none"
      /\ stream' = [stream EXCEPT ![s] = x]
      /\ agenda' = <<Call("attach", {s})>>
      /\ UNCHANGED <<circ, failures, failedLast, resetIn, crashed>>
  BY DEF NewStream, Idle
<1>2. circ \in [Circ -> Circuits] /\ stream[s] \in Streams
  BY InvParts
<1>3. x \in Streams /\ x.state = "wait" /\ x.dest = as /\ x.on = stream[s].on
  BY <1>2 DEF Streams
<1> HIDE DEF x
<1>4. x.on = None /\ as # None
  BY <1>1, <1>3, Times, InvParts DEF StreamOK
<1>5. /\ stream' \in [Stream -> Streams] /\ StreamsCarried'
      /\ \A t \in Stream : stream'[t] = IF t = s THEN x ELSE stream[t]
  BY <1>1, <1>3, <1>4, OneStream
<1>6. BuildingIsFresh' /\ Pending' = Pending
  BY <1>1, CircuitsSame
<1>7. agenda' = Loop("attach", {s}, << >>)
  BY <1>1 DEF Loop
<1>8. agenda' \in Seq(Calls) /\ AgendaOK(agenda', stream')
  <2>1. {s} \in SUBSET Stream /\ \A t \in {s} : stream'[t].state = "wait"
    BY <1>3, <1>5
  <2> QED  BY <1>7, <2>1, EmptyAgenda, LoopOK
<1>9. \A c : HasClear(agenda, c) => HasClear(agenda', c)
  BY <1>1 DEF HasClear
<1> QED  BY <1>1, <1>2, <1>5, <1>6, <1>8, <1>9, QuietStep

\* ChannelOpens keeps the invariant.
LEMMA ChannelOpensStep ==
  ASSUME UseInv, NEW c \in Circ, ChannelOpens(c)
  PROVE  UseInv'
<1> DEFINE r == [circ[c] EXCEPT !.state = "building", !.age = 0]
<1>1. /\ circ[c].state = "chan_wait" /\ circ' = [circ EXCEPT ![c] = r]
      /\ UNCHANGED <<stream, failures, failedLast, resetIn, agenda, crashed>>
  BY DEF ChannelOpens
<1>2. stream \in [Stream -> Streams] /\ circ[c] \in Circuits
  BY InvParts
<1>3. /\ r \in Circuits /\ r.state = "building" /\ r.purpose = circ[c].purpose
      /\ r.dirty = circ[c].dirty /\ r.unusable = circ[c].unusable
  BY <1>2, Times DEF Circuits
<1> HIDE DEF r
<1>4. r.dirty = Clean /\ ~ r.unusable /\ ~ Carries(circ[c]) /\ ~ Reserved(r)
  BY <1>1, <1>3, InvParts DEF Building, Carries, Reserved
<1>5. /\ circ' \in [Circ -> Circuits] /\ BuildingIsFresh' /\ StreamsCarried'
      /\ \A d \in Circ : circ'[d] = IF d = c THEN r ELSE circ[d]
  BY <1>1, <1>3, <1>4, OneCircuit
<1>6. Pending' \subseteq Pending
  BY <1>1, <1>3, <1>5 DEF Pending, Building
<1>7. \A d \in Circ : Reserved(circ'[d]) => Reserved(circ[d])
  BY <1>4, <1>5
<1>8. agenda' \in Seq(Calls) /\ AgendaOK(agenda', stream')
  BY <1>1, InvParts
<1> QED  BY <1>1, <1>2, <1>5, <1>6, <1>7, <1>8, QuietStep

\* The circuit that opens is the only one that can be reserved, and the handler
\* ends by clearing it.
LEMMA CircuitBuiltStep ==
  ASSUME UseInv, NEW c \in Circ, CircuitBuilt(c)
  PROVE  UseInv'
<1> DEFINE r == [circ[c] EXCEPT !.state = "open"]
           rest == <<Call("clear", c)>>
<1>1. /\ agenda = << >> /\ circ[c].state = "building"
      /\ failures' = 0 /\ failedLast' = FALSE
      /\ circ' = [circ EXCEPT ![c] = r]
      /\ agenda' = AttachPending(rest)
      /\ UNCHANGED <<stream, resetIn, crashed>>
  BY DEF CircuitBuilt, Idle
<1>2. circ[c] \in Circuits /\ stream \in [Stream -> Streams]
  BY InvParts
<1>3. r \in Circuits /\ r.state = "open"
  BY <1>2 DEF Circuits
<1>4. /\ rest \in Seq(Calls) /\ Later(rest) /\ HasClear(rest, c)
  <2>1. Call("clear", c) \in Calls /\ CallOK(Call("clear", c))
        /\ Call("clear", c).op = "clear" /\ Call("clear", c).arg = c
    BY DEF Call, Calls, CallOK
  <2>2. rest \in Seq(Calls) /\ Len(rest) = 1 /\ rest[1] = Call("clear", c)
    BY <2>1
  <2> HIDE DEF rest
  <2> QED  BY <2>1, <2>2 DEF Later, HasClear
<1> HIDE DEF r, rest
<1>5. ~ Carries(circ[c])
  BY <1>1 DEF Carries
<1>6. /\ circ' \in [Circ -> Circuits] /\ BuildingIsFresh' /\ StreamsCarried'
      /\ \A d \in Circ : circ'[d] = IF d = c THEN r ELSE circ[d]
      /\ Pending' \subseteq Pending
  BY <1>1, <1>3, <1>5, OneCircuit
<1>7. /\ agenda' \in Seq(Calls) /\ AgendaOK(agenda', stream')
      /\ HasClear(agenda', c)
  BY <1>1, <1>4, AttachPendingOK
<1>8. ReservationsCleared'
  <2>1. \A d \in Circ : ~ Reserved(circ[d])
    BY <1>1, IdleFacts
  <2> QED  BY <1>6, <1>7, <2>1 DEF ReservationsCleared
<1>9. PendingBounded' /\ FailuresThrottled'
  BY <1>1, <1>6, NumbersFewer
<1>10. TypeOK'
  <2>1. failures' \in 0 .. FailureBound
    BY <1>1, PendingNat
  <2>2. failedLast' \in BOOLEAN
    BY <1>1
  <2> QED  BY <1>1, <1>6, <1>7, <2>1, <2>2 DEF UseInv, TypeOK, Calls
<1> QED  BY <1>6, <1>7, <1>8, <1>9, <1>10 DEF UseInv

\* One circuit is marked for close.
LEMMA CircuitGone ==
  ASSUME UseInv, NEW c \in Circ, circ' = [circ EXCEPT ![c] = Marked],
         stream' = Dropped({c})
  PROVE  /\ circ' \in [Circ -> Circuits] /\ stream' \in [Stream -> Streams]
         /\ BuildingIsFresh' /\ StreamsCarried' /\ Pending' \subseteq Pending \ {c}
         /\ \A d \in Circ : Reserved(circ'[d]) => Reserved(circ[d])
<1>1. circ \in [Circ -> Circuits]
  BY InvParts
<1>2. /\ circ' \in [Circ -> Circuits] /\ {c} \in SUBSET Circ
      /\ \A d \in {c} : circ'[d] = Marked
      /\ \A d \in Circ \ {c} : circ'[d] = circ[d]
  BY <1>1, FreshTypes
<1> QED  BY <1>2, MarkedCircuits

\* CircuitDestroyed keeps the invariant.
LEMMA CircuitDestroyedStep ==
  ASSUME UseInv, NEW c \in Circ, CircuitDestroyed(c) \/ ProbeAnswered(c)
  PROVE  UseInv'
<1>1. /\ agenda = << >> /\ circ' = [circ EXCEPT ![c] = Marked]
      /\ stream' = Dropped({c})
      /\ UNCHANGED <<failedLast, resetIn, agenda, crashed>>
      /\ \/ failures' = Failed(BuildFailures({c}))
         \/ failures' = failures
  BY DEF CircuitDestroyed, ProbeAnswered, Idle
<1>2. /\ circ' \in [Circ -> Circuits] /\ stream' \in [Stream -> Streams]
      /\ BuildingIsFresh' /\ StreamsCarried' /\ Pending' \subseteq Pending \ {c}
      /\ \A d \in Circ : Reserved(circ'[d]) => Reserved(circ[d])
  BY <1>1, CircuitGone
<1>3. agenda' \in Seq(Calls) /\ AgendaOK(agenda', stream')
  BY <1>1, EmptyAgenda
<1>4. CASE failures' = failures
  BY <1>1, <1>2, <1>3, <1>4, QuietStep
<1>5. CASE failures' = Failed(BuildFailures({c}))
  <2>1. PendingBounded' /\ FailuresThrottled' /\ failures' \in 0 .. FailureBound
    BY <1>1, <1>2, <1>5, NumbersGone
  <2>2. TypeOK'
    BY <1>1, <1>2, <1>3, <2>1 DEF UseInv, TypeOK, Calls
  <2>3. ReservationsCleared'
    BY <1>1, <1>2, InvParts DEF ReservationsCleared
  <2> QED  BY <1>2, <1>3, <2>1, <2>2, <2>3 DEF UseInv
<1> QED  BY <1>1, <1>4, <1>5

\* ProbedOnError keeps the invariant.
LEMMA ProbedOnErrorStep ==
  ASSUME UseInv, NEW c \in Circ, ProbedOnError(c)
  PROVE  UseInv'
<1> DEFINE r == Probed(circ[c])
<1>1. /\ circ[c].state = "open" /\ circ' = [circ EXCEPT ![c] = r]
      /\ UNCHANGED <<stream, failures, failedLast, resetIn, agenda, crashed>>
  BY DEF ProbedOnError
<1>2. circ[c] \in Circuits /\ stream \in [Stream -> Streams]
  BY InvParts
<1>3. /\ r \in Circuits /\ r.state = circ[c].state /\ r.purpose = "testing"
      /\ r.used = circ[c].used /\ r.dest = circ[c].dest /\ r.dirty # Clean
  BY <1>2, ProbedFields
<1> HIDE DEF r
<1>4. Carries(circ[c]) => Carries(r) /\ r.dest = circ[c].dest
  BY <1>3 DEF Carries
<1>5. /\ circ' \in [Circ -> Circuits] /\ BuildingIsFresh' /\ StreamsCarried'
      /\ \A d \in Circ : circ'[d] = IF d = c THEN r ELSE circ[d]
      /\ Pending' \subseteq Pending
  BY <1>1, <1>3, <1>4, OneCircuit
<1>6. \A d \in Circ : Reserved(circ'[d]) => Reserved(circ[d])
  BY <1>3, <1>5 DEF Reserved
<1>7. agenda' \in Seq(Calls) /\ AgendaOK(agenda', stream')
  BY <1>1, InvParts
<1> QED  BY <1>1, <1>2, <1>5, <1>6, <1>7, QuietStep

\* Connected keeps the invariant.
LEMMA ConnectedStep ==
  ASSUME UseInv, NEW s \in Stream, Connected(s) \/ EndFinal(s)
  PROVE  UseInv'
<1> DEFINE c == stream[s].on
           r == [circ[c] EXCEPT !.path = "succeeded"]
           x == [stream[s] EXCEPT !.state = "open", !.age = 0, !.idle = 0]
<1>1. /\ agenda = << >> /\ stream[s].state = "connect"
      /\ circ' = [circ EXCEPT ![c] = r]
      /\ UNCHANGED <<failures, failedLast, resetIn, agenda, crashed>>
      /\ \/ stream' = [stream EXCEPT ![s] = x]
         \/ stream' = [stream EXCEPT ![s] = NoStream]
  BY DEF Connected, EndFinal, CellFor, Idle
<1>2. circ \in [Circ -> Circuits] /\ stream \in [Stream -> Streams]
  BY InvParts
<1>3. c \in Circ /\ Carries(circ[c]) /\ circ[c] \in Circuits
  BY <1>1, <1>2, InvParts DEF StreamOK
<1>4. x \in Streams /\ Answered(x, stream[s])
  <2>1. 0 \in 0 .. RetryTimeout /\ 0 \in 0 .. SocksTimeout /\ stream[s] \in Streams
    BY <1>2, UseAssumption
  <2>2. /\ x \in Streams /\ x.state = "open" /\ x.on = stream[s].on
        /\ x.dest = stream[s].dest
    BY <2>1 DEF Streams
  <2> HIDE DEF x
  <2> QED  BY <2>2 DEF Answered
<1>5. NoStream \in Streams /\ Answered(NoStream, stream[s])
  BY FreshTypes, FreshFields DEF Answered
<1>6. r \in Circuits /\ StaysInUse(r, circ[c])
  <2>1. /\ r \in Circuits /\ r.state = circ[c].state /\ r.purpose = circ[c].purpose
        /\ r.used = circ[c].used /\ r.dest = circ[c].dest /\ r.dirty = circ[c].dirty
    BY <1>3 DEF Circuits
  <2> HIDE DEF r
  <2> QED  BY <1>3, <2>1 DEF StaysInUse, Carries
<1>7. c = stream[s].on
  OBVIOUS
<1> HIDE DEF c, r, x
<1>8. /\ circ' \in [Circ -> Circuits] /\ stream' \in [Stream -> Streams]
      /\ BuildingIsFresh' /\ StreamsCarried' /\ Pending' \subseteq Pending
      /\ \A d \in Circ : Reserved(circ'[d]) => Reserved(circ[d])
  <2>1. CASE stream' = [stream EXCEPT ![s] = x]
    BY <1>1, <1>4, <1>6, <1>7, <2>1, StreamAnswered
  <2>2. CASE stream' = [stream EXCEPT ![s] = NoStream]
    BY <1>1, <1>5, <1>6, <1>7, <2>2, StreamAnswered
  <2> QED  BY <1>1, <2>1, <2>2
<1>9. agenda' \in Seq(Calls) /\ AgendaOK(agenda', stream')
  BY <1>1, EmptyAgenda
<1> QED  BY <1>1, <1>8, <1>9, QuietStep

\* EndRetriable keeps the invariant.
LEMMA EndRetriableStep ==
  ASSUME UseInv, NEW s \in Stream, EndRetriable(s)
  PROVE  UseInv'
<1>1. /\ agenda = << >> /\ stream[s].state = "connect"
      /\ circ' = [circ EXCEPT ![stream[s].on] = RolledBack(Unusable(circ[stream[s].on]))]
      /\ stream' = Detached(s)
      /\ agenda' = <<Call("attach", {s})>>
      /\ UNCHANGED <<failures, failedLast, resetIn, crashed>>
  BY DEF EndRetriable, CellFor, Idle
<1>2. /\ circ' \in [Circ -> Circuits] /\ stream' \in [Stream -> Streams]
      /\ stream'[s].state = "wait"
      /\ BuildingIsFresh' /\ StreamsCarried' /\ Pending' \subseteq Pending
      /\ \A d \in Circ : Reserved(circ'[d]) => Reserved(circ[d])
  BY <1>1, RetryFacts
<1>3. agenda' = Loop("attach", {s}, << >>)
  BY <1>1 DEF Loop
<1>4. agenda' \in Seq(Calls) /\ AgendaOK(agenda', stream')
  <2>1. {s} \in SUBSET Stream /\ \A t \in {s} : stream'[t].state = "wait"
    BY <1>2
  <2> QED  BY <1>3, <2>1, EmptyAgenda, LoopOK
<1>5. \A c : HasClear(agenda, c) => HasClear(agenda', c)
  BY <1>1 DEF HasClear
<1> QED  BY <1>1, <1>2, <1>4, <1>5, QuietStep

\* StreamEnds keeps the invariant.
LEMMA StreamEndsStep ==
  ASSUME UseInv, NEW s \in Stream, StreamEnds(s)
  PROVE  UseInv'
<1>1. /\ agenda = << >> /\ stream' = [stream EXCEPT ![s] = NoStream]
      /\ UNCHANGED <<circ, failures, failedLast, resetIn, agenda, crashed>>
  BY DEF StreamEnds, Idle
<1>2. stream' \in [Stream -> Streams] /\ StreamsCarried'
  BY <1>1, FreshTypes, FreshFields, OneStream
<1>3. BuildingIsFresh' /\ Pending' = Pending /\ circ' \in [Circ -> Circuits]
  BY <1>1, CircuitsSame, InvParts
<1>4. agenda' \in Seq(Calls) /\ AgendaOK(agenda', stream')
  BY <1>1, EmptyAgenda
<1> QED  BY <1>1, <1>2, <1>3, <1>4, QuietStep

-----------------------------------------------------------------------------
(* The invariant, and what follows from it *)

\* The client starts in the invariant.
LEMMA UseInitInv ==
  ASSUME Init PROVE UseInv
<1>1. /\ circ = [c \in Circ |-> NoCircuit] /\ stream = [s \in Stream |-> NoStream]
      /\ failures = 0 /\ failedLast = FALSE /\ resetIn = 0
      /\ agenda = << >> /\ crashed = FALSE
  BY DEF Init
<1>2. /\ \A c \in Circ : circ[c] = NoCircuit
      /\ \A s \in Stream : stream[s] = NoStream
  BY <1>1
<1>3. TypeOK
  <2>1. failures \in 0 .. FailureBound /\ resetIn \in 0 .. (NewCircuitPeriod + 1)
    BY <1>1, UseAssumption
  <2>2. circ \in [Circ -> Circuits] /\ stream \in [Stream -> Streams]
    BY <1>1, FreshTypes
  <2>3. failedLast \in BOOLEAN /\ crashed \in BOOLEAN
    BY <1>1
  <2>4. agenda \in Seq(Calls)
    BY <1>1, EmptyAgenda
  <2> QED  BY <2>1, <2>2, <2>3, <2>4 DEF TypeOK, Calls
<1>4. Pending = {} /\ BuildingIsFresh
  BY <1>2, FreshFields DEF Pending, Building, BuildingIsFresh
<1>5. StreamsCarried
  BY <1>2, FreshFields DEF StreamsCarried, StreamOK
<1>6. AgendaOK(agenda, stream)
  BY <1>1, EmptyAgenda
<1>7. ReservationsCleared
  BY <1>2, FreshFields DEF ReservationsCleared, Reserved
<1>8. PendingBounded /\ FailuresThrottled
  <2>1. Cardinality(Pending) = 0
    BY <1>4, FS_EmptySet
  <2> QED  BY <1>1, <2>1, PendingNat DEF PendingBounded, FailuresThrottled
<1> QED  BY <1>3, <1>4, <1>5, <1>6, <1>7, <1>8 DEF UseInv

\* Every step of the client keeps the invariant.
LEMMA UseStep ==
  ASSUME UseInv, [Next]_vars
  PROVE  UseInv'
<1>1. ASSUME NEW s \in Stream, AttachStream(s) PROVE UseInv'
  BY <1>1, GiveUpStep, AttachStep, AttachNoStreamIdStep, JoinPendingStep,
     WaitForPendingStep, LaunchForStreamStep, LaunchReturnsNullStep
     DEF AttachStream
<1>2. CASE Handler
  BY <1>1, <1>2, ExpireStreamStep, TryClearingStep, ExpireBuildingStep,
     ExpireBeginningStep, ExpireOldStep, PredictAndLaunchStep, CloseAllMarkedStep
     DEF Handler
<1>3. CASE Event
  BY <1>3, NewStreamStep, ConnectedStep, EndRetriableStep, StreamEndsStep,
     ChannelOpensStep, CircuitBuiltStep, CircuitDestroyedStep, ProbedOnErrorStep
     DEF Event
<1>4. CASE RunScheduledEvents
  BY <1>4, RunScheduledEventsStep
<1>5. CASE UNCHANGED vars
  <2>1. UNCHANGED <<circ, stream, failures, failedLast, resetIn, agenda, crashed>>
    BY <1>5 DEF vars
  <2>2. BuildingIsFresh' /\ Pending' = Pending
    BY <2>1, CircuitsSame
  <2>3. StreamsCarried'
    BY <2>1 DEF UseInv, StreamsCarried
  <2> QED  BY <2>1, <2>2, <2>3, InvParts, QuietStep
<1> QED  BY <1>2, <1>3, <1>4, <1>5 DEF Next

\* The inductive invariant: what every property below rests on.
THEOREM UseInvHolds == Spec => []UseInv
  BY UseInitInv, UseStep, PTL DEF Spec

\* The circuits, the streams, the counters and the agenda keep their types.
THEOREM UseTypes == Spec => []TypeOK
<1>1. UseInv => TypeOK
  BY DEF UseInv
<1> QED  BY <1>1, UseInvHolds, PTL

\* A stream is on a circuit exactly while it waits for CONNECTED or is open, and
\* that circuit is open: what circuit_expire_building takes for a bug cannot be.
THEOREM StreamsAreOnOpenCircuits == Spec => []StreamsOnOpenCircuits
<1>1. UseInv => StreamsOnOpenCircuits
  <2> SUFFICES ASSUME UseInv, NEW s \in Stream
               PROVE  IF stream[s].state \in {"connect", "open"}
                      THEN stream[s].on # None /\ Carries(circ[stream[s].on])
                      ELSE stream[s].on = None
    BY DEF StreamsOnOpenCircuits, Carries
  <2>1. StreamOK(s, stream, circ)
    BY InvParts
  <2> QED  BY <2>1, Times DEF StreamOK
<1> QED  BY <1>1, UseInvHolds, PTL

\* However streams are attached, reserved for, retried and cleared, those of a
\* circuit all go to one AS: circuit_get_best compares with the destination
\* the circuit remembers, and it is never forgotten while a stream is on it.
THEOREM CircuitsServeOneAS == Spec => []OneASPerCircuit
<1>1. UseInv => OneASPerCircuit
  <2> SUFFICES ASSUME UseInv, NEW s \in Stream, NEW t \in Stream,
                      stream[s].on # None, stream[s].on = stream[t].on
               PROVE  stream[s].dest = stream[t].dest
    BY DEF OneASPerCircuit
  <2>1. StreamOK(s, stream, circ) /\ StreamOK(t, stream, circ)
    BY InvParts
  <2> QED  BY <2>1 DEF StreamOK
<1> QED  BY <1>1, UseInvHolds, PTL

\* Between handlers no open circuit is reserved for a stream it never carried:
\* whatever circuit_has_opened leaves to do ends with clearing it.
THEOREM ReservationsNeverStale == Spec => []NoStaleReservation
<1>1. UseInv => NoStaleReservation
  <2> SUFFICES ASSUME UseInv, agenda = << >>, NEW c \in Circ,
                      circ[c].state = "open", ~ circ[c].used
               PROVE  circ[c].dest = None
    BY DEF NoStaleReservation
  <2> QED  BY IdleFacts DEF Reserved
<1> QED  BY <1>1, UseInvHolds, PTL

\* Launches for streams and launches by prediction check different limits; the
\* circuits under construction never exceed the larger of the two.
THEOREM ConstructionBounded == Spec => []PendingBounded
<1>1. UseInv => PendingBounded
  BY DEF UseInv
<1> QED  BY <1>1, UseInvHolds, PTL

\* After a bad period, failures stop at MAX_CIRCUIT_FAILURES and what was
\* already under construction.
THEOREM LaunchesThrottled == Spec => []FailuresThrottled
<1>1. UseInv => FailuresThrottled
  BY DEF UseInv
<1> QED  BY <1>1, UseInvHolds, PTL
=============================================================================
