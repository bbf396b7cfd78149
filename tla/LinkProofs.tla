------------------------------ MODULE LinkProofs ------------------------------
(***************************************************************************)
(* Proofs about what lies between a circuit and the network.               *)
(*                                                                         *)
(* The cell scheduler, for any number of channels, any sizes and any water *)
(* marks: the heap of pending channels is exact, the output buffers stay   *)
(* bounded and no wake-up is lost.  The channels and the circuits on them, *)
(* for any number of either and any circuit IDs: no table refers to a      *)
(* channel that is gone, and an ID is reserved exactly as long as its      *)
(* DESTROY waits.                                                          *)
(***************************************************************************)
EXTENDS Scheduler, Channel, FiniteSetTheorems, SequenceTheorems, TLAPS

-----------------------------------------------------------------------------
(* The scheduler *)

\* Minimum and maximum of two numbers.
LEMMA MinOfTwo ==
    ASSUME NEW a \in Int, NEW b \in Int
    PROVE  Min({a, b}) = IF a <= b THEN a ELSE b
<1>1. \E x \in {a, b} : \A y \in {a, b} : x =< y
  OBVIOUS
<1>2. Min({a, b}) \in {a, b} /\ \A y \in {a, b} : Min({a, b}) =< y
  BY <1>1 DEF Min
<1> QED  BY <1>2

\* The greatest of two numbers.
LEMMA MaxOfTwo ==
    ASSUME NEW a \in Int, NEW b \in Int
    PROVE  Max({a, b}) = IF a >= b THEN a ELSE b
<1>1. \E x \in {a, b} : \A y \in {a, b} : x >= y
  OBVIOUS
<1>2. Max({a, b}) \in {a, b} /\ \A y \in {a, b} : Max({a, b}) >= y
  BY <1>1 DEF Max
<1> QED  BY <1>2

\* Rounded-down division.
LEMMA DivBounds ==
    ASSUME NEW a \in Nat, NEW d \in Nat \ {0}
    PROVE  /\ a \div d \in Nat
           /\ (a \div d) * d <= a
           /\ a >= d => a \div d > 0
           /\ a < d => a \div d = 0
  BY Z3

\* The remainders of sums and differences of two size_t values.
LEMMA ModSmall ==
    ASSUME NEW a \in Nat, NEW d \in Nat \ {0}
    PROVE  /\ a < d => a % d = a
           /\ a >= d /\ a < 2 * d => a % d = a - d
           /\ 0 < a /\ a <= d => (0 - a) % d = d - a
  BY Z3

-----------------------------------------------------------------------------
\* What scheduler_run knows of the channel it holds: it is open, pending and
\* off the heap, and what may still be written fits its buffer.
RunShape ==
    /\ run.pc = "off" => run = NoRun
    /\ run.pc = "pick" => run.chan = NoChan
    /\ run.pc \in {"loop", "cells"} =>
          /\ run.chan \in SChan \ run.readd
          /\ life[run.chan] = "open"
          /\ sst[run.chan] = Pending
          /\ run.flushed <= run.n
          /\ outbuf[run.chan] + (run.n - run.flushed) * CellSize
                < HighWater + CellSize
    /\ run.pc = "cells" => run.chunk <= run.n - run.flushed
    /\ \A c \in run.readd : sst[c] = Pending /\ life[c] = "open"

\* A channel that is not open is not written to.
NotOpenNotPending ==
    \A c \in SChan :
        /\ life[c] = "opening" => sst[c] = Idle
        /\ life[c] = "closing" => sst[c] \in {Idle, WaitWrite}

\* SchedNoLostWakeup, also while the scheduler runs.
WakeupKept ==
    \A c \in SChan :
        life[c] = "open" =>
            /\ sst[c] \in {Idle, WaitWrite} => outbuf[c] > 0
            /\ sst[c] = Idle => qcells[c] = 0

SchedInv ==
    /\ SchedTypeOK
    /\ RunShape
    /\ NotOpenNotPending
    /\ PendingExact
    /\ OutbufBounded
    /\ WakeupKept

-----------------------------------------------------------------------------
(* The operators *)

\* The arithmetic of size_t's in channel_tls_num_cells_writeable_method gives
\* the room of the buffer, rounded up to cells, also for a buffer that is over
\* its mark by less than a cell.
LEMMA RoomExact ==
    ASSUME SchedTypeOK, OutbufBounded, NEW c \in SChan, life[c] = "open"
    PROVE  /\ CellsWriteable(c) \in Nat
           /\ CellsWriteable(c) * CellSize < HighWater + CellSize - outbuf[c]
           /\ CellsWriteable(c) = 0 => outbuf[c] > 0
<1> DEFINE room == (HighWater - outbuf[c]) % SizeT
           left == HighWater + CellSize - 1 - outbuf[c]
           n == ((room + CellSize - 1) % SizeT) \div CellSize
<1> USE SchedAssumption
<1>1. outbuf[c] \in Nat /\ outbuf[c] < HighWater + CellSize
  BY DEF SchedTypeOK, OutbufBounded
<1>2. left \in Nat /\ left < SizeT
  BY <1>1
<1>3. (room + CellSize - 1) % SizeT = left
  <2>1. CASE outbuf[c] <= HighWater
    <3>1. HighWater - outbuf[c] \in Nat /\ HighWater - outbuf[c] < SizeT
      BY <1>1, <2>1
    <3>2. room = HighWater - outbuf[c]
      BY <3>1, ModSmall
    <3>3. room + CellSize - 1 = left
      BY <3>2, <1>1
    <3>4. left % SizeT = left
      <4> HIDE DEF left
      <4> QED  BY <1>2, ModSmall
    <3> QED  BY <3>3, <3>4
  <2>2. CASE outbuf[c] > HighWater
    <3> DEFINE over == outbuf[c] - HighWater
    <3>1. over \in Nat /\ 0 < over /\ over < CellSize /\ over <= SizeT
          /\ HighWater - outbuf[c] = 0 - over
      BY <1>1, <2>2
    <3>2. room = SizeT - over
      BY <3>1, ModSmall
    <3>3. room + CellSize - 1 = SizeT + left /\ SizeT + left \in Nat
      BY <3>2, <1>1, <1>2
    <3>4. (SizeT + left) % SizeT = (SizeT + left) - SizeT
      <4>1. SizeT + left >= SizeT /\ SizeT + left < 2 * SizeT
        BY <1>2
      <4> QED  BY <4>1, <3>3, ModSmall
    <3> QED  BY <3>3, <3>4, <1>2
  <2> QED  BY <2>1, <2>2, <1>1
<1>4. n \in Nat /\ n * CellSize <= left /\ (left >= CellSize => n > 0)
  BY <1>2, <1>3, DivBounds
<1>5. CellsWriteable(c) = IF n <= IntMax THEN n ELSE IntMax
  BY <1>4, MinOfTwo DEF CellsWriteable
<1>6. CASE n <= IntMax
  BY <1>6, <1>5, <1>4, <1>1
<1>7. CASE n > IntMax
  <2>1. IntMax * CellSize <= n * CellSize
    BY <1>7, <1>4, Z3
  <2> QED  BY <2>1, <1>7, <1>5, <1>4, <1>1, Z3
<1> QED  BY <1>6, <1>7, <1>4

\* UpdateQueueSize keeps the types of the estimate and of the heuristic.
LEMMA QueueSizeType ==
    ASSUME SchedTypeOK, NEW c \in SChan, NEW l \in Nat, NEW f \in Nat,
           UpdateQueueSize(c, l, f)
    PROVE  estim' \in [SChan -> Nat] /\ heur' \in Nat
<1>1. l * f \in Nat
  BY Z3
<1>2. estim[c] \in Nat /\ heur \in Nat /\ estim \in [SChan -> Nat]
  BY DEF SchedTypeOK
<1>3. estim' \in [SChan -> Nat]
  BY <1>1, <1>2 DEF UpdateQueueSize
<1>4. heur' \in Nat
  <2>1. heur + l * f - estim[c] \in Int
    BY <1>1, <1>2
  <2>2. Max({0, heur + l * f - estim[c]}) \in Nat
    BY <2>1, MaxOfTwo
  <2> QED  BY <2>2, <1>2 DEF UpdateQueueSize
<1> QED  BY <1>3, <1>4

\* A channel's overhead estimate is a number.
LEMMA FactorNat ==
    ASSUME SchedTypeOK, NEW c \in SChan
    PROVE  factor[c] \in Nat
<1>1. factor[c] \in Factors \cup {1}
  BY DEF SchedTypeOK
<1>2. Factors \subseteq Nat /\ 1 \in Nat
  BY SchedAssumption
<1> QED  BY <1>1, <1>2, Zenon

-----------------------------------------------------------------------------
\* The scheduler starts in the invariant.
LEMMA SchedInitInv == SchedInit => SchedInv
<1> SUFFICES ASSUME SchedInit PROVE SchedInv
  OBVIOUS
<1> USE SchedAssumption DEF SchedInit, Idle, WaitCells, WaitWrite, Pending, NoRun
<1>1. SchedTypeOK
  <2>1. factor \in [SChan -> Factors \cup {1}] /\ marks \in Marks
    OBVIOUS
  <2>2. run \in [pc : {"off", "pick", "loop", "cells"},
                 chan : SChan \cup {NoChan}, n : Nat, flushed : Nat,
                 chunk : Nat, readd : SUBSET SChan]
    OBVIOUS
  <2>3. budget \in [cells : 0 .. CellBudget, destroys : 0 .. DestroyBudget]
    OBVIOUS
  <2> QED  BY <2>1, <2>2, <2>3 DEF SchedTypeOK
<1>2. RunShape
  BY DEF RunShape
<1>3. NotOpenNotPending /\ WakeupKept /\ OutbufBounded
  BY DEF NotOpenNotPending, WakeupKept, OutbufBounded
<1>4. PendingExact
  BY DEF PendingExact
<1> QED  BY <1>1, <1>2, <1>3, <1>4 DEF SchedInv

-----------------------------------------------------------------------------
(* What drives the scheduler; it is not running meanwhile *)

\* Between runs the heap holds all pending channels.
LEMMA BetweenRuns ==
    ASSUME SchedInv, run = NoRun
    PROVE  /\ pending = {c \in SChan : sst[c] = Pending}
           /\ \A c \in SChan : sst[c] = Pending => life[c] = "open"
<1>1. run.readd = {} /\ run.chan = NoChan
  BY DEF NoRun
<1>2. pending = {c \in SChan : sst[c] = Pending}
  BY <1>1, SchedAssumption DEF SchedInv, PendingExact
<1> QED  BY <1>2 DEF SchedInv, PendingExact

\* Nothing of RunShape can break while the scheduler is off.
LEMMA OffShape ==
    ASSUME run' = NoRun
    PROVE  RunShape'
  BY DEF RunShape, NoRun

\* While it is off, PendingExact says that the heap is exact.
LEMMA OffPending ==
    ASSUME run' = NoRun,
           pending' = {c \in SChan : sst'[c] = Pending},
           \A c \in SChan : sst'[c] = Pending => life'[c] = "open"
    PROVE  PendingExact'
<1>1. run'.readd = {} /\ run'.chan = NoChan
  BY DEF NoRun
<1>2. pending' = {c \in SChan : sst'[c] = Pending} \ (run'.readd \cup {run'.chan})
  BY <1>1, SchedAssumption
<1>3. \A c \in pending' \cup run'.readd : life'[c] = "open"
  BY <1>1
<1> QED  BY <1>2, <1>3 DEF PendingExact

\* What scheduler_channel_wants_writes does with the lists.
LEMMA WantsWritesStep ==
    ASSUME SchedTypeOK, NEW c \in SChan, WantsWrites(c),
           pending = {d \in SChan : sst[d] = Pending}
    PROVE  /\ sst' \in [SChan -> {Idle, WaitCells, WaitWrite, Pending}]
           /\ sst'[c] \in {WaitCells, Pending}
           /\ \A d \in SChan \ {c} : sst'[d] = sst[d]
           /\ pending' = {d \in SChan : sst'[d] = Pending}
           /\ event' \in BOOLEAN
<1> USE DEF WantsWrites, SchedTypeOK, Idle, WaitCells, WaitWrite, Pending
<1>1. sst[c] \in {Idle, WaitCells, WaitWrite, Pending}
  OBVIOUS
<1>2. sst'[c] = CASE sst[c] = WaitWrite -> Pending
                  [] sst[c] = Idle -> WaitCells
                  [] OTHER -> sst[c]
  OBVIOUS
<1>3. sst'[c] \in {WaitCells, Pending}
  BY <1>1, <1>2
<1>4. sst' \in [SChan -> {Idle, WaitCells, WaitWrite, Pending}]
      /\ \A d \in SChan \ {c} : sst'[d] = sst[d]
  BY <1>2, <1>3
<1>5. pending' = {d \in SChan : sst'[d] = Pending}
  BY <1>1, <1>2, <1>4
<1>6. event' \in BOOLEAN
  BY Zenon
<1> QED  BY <1>3, <1>4, <1>5, <1>6

\* What scheduler_channel_has_waiting_cells does with the lists.
LEMMA HasWaitingCellsStep ==
    ASSUME SchedTypeOK, NEW c \in SChan, HasWaitingCells(c),
           pending = {d \in SChan : sst[d] = Pending}
    PROVE  /\ sst' \in [SChan -> {Idle, WaitCells, WaitWrite, Pending}]
           /\ sst'[c] \in {WaitWrite, Pending}
           /\ sst'[c] = WaitWrite => sst[c] \in {Idle, WaitWrite}
           /\ sst'[c] = Pending => sst[c] \in {WaitCells, Pending}
           /\ \A d \in SChan \ {c} : sst'[d] = sst[d]
           /\ pending' = {d \in SChan : sst'[d] = Pending}
           /\ event' \in BOOLEAN
<1> USE DEF HasWaitingCells, SchedTypeOK, Idle, WaitCells, WaitWrite, Pending
<1>1. sst[c] \in {Idle, WaitCells, WaitWrite, Pending}
  OBVIOUS
<1>2. sst'[c] = CASE sst[c] = WaitCells -> Pending
                  [] sst[c] = Idle -> WaitWrite
                  [] OTHER -> sst[c]
  OBVIOUS
<1>3. /\ sst'[c] \in {WaitWrite, Pending}
      /\ sst'[c] = WaitWrite => sst[c] \in {Idle, WaitWrite}
      /\ sst'[c] = Pending => sst[c] \in {WaitCells, Pending}
  BY <1>1, <1>2
<1>4. sst' \in [SChan -> {Idle, WaitCells, WaitWrite, Pending}]
      /\ \A d \in SChan \ {c} : sst'[d] = sst[d]
  BY <1>2, <1>3
<1>5. pending' = {d \in SChan : sst'[d] = Pending}
  BY <1>1, <1>2, <1>4
<1>6. event' \in BOOLEAN
  BY Zenon
<1> QED  BY <1>3, <1>4, <1>5, <1>6

\* Open keeps the invariant.
LEMMA OpenStep ==
    ASSUME SchedInv, NEW c \in SChan, OpenChannel(c)
    PROVE  SchedInv'
<1> USE DEF SchedInv
<1>1. /\ run = NoRun /\ life[c] = "opening"
      /\ life' = [life EXCEPT ![c] = "open"]
      /\ WantsWrites(c)
      /\ UNCHANGED <<marks, heur, qcells, qdestroy, lastDes, outbuf, estim,
                     factor, budget, run>>
  BY DEF OpenChannel, queues
<1>2. /\ sst' \in [SChan -> {Idle, WaitCells, WaitWrite, Pending}]
      /\ sst'[c] \in {WaitCells, Pending}
      /\ \A d \in SChan \ {c} : sst'[d] = sst[d]
      /\ pending' = {d \in SChan : sst'[d] = Pending}
      /\ event' \in BOOLEAN
  BY <1>1, BetweenRuns, WantsWritesStep
<1>3. /\ life' \in [SChan -> {"opening", "open", "closing"}]
      /\ life'[c] = "open" /\ \A d \in SChan \ {c} : life'[d] = life[d]
  BY <1>1 DEF SchedTypeOK
<1>4. SchedTypeOK'
  BY <1>1, <1>2, <1>3 DEF SchedTypeOK
<1>5. RunShape'
  BY <1>1, OffShape
<1>6. NotOpenNotPending'
  BY <1>2, <1>3 DEF NotOpenNotPending
<1>7. PendingExact'
  BY <1>1, <1>2, <1>3, BetweenRuns, OffPending
<1>8. OutbufBounded'
  BY <1>1 DEF OutbufBounded
<1>9. WakeupKept'
  BY <1>1, <1>2, <1>3 DEF WakeupKept, Idle, WaitCells, WaitWrite, Pending
<1> QED  BY <1>4, <1>5, <1>6, <1>7, <1>8, <1>9

\* Close keeps the invariant.
LEMMA CloseStep ==
    ASSUME SchedInv, NEW c \in SChan, CloseChannel(c)
    PROVE  SchedInv'
<1> USE DEF SchedInv
<1>1. /\ run = NoRun
      /\ life' = [life EXCEPT ![c] = "closing"]
      /\ sst' = [sst EXCEPT ![c] = Idle]
      /\ pending' = pending \ {c}
      /\ UNCHANGED <<marks, event, heur, qcells, qdestroy, lastDes, outbuf,
                     estim, factor, budget, run>>
  BY DEF CloseChannel, ReleaseChannel, queues
<1>2. /\ sst' \in [SChan -> {Idle, WaitCells, WaitWrite, Pending}]
      /\ sst'[c] = Idle /\ \A d \in SChan \ {c} : sst'[d] = sst[d]
      /\ life' \in [SChan -> {"opening", "open", "closing"}]
      /\ life'[c] = "closing" /\ \A d \in SChan \ {c} : life'[d] = life[d]
  BY <1>1 DEF SchedTypeOK
<1>3. /\ pending' = {d \in SChan : sst'[d] = Pending}
      /\ \A d \in SChan : sst'[d] = Pending => life'[d] = "open"
  BY <1>1, <1>2, BetweenRuns DEF Idle, Pending
<1>4. SchedTypeOK'
  BY <1>1, <1>2, <1>3 DEF SchedTypeOK
<1>5. RunShape'
  BY <1>1, OffShape
<1>6. NotOpenNotPending'
  BY <1>2 DEF NotOpenNotPending
<1>7. PendingExact'
  BY <1>1, <1>3, OffPending
<1>8. OutbufBounded'
  BY <1>1 DEF OutbufBounded
<1>9. WakeupKept'
  BY <1>1, <1>2 DEF WakeupKept
<1> QED  BY <1>4, <1>5, <1>6, <1>7, <1>8, <1>9

\* AppendCell keeps the invariant.
LEMMA AppendCellStep ==
    ASSUME SchedInv, NEW c \in SChan, AppendCell(c)
    PROVE  SchedInv'
<1> USE DEF SchedInv
<1>1. /\ run = NoRun /\ life[c] \in {"open", "closing"}
      /\ budget.cells > 0
      /\ budget' = [budget EXCEPT !.cells = @ - 1]
      /\ qcells' = [qcells EXCEPT ![c] = @ + 1]
      /\ HasWaitingCells(c)
      /\ UNCHANGED <<marks, life, heur, qdestroy, lastDes, outbuf, estim,
                     factor, run>>
  BY DEF AppendCell
<1>2. /\ sst' \in [SChan -> {Idle, WaitCells, WaitWrite, Pending}]
      /\ sst'[c] \in {WaitWrite, Pending}
      /\ sst'[c] = WaitWrite => sst[c] \in {Idle, WaitWrite}
      /\ sst'[c] = Pending => sst[c] \in {WaitCells, Pending}
      /\ \A d \in SChan \ {c} : sst'[d] = sst[d]
      /\ pending' = {d \in SChan : sst'[d] = Pending}
      /\ event' \in BOOLEAN
  BY <1>1, BetweenRuns, HasWaitingCellsStep
<1>3. /\ qcells' \in [SChan -> Nat]
      /\ \A d \in SChan \ {c} : qcells'[d] = qcells[d]
      /\ budget' \in [cells : 0 .. CellBudget, destroys : 0 .. DestroyBudget]
  BY <1>1, SchedAssumption DEF SchedTypeOK
<1>4. SchedTypeOK'
  BY <1>1, <1>2, <1>3 DEF SchedTypeOK
<1>5. RunShape'
  BY <1>1, OffShape
<1>6. NotOpenNotPending' /\ \A d \in SChan : sst'[d] = Pending => life'[d] = "open"
  BY <1>1, <1>2, BetweenRuns DEF NotOpenNotPending, Idle, WaitCells, WaitWrite, Pending
<1>7. PendingExact'
  BY <1>1, <1>2, <1>6, OffPending
<1>8. OutbufBounded'
  BY <1>1 DEF OutbufBounded
<1>9. WakeupKept'
  BY <1>1, <1>2, <1>3 DEF WakeupKept, Idle, WaitCells, WaitWrite, Pending
<1> QED  BY <1>4, <1>5, <1>6, <1>7, <1>8, <1>9

\* AppendDestroy keeps the invariant.
LEMMA AppendDestroyStep ==
    ASSUME SchedInv, NEW c \in SChan, AppendDestroy(c)
    PROVE  SchedInv'
<1> USE DEF SchedInv
<1>1. /\ run = NoRun /\ life[c] = "open" /\ budget.destroys > 0
      /\ budget' = [budget EXCEPT !.destroys = @ - 1]
      /\ UNCHANGED <<marks, life, sst, pending, event, factor, run>>
  BY DEF AppendDestroy
<1>2. budget' \in [cells : 0 .. CellBudget, destroys : 0 .. DestroyBudget]
  BY <1>1, SchedAssumption DEF SchedTypeOK
<1>3. /\ qcells' \in [SChan -> Nat] /\ qdestroy' \in [SChan -> Nat]
      /\ lastDes' \in [SChan -> BOOLEAN]
      /\ \A d \in SChan : qcells[d] = 0 => qcells'[d] = 0
  <2> USE DEF SchedTypeOK
  <2>1. CASE outbuf[c] > 0
    <3>1. /\ UNCHANGED <<qcells, lastDes>>
          /\ qdestroy' = [qdestroy EXCEPT ![c] = @ + 1]
      BY <2>1 DEF AppendDestroy
    <3> QED  BY <3>1
  <2>2. CASE ~(outbuf[c] > 0) /\ (~lastDes[c] \/ qcells[c] = 0)
    <3>1. /\ UNCHANGED <<qcells, qdestroy>>
          /\ lastDes' = [lastDes EXCEPT ![c] = TRUE]
      BY <2>2 DEF AppendDestroy
    <3> QED  BY <3>1
  <2>3. CASE ~(outbuf[c] > 0) /\ ~(~lastDes[c] \/ qcells[c] = 0)
    <3>1. /\ qcells' = [qcells EXCEPT ![c] = @ - 1]
          /\ qdestroy' = [qdestroy EXCEPT ![c] = @ + 1]
          /\ lastDes' = [lastDes EXCEPT ![c] = FALSE]
      BY <2>3 DEF AppendDestroy
    <3>2. qcells[c] \in Nat /\ qcells[c] # 0
      BY <2>3
    <3> QED  BY <3>1, <3>2
  <2> QED  BY <2>1, <2>2, <2>3
<1>4. /\ outbuf' \in [SChan -> Nat] /\ outbuf'[c] \in {outbuf[c], CellSize}
      /\ outbuf'[c] > 0 /\ \A d \in SChan \ {c} : outbuf'[d] = outbuf[d]
  BY SchedAssumption DEF AppendDestroy, SchedTypeOK
<1>5. estim' \in [SChan -> Nat] /\ heur' \in Nat
  <2>1. CASE outbuf[c] > 0
    BY <2>1 DEF AppendDestroy, SchedTypeOK
  <2>2. CASE ~(outbuf[c] > 0)
    BY <2>2, FactorNat, QueueSizeType, SchedAssumption DEF AppendDestroy
  <2> QED  BY <2>1, <2>2
<1>6. SchedTypeOK'
  BY <1>1, <1>2, <1>3, <1>4, <1>5 DEF SchedTypeOK
<1>7. RunShape'
  BY <1>1, OffShape
<1>8. NotOpenNotPending' /\ PendingExact'
  BY <1>1 DEF NotOpenNotPending, PendingExact
<1>9. OutbufBounded'
  BY <1>4, SchedAssumption DEF OutbufBounded
<1>10. WakeupKept'
  BY <1>1, <1>3, <1>4 DEF WakeupKept
<1> QED  BY <1>6, <1>7, <1>8, <1>9, <1>10

\* Drain keeps the invariant.
LEMMA DrainStep ==
    ASSUME SchedInv, NEW c \in SChan, DrainSome(c)
    PROVE  SchedInv'
<1> USE DEF SchedInv
<1>1. PICK k \in 1 .. HighWater + CellSize, fac \in Factors : Drain(c, k, fac)
  BY DEF DrainSome
<1>2. /\ run = NoRun /\ life[c] = "open" /\ k <= outbuf[c]
      /\ outbuf' = [outbuf EXCEPT ![c] = @ - k]
      /\ factor' = [factor EXCEPT ![c] = fac]
      /\ UpdateQueueSize(c, outbuf[c] - k, fac)
      /\ UNCHANGED <<marks, life, qcells, qdestroy, lastDes, budget, run>>
  BY <1>1 DEF Drain, queues
<1>3. /\ outbuf[c] - k \in Nat /\ outbuf' \in [SChan -> Nat]
      /\ outbuf'[c] = outbuf[c] - k
      /\ \A d \in SChan \ {c} : outbuf'[d] = outbuf[d]
      /\ factor' \in [SChan -> Factors \cup {1}]
  BY <1>2, SchedAssumption DEF SchedTypeOK
<1>4. estim' \in [SChan -> Nat] /\ heur' \in Nat
  <2>1. fac \in Nat
    BY SchedAssumption, Zenon
  <2> QED  BY <2>1, <1>2, <1>3, QueueSizeType
<1>5. /\ sst' \in [SChan -> {Idle, WaitCells, WaitWrite, Pending}]
      /\ (sst'[c] = sst[c] /\ outbuf'[c] > 0) \/ sst'[c] \in {WaitCells, Pending}
      /\ \A d \in SChan \ {c} : sst'[d] = sst[d]
      /\ pending' = {d \in SChan : sst'[d] = Pending}
      /\ event' \in BOOLEAN
  <2>1. CASE outbuf[c] - k < LowWater
    <3>1. WantsWrites(c)
      BY <1>1, <2>1 DEF Drain
    <3> QED  BY <3>1, <1>2, BetweenRuns, WantsWritesStep
  <2>2. CASE ~(outbuf[c] - k < LowWater)
    <3>1. UNCHANGED <<sst, pending, event>>
      BY <1>1, <2>2 DEF Drain
    <3>2. outbuf'[c] > 0
      BY <2>2, <1>3, SchedAssumption
    <3>3. event' \in BOOLEAN
      BY <3>1 DEF SchedTypeOK
    <3> QED  BY <3>1, <3>2, <3>3, <1>2, BetweenRuns DEF SchedTypeOK
  <2> QED  BY <2>1, <2>2
<1>6. SchedTypeOK'
  BY <1>2, <1>3, <1>4, <1>5 DEF SchedTypeOK
<1>7. RunShape'
  BY <1>2, OffShape
<1>8. NotOpenNotPending' /\ \A d \in SChan : sst'[d] = Pending => life'[d] = "open"
  BY <1>2, <1>5, BetweenRuns DEF NotOpenNotPending
<1>9. PendingExact'
  BY <1>2, <1>5, <1>8, OffPending
<1>10. OutbufBounded'
  BY <1>2, <1>3, SchedAssumption DEF OutbufBounded, SchedTypeOK
<1>11. WakeupKept'
  BY <1>2, <1>3, <1>5 DEF WakeupKept, Idle, WaitCells, WaitWrite, Pending
<1> QED  BY <1>6, <1>7, <1>8, <1>9, <1>10, <1>11

\* Age keeps the invariant.
LEMMA AgeStep ==
    ASSUME SchedInv, Age
    PROVE  SchedInv'
<1> USE DEF SchedInv
<1>1. /\ heur' = heur \div 2
      /\ UNCHANGED <<marks, life, sst, pending, event, qcells, qdestroy,
                     lastDes, outbuf, estim, factor, budget, run>>
  BY DEF Age, queues
<1>2. heur' \in Nat
  <2>1. heur \in Nat
    BY DEF SchedTypeOK
  <2> QED  BY <1>1, <2>1, DivBounds
<1>3. SchedTypeOK'
  BY <1>1, <1>2 DEF SchedTypeOK
<1>4. RunShape' /\ NotOpenNotPending' /\ PendingExact' /\ OutbufBounded'
      /\ WakeupKept'
  BY <1>1 DEF RunShape, NotOpenNotPending, PendingExact, OutbufBounded,
         WakeupKept
<1> QED  BY <1>3, <1>4

-----------------------------------------------------------------------------
(* scheduler_run *)

\* RunStart keeps the invariant.
LEMMA RunStartStep ==
    ASSUME SchedInv, RunStart
    PROVE  SchedInv'
<1> USE DEF SchedInv
<1>1. /\ run = NoRun /\ event' = FALSE
      /\ run' = IF heur < marks[1] THEN [run EXCEPT !.pc = "pick"] ELSE run
      /\ UNCHANGED <<marks, life, sst, pending, heur, qcells, qdestroy,
                     lastDes, outbuf, estim, factor, budget>>
  BY DEF RunStart, queues
<1>2. /\ run'.pc \in {"off", "pick"} /\ run'.chan = NoChan /\ run'.readd = {}
      /\ run'.pc = "off" => run' = NoRun
      /\ run' \in [pc : {"off", "pick", "loop", "cells"},
                   chan : SChan \cup {NoChan}, n : Nat, flushed : Nat,
                   chunk : Nat, readd : SUBSET SChan]
  BY <1>1 DEF NoRun
<1>3. SchedTypeOK'
  BY <1>1, <1>2 DEF SchedTypeOK
<1>4. RunShape'
  BY <1>2 DEF RunShape
<1>5. PendingExact'
  BY <1>1, <1>2 DEF PendingExact, NoRun
<1>6. NotOpenNotPending' /\ OutbufBounded' /\ WakeupKept'
  BY <1>1 DEF NotOpenNotPending, OutbufBounded, WakeupKept
<1> QED  BY <1>3, <1>4, <1>5, <1>6

\* RunPick keeps the invariant.
LEMMA RunPickStep ==
    ASSUME SchedInv, NEW c \in SChan, RunPick(c)
    PROVE  SchedInv'
<1> USE DEF SchedInv
<1>1. /\ run.pc = "pick" /\ c \in pending /\ pending' = pending \ {c}
      /\ UNCHANGED <<marks, life, event, heur, qcells, qdestroy, lastDes,
                     outbuf, estim, factor, budget>>
  BY DEF RunPick, queues
<1>2. /\ run.chan = NoChan /\ NoChan \notin SChan
      /\ life[c] = "open" /\ sst[c] = Pending /\ c \notin run.readd
  BY <1>1, SchedAssumption DEF RunShape, PendingExact
<1>3. /\ CellsWriteable(c) \in Nat
      /\ CellsWriteable(c) * CellSize < HighWater + CellSize - outbuf[c]
      /\ CellsWriteable(c) = 0 => outbuf[c] > 0
  BY <1>2, RoomExact
<1>4. CASE CellsWriteable(c) > 0
  <2> DEFINE w == CellsWriteable(c)
  <2>1. /\ run' = [run EXCEPT !.pc = "loop", !.chan = c, !.flushed = 0, !.n = w]
        /\ sst' = sst
    BY <1>4 DEF RunPick
  <2> HIDE DEF w
  <2>2. w \in Nat /\ w * CellSize < HighWater + CellSize - outbuf[c]
    BY <1>3 DEF w
  <2>3. /\ run'.pc = "loop" /\ run'.chan = c /\ run'.flushed = 0 /\ run'.n = w
        /\ run'.readd = run.readd
        /\ run' \in [pc : {"off", "pick", "loop", "cells"},
                     chan : SChan \cup {NoChan}, n : Nat, flushed : Nat,
                     chunk : Nat, readd : SUBSET SChan]
    BY <2>1, <2>2 DEF SchedTypeOK
  <2>4. SchedTypeOK'
    BY <1>1, <2>1, <2>3 DEF SchedTypeOK
  <2>5. RunShape'
    <3>1. outbuf'[c] + (w - 0) * CellSize < HighWater + CellSize
      BY <1>1, <2>2, SchedAssumption DEF SchedTypeOK
    <3>2. \A d \in run'.readd : sst'[d] = Pending /\ life'[d] = "open"
      BY <1>1, <2>1, <2>3 DEF RunShape
    <3> QED  BY <3>1, <3>2, <1>1, <1>2, <2>1, <2>2, <2>3 DEF RunShape
  <2>6. PendingExact'
    <3>1. pending' = {d \in SChan : sst'[d] = Pending}
                        \ (run'.readd \cup {run'.chan})
      BY <1>1, <1>2, <2>1, <2>3 DEF PendingExact
    <3> QED  BY <3>1, <1>1, <2>3 DEF PendingExact
  <2>7. NotOpenNotPending' /\ OutbufBounded' /\ WakeupKept'
    BY <1>1, <2>1 DEF NotOpenNotPending, OutbufBounded, WakeupKept
  <2> QED  BY <2>4, <2>5, <2>6, <2>7
<1>5. CASE ~(CellsWriteable(c) > 0)
  <2>1. run' = run /\ sst' = [sst EXCEPT ![c] = WaitWrite]
    BY <1>5 DEF RunPick
  <2>2. outbuf[c] > 0
    BY <1>3, <1>5
  <2>3. /\ sst' \in [SChan -> {Idle, WaitCells, WaitWrite, Pending}]
        /\ sst'[c] = WaitWrite /\ \A d \in SChan \ {c} : sst'[d] = sst[d]
    BY <2>1 DEF SchedTypeOK
  <2>4. SchedTypeOK'
    BY <1>1, <2>1, <2>3 DEF SchedTypeOK
  <2>5. RunShape'
    BY <1>1, <1>2, <2>1, <2>3 DEF RunShape, SchedTypeOK
  <2>6. PendingExact'
    <3>1. pending' = {d \in SChan : sst'[d] = Pending}
                        \ (run'.readd \cup {run'.chan})
      BY <1>1, <1>2, <2>1, <2>3 DEF PendingExact, WaitWrite, Pending
    <3> QED  BY <3>1, <1>1, <2>1 DEF PendingExact
  <2>7. NotOpenNotPending' /\ OutbufBounded'
    BY <1>1, <1>2, <2>3 DEF NotOpenNotPending, OutbufBounded
  <2>8. WakeupKept'
    BY <1>1, <2>2, <2>3 DEF WakeupKept, WaitWrite, Idle
  <2> QED  BY <2>4, <2>5, <2>6, <2>7, <2>8
<1> QED  BY <1>4, <1>5

\* RunChunk keeps the invariant.
LEMMA RunChunkStep ==
    ASSUME SchedInv, RunChunk \/ RunChunkDone
    PROVE  SchedInv'
<1> USE DEF SchedInv
<1>1. /\ run.pc \in {"loop", "cells"}
      /\ UNCHANGED <<marks, life, sst, pending, event, heur, qcells, qdestroy,
                     lastDes, outbuf, estim, factor, budget>>
  BY DEF RunChunk, RunChunkDone, queues
<1>2. /\ run' \in [pc : {"off", "pick", "loop", "cells"},
                   chan : SChan \cup {NoChan}, n : Nat, flushed : Nat,
                   chunk : Nat, readd : SUBSET SChan]
      /\ run'.pc \in {"loop", "cells"} /\ run'.chan = run.chan
      /\ run'.n = run.n /\ run'.flushed = run.flushed /\ run'.readd = run.readd
      /\ run'.pc = "cells" => run'.chunk <= run.n - run.flushed
  <2>1. CASE RunChunk
    <3>1. run.n \in Nat /\ run.flushed \in Nat /\ run.n - run.flushed \in Nat
      BY <2>1 DEF RunChunk, FlushMore, SchedTypeOK
    <3> DEFINE m == Min({MaxFlush, run.n - run.flushed})
    <3>2. m \in Nat /\ m <= run.n - run.flushed
      BY <3>1, MinOfTwo, SchedAssumption
    <3>3. run' = [run EXCEPT !.pc = "cells", !.chunk = m]
      BY <2>1 DEF RunChunk
    <3> HIDE DEF m
    <3> QED  BY <3>2, <3>3 DEF SchedTypeOK
  <2>2. CASE RunChunkDone
    <3>1. run' = [run EXCEPT !.pc = "loop"]
      BY <2>2 DEF RunChunkDone
    <3> QED  BY <3>1 DEF SchedTypeOK
  <2> QED  BY <2>1, <2>2
<1>3. SchedTypeOK'
  BY <1>1, <1>2 DEF SchedTypeOK
<1>4. RunShape'
  BY <1>1, <1>2 DEF RunShape
<1>5. NotOpenNotPending' /\ PendingExact' /\ OutbufBounded' /\ WakeupKept'
  BY <1>1, <1>2 DEF NotOpenNotPending, PendingExact, OutbufBounded, WakeupKept
<1> QED  BY <1>3, <1>4, <1>5

\* RunCell keeps the invariant.
LEMMA RunCellStep ==
    ASSUME SchedInv, RunCell
    PROVE  SchedInv'
<1> USE DEF SchedInv
<1> DEFINE c == run.chan
<1>1. /\ run.pc = "cells" /\ run.chunk > 0
      /\ qcells[c] + qdestroy[c] > 0
      /\ PopCell(c)
      /\ outbuf' = [outbuf EXCEPT ![c] = @ + CellSize]
      /\ UpdateQueueSize(c, outbuf[c] + CellSize, factor[c])
      /\ run' = [run EXCEPT !.chunk = @ - 1, !.flushed = @ + 1]
      /\ UNCHANGED <<marks, life, sst, pending, event, factor, budget>>
  BY DEF RunCell, WriteCell, NumCells
<1>2. /\ c \in SChan \ run.readd /\ life[c] = "open" /\ sst[c] = Pending
      /\ run.flushed <= run.n /\ run.chunk <= run.n - run.flushed
      /\ outbuf[c] + (run.n - run.flushed) * CellSize < HighWater + CellSize
  BY <1>1 DEF RunShape
<1>3. /\ run.n \in Nat /\ run.flushed \in Nat /\ run.chunk \in Nat
      /\ outbuf[c] \in Nat /\ CellSize \in Nat /\ HighWater \in Nat
  BY <1>2, SchedAssumption DEF SchedTypeOK
<1>4. /\ run' \in [pc : {"off", "pick", "loop", "cells"},
                   chan : SChan \cup {NoChan}, n : Nat, flushed : Nat,
                   chunk : Nat, readd : SUBSET SChan]
      /\ run'.pc = "cells" /\ run'.chan = c /\ run'.n = run.n
      /\ run'.flushed = run.flushed + 1 /\ run'.chunk = run.chunk - 1
      /\ run'.readd = run.readd
  <2>1. run.chunk - 1 \in Nat /\ run.flushed + 1 \in Nat
    BY <1>1, <1>3
  <2>2. run' = [run EXCEPT !.chunk = run.chunk - 1, !.flushed = run.flushed + 1]
    BY <1>1
  <2> QED  BY <1>1, <2>1, <2>2 DEF SchedTypeOK
<1>5. /\ outbuf' \in [SChan -> Nat] /\ outbuf'[c] = outbuf[c] + CellSize
      /\ \A d \in SChan \ {c} : outbuf'[d] = outbuf[d]
  BY <1>1, <1>2, <1>3 DEF SchedTypeOK
<1>6. outbuf'[c] + (run'.n - run'.flushed) * CellSize < HighWater + CellSize
  <2> DEFINE k == run.n - run.flushed
  <2>1. k \in Nat /\ k > 0 /\ run'.n - run'.flushed = k - 1
    BY <1>1, <1>2, <1>3, <1>4
  <2>2. outbuf[c] + k * CellSize < HighWater + CellSize
    BY <1>2
  <2> HIDE DEF k, c
  <2>3. (k - 1) * CellSize = k * CellSize - CellSize /\ k * CellSize \in Nat
    BY <2>1, <1>3, Z3
  <2> QED  BY <2>1, <2>2, <2>3, <1>3, <1>5
<1>7. outbuf'[c] < HighWater + CellSize
  <2> DEFINE k == run'.n - run'.flushed
  <2>1. k \in Nat
    BY <1>1, <1>2, <1>3, <1>4
  <2>2. outbuf'[c] + k * CellSize < HighWater + CellSize
    BY <1>6
  <2> HIDE DEF k, c
  <2>3. k * CellSize \in Nat
    BY <2>1, <1>3, Z3
  <2> QED  BY <2>2, <2>3, <1>3, <1>5
<1>8. /\ qcells' \in [SChan -> Nat] /\ qdestroy' \in [SChan -> Nat]
      /\ lastDes' \in [SChan -> BOOLEAN]
      /\ \A d \in SChan \ {c} : qcells'[d] = qcells[d]
  <2> USE DEF SchedTypeOK
  <2>1. CASE qdestroy[c] > 0 /\ (~lastDes[c] \/ qcells[c] = 0)
    <3>1. /\ qcells' = qcells
          /\ qdestroy' = [qdestroy EXCEPT ![c] = @ - 1]
          /\ lastDes' = [lastDes EXCEPT ![c] = TRUE]
      BY <1>1, <2>1 DEF PopCell
    <3> QED  BY <3>1, <2>1, <1>2
  <2>2. CASE ~(qdestroy[c] > 0 /\ (~lastDes[c] \/ qcells[c] = 0))
    <3>1. /\ qcells' = [qcells EXCEPT ![c] = @ - 1]
          /\ qdestroy' = qdestroy
          /\ lastDes' = [lastDes EXCEPT ![c] = FALSE]
      BY <1>1, <2>2 DEF PopCell
    <3>2. qcells[c] \in Nat /\ qcells[c] > 0
      BY <1>1, <1>2, <2>2
    <3> QED  BY <3>1, <3>2, <1>2
  <2> QED  BY <2>1, <2>2
<1>9. estim' \in [SChan -> Nat] /\ heur' \in Nat
  <2>1. outbuf[c] + CellSize \in Nat /\ factor[c] \in Nat /\ c \in SChan
    BY <1>2, <1>3, FactorNat
  <2> QED  BY <2>1, <1>1, QueueSizeType
<1>10. SchedTypeOK'
  BY <1>1, <1>4, <1>5, <1>8, <1>9 DEF SchedTypeOK
<1>11. RunShape'
  BY <1>1, <1>2, <1>3, <1>4, <1>6 DEF RunShape
<1>12. NotOpenNotPending' /\ PendingExact'
  BY <1>1, <1>4 DEF NotOpenNotPending, PendingExact
<1>13. OutbufBounded'
  BY <1>5, <1>7 DEF OutbufBounded
<1>14. WakeupKept'
  BY <1>1, <1>2, <1>5, <1>8 DEF WakeupKept, Idle, WaitWrite, Pending
<1> QED  BY <1>10, <1>11, <1>12, <1>13, <1>14

\* RunPutAway keeps the invariant.
LEMMA RunPutAwayStep ==
    ASSUME SchedInv, RunPutAway
    PROVE  SchedInv'
<1> USE DEF SchedInv
<1> DEFINE c == run.chan
           to == PutAway(c)
<1>1. /\ run.pc = "loop"
      /\ sst' = [sst EXCEPT ![c] = to]
      /\ run' = [run EXCEPT !.pc = "pick", !.chan = NoChan, !.n = 0,
                            !.flushed = 0, !.chunk = 0,
                            !.readd = IF to = Pending THEN @ \cup {c} ELSE @]
      /\ UNCHANGED <<marks, life, pending, event, heur, qcells, qdestroy,
                     lastDes, outbuf, estim, factor, budget>>
  BY DEF RunPutAway, queues
<1>2. /\ c \in SChan \ run.readd /\ life[c] = "open" /\ sst[c] = Pending
      /\ run.flushed <= run.n
  BY <1>1 DEF RunShape
<1>3. /\ CellsWriteable(c) \in Nat
      /\ CellsWriteable(c) = 0 => outbuf[c] > 0
  BY <1>2, RoomExact
<1>4. /\ to \in {Idle, WaitCells, WaitWrite, Pending}
      /\ to \in {Idle, WaitWrite} => outbuf[c] > 0
      /\ to = Idle => qcells[c] = 0
  <2>1. /\ run.flushed \in Nat /\ run.n \in Nat
        /\ qcells[c] \in Nat /\ qdestroy[c] \in Nat
    BY <1>2 DEF SchedTypeOK
  <2>2. CASE run.flushed < run.n
    <3>1. to = WaitCells
      BY <2>1, <2>2 DEF PutAway
    <3> QED  BY <3>1 DEF Idle, WaitCells, WaitWrite, Pending
  <2>3. CASE run.flushed >= run.n /\ MoreToFlush(c)
    <3>1. to = IF CellsWriteable(c) > 0 THEN Pending ELSE WaitWrite
      BY <2>1, <2>3 DEF PutAway
    <3> QED  BY <3>1, <1>3 DEF Idle, WaitCells, WaitWrite, Pending
  <2>4. CASE run.flushed >= run.n /\ ~MoreToFlush(c)
    <3>1. to = IF CellsWriteable(c) > 0 THEN WaitCells ELSE Idle
      BY <2>1, <2>4 DEF PutAway
    <3>2. qcells[c] = 0
      BY <2>1, <2>4 DEF MoreToFlush, NumCells
    <3> QED  BY <3>1, <3>2, <1>3 DEF Idle, WaitCells, WaitWrite, Pending
  <2> QED  BY <2>1, <2>2, <2>3, <2>4
<1> HIDE DEF to
<1>5. /\ sst' \in [SChan -> {Idle, WaitCells, WaitWrite, Pending}]
      /\ sst'[c] = to /\ \A d \in SChan \ {c} : sst'[d] = sst[d]
  BY <1>1, <1>2, <1>4 DEF SchedTypeOK
<1>6. /\ run' \in [pc : {"off", "pick", "loop", "cells"},
                   chan : SChan \cup {NoChan}, n : Nat, flushed : Nat,
                   chunk : Nat, readd : SUBSET SChan]
      /\ run'.pc = "pick" /\ run'.chan = NoChan
      /\ run'.readd = IF to = Pending THEN run.readd \cup {c} ELSE run.readd
  BY <1>1, <1>2 DEF SchedTypeOK
<1>7. SchedTypeOK'
  BY <1>1, <1>5, <1>6 DEF SchedTypeOK
<1>8. \A d \in run'.readd : sst'[d] = Pending /\ life'[d] = "open"
  BY <1>1, <1>2, <1>5, <1>6 DEF RunShape, SchedTypeOK
<1>9. RunShape'
  BY <1>6, <1>8 DEF RunShape
<1>10. PendingExact'
  <2>1. pending = {d \in SChan : sst[d] = Pending} \ (run.readd \cup {c})
    BY DEF PendingExact
  <2>2. pending = {d \in SChan : sst'[d] = Pending}
                     \ (run'.readd \cup {run'.chan})
    BY <2>1, <1>2, <1>5, <1>6, SchedAssumption
  <2>3. \A d \in pending' \cup run'.readd : life'[d] = "open"
    BY <1>1, <1>8 DEF PendingExact
  <2> QED  BY <2>2, <2>3, <1>1 DEF PendingExact
<1>11. NotOpenNotPending' /\ OutbufBounded'
  BY <1>1, <1>2, <1>5 DEF NotOpenNotPending, OutbufBounded
<1>12. WakeupKept'
  BY <1>1, <1>4, <1>5 DEF WakeupKept
<1> QED  BY <1>7, <1>9, <1>10, <1>11, <1>12

\* RunEnd keeps the invariant.
LEMMA RunEndStep ==
    ASSUME SchedInv, RunEnd
    PROVE  SchedInv'
<1> USE DEF SchedInv
<1>1. /\ run.pc = "pick" /\ pending' = pending \cup run.readd /\ run' = NoRun
      /\ UNCHANGED <<marks, life, sst, heur, qcells, qdestroy, lastDes, outbuf,
                     estim, factor, budget>>
  BY DEF RunEnd, queues
<1>2. event' \in BOOLEAN
  BY Zenon DEF RunEnd
<1>3. run.chan = NoChan /\ run.readd \subseteq SChan
  BY <1>1 DEF RunShape, SchedTypeOK
<1>4. /\ pending' = {d \in SChan : sst'[d] = Pending}
      /\ \A d \in SChan : sst'[d] = Pending => life'[d] = "open"
  <2>1. pending = {d \in SChan : sst[d] = Pending} \ run.readd
    BY <1>3, SchedAssumption DEF PendingExact
  <2>2. \A d \in run.readd : sst[d] = Pending
    BY DEF RunShape
  <2>3. pending' = {d \in SChan : sst[d] = Pending}
    BY <1>1, <1>3, <2>1, <2>2
  <2> QED  BY <1>1, <2>3 DEF PendingExact
<1>5. run' \in [pc : {"off", "pick", "loop", "cells"},
                chan : SChan \cup {NoChan}, n : Nat, flushed : Nat,
                chunk : Nat, readd : SUBSET SChan]
  BY <1>1 DEF NoRun
<1>6. SchedTypeOK'
  BY <1>1, <1>2, <1>4, <1>5 DEF SchedTypeOK
<1>7. RunShape' /\ PendingExact'
  BY <1>1, <1>4, OffShape, OffPending
<1>8. NotOpenNotPending' /\ OutbufBounded' /\ WakeupKept'
  BY <1>1 DEF NotOpenNotPending, OutbufBounded, WakeupKept
<1> QED  BY <1>6, <1>7, <1>8

-----------------------------------------------------------------------------
\* Every step of the scheduler keeps the invariant.
LEMMA NextSchedInv == SchedInv /\ [SchedNext]_schedVars => SchedInv'
<1> SUFFICES ASSUME SchedInv, [SchedNext]_schedVars PROVE SchedInv'
  OBVIOUS
<1>1. ASSUME NEW c \in SChan,
             \/ OpenChannel(c) \/ CloseChannel(c) \/ AppendCell(c)
             \/ AppendDestroy(c) \/ DrainSome(c)
      PROVE  SchedInv'
  BY <1>1, OpenStep, CloseStep, AppendCellStep, AppendDestroyStep, DrainStep
<1>2. CASE Age
  BY <1>2, AgeStep
<1>3. CASE RunStep
  BY <1>3, RunStartStep, RunPickStep, RunChunkStep, RunCellStep,
     RunPutAwayStep, RunEndStep DEF RunStep
<1>4. CASE UNCHANGED schedVars
  BY <1>4 DEF schedVars, queues, SchedInv, SchedTypeOK, RunShape,
         NotOpenNotPending, PendingExact, OutbufBounded, WakeupKept
<1> QED  BY <1>1, <1>2, <1>3, <1>4 DEF SchedNext

\* SchedInv holds in every reachable state of the scheduler.
THEOREM SchedInvHolds == SchedSpec => []SchedInv
  BY SchedInitInv, NextSchedInv, PTL DEF SchedSpec

\* The variables of the scheduler keep their types: in particular no queue
\* length goes below zero when a cell is popped, and the heuristic stays at
\* zero or above.
THEOREM SchedTypes == SchedSpec => []SchedTypeOK
<1>1. SchedInv => SchedTypeOK
  BY DEF SchedInv
<1> QED  BY <1>1, SchedInvHolds, PTL

\* channels_pending of scheduler.c is exact and holds open channels only: a
\* channel that starts to close leaves the heap and never comes back, so the
\* scheduler cannot pick one that is being freed.
THEOREM PendingHeapExact == SchedSpec => []PendingExact
<1>1. SchedInv => PendingExact
  BY DEF SchedInv
<1> QED  BY <1>1, SchedInvHolds, PTL

\* The size_t subtraction of channel_tls_num_cells_writeable_method never
\* wraps far: every buffer stays less than one cell over its high water mark,
\* whatever the sizes of cells, marks and flush limits.
THEOREM OutbufNeverOver == SchedSpec => []OutbufBounded
<1>1. SchedInv => OutbufBounded
  BY DEF SchedInv
<1> QED  BY <1>1, SchedInvHolds, PTL

\* A channel that scheduler_run parks as not writeable has bytes whose
\* flushing wakes it up, and one parked as idle has no cells of circuits.
THEOREM WakeupNeverLost == SchedSpec => []SchedNoLostWakeup
<1>1. SchedInv => SchedNoLostWakeup
  BY DEF SchedInv, WakeupKept, SchedNoLostWakeup
<1> QED  BY <1>1, SchedInvHolds, PTL

\* Circuits queue cells on a channel only after it has opened.
OpeningEmpty == \A c \in SChan : life[c] = "opening" => qcells[c] = 0

\* No step queues a cell on a channel that is opening.
LEMMA OpeningStep ==
    ASSUME SchedInv, OpeningEmpty, [SchedNext]_schedVars
    PROVE  OpeningEmpty'
<1> SUFFICES ASSUME NEW d \in SChan, life'[d] = "opening" PROVE qcells'[d] = 0
  BY DEF OpeningEmpty
<1>1. life \in [SChan -> {"opening", "open", "closing"}] /\ qcells \in [SChan -> Nat]
  BY DEF SchedInv, SchedTypeOK
<1>2. ASSUME life[d] = "opening", qcells'[d] = qcells[d] PROVE qcells'[d] = 0
  BY <1>2 DEF OpeningEmpty
<1>3. ASSUME NEW c \in SChan, OpenChannel(c) \/ CloseChannel(c) PROVE qcells'[d] = 0
  BY <1>1, <1>2, <1>3 DEF OpenChannel, CloseChannel, queues
<1>4. ASSUME NEW c \in SChan, AppendCell(c) PROVE qcells'[d] = 0
  BY <1>1, <1>2, <1>4 DEF AppendCell
<1>5. ASSUME NEW c \in SChan, AppendDestroy(c) PROVE qcells'[d] = 0
  BY <1>1, <1>2, <1>5 DEF AppendDestroy
<1>6. ASSUME NEW c \in SChan, DrainSome(c) PROVE qcells'[d] = 0
  BY <1>2, <1>6 DEF DrainSome, Drain, queues
<1>7. CASE Age \/ RunStart \/ RunChunk \/ RunChunkDone \/ RunPutAway \/ RunEnd
  BY <1>2, <1>7 DEF Age, RunStart, RunChunk, RunChunkDone, RunPutAway, RunEnd, queues
<1>8. ASSUME NEW c \in SChan, RunPick(c) PROVE qcells'[d] = 0
  BY <1>2, <1>8 DEF RunPick, queues
<1>9. CASE RunCell
  <2>1. PopCell(run.chan) /\ run.pc = "cells" /\ UNCHANGED life
    BY <1>9 DEF RunCell, WriteCell
  <2>2. life[run.chan] = "open" /\ run.chan \in SChan
    BY <2>1 DEF SchedInv, RunShape
  <2> QED  BY <1>1, <1>2, <2>1, <2>2 DEF PopCell
<1>10. CASE UNCHANGED schedVars
  BY <1>2, <1>10 DEF schedVars, queues
<1> QED  BY <1>3, <1>4, <1>5, <1>6, <1>7, <1>8, <1>9, <1>10 DEF SchedNext, RunStep

\* The queues of channels that are opening stay empty.
THEOREM OpeningAlwaysEmpty == SchedSpec => []OpeningEmpty
<1>1. SchedInit => OpeningEmpty
  BY DEF SchedInit, OpeningEmpty
<1> QED  BY <1>1, OpeningStep, SchedInvHolds, PTL DEF SchedSpec

\* scheduler_run leaves a channel with cells of circuits in the state that only
\* a new cell ends only if it stopped above the high water mark, and no other
\* function does so.
THEOREM ParkedOnlyAboveMark == SchedSpec => ParkedWithoutCells
<1>1. ASSUME SchedInv, OpeningEmpty, [SchedNext]_schedVars, NEW d \in SChan,
             sst[d] # WaitCells, sst'[d] = WaitCells, qcells'[d] > 0
      PROVE  heur > marks[2]
  <2>1. /\ sst \in [SChan -> {Idle, WaitCells, WaitWrite, Pending}]
        /\ qcells \in [SChan -> Nat] /\ qdestroy \in [SChan -> Nat]
    BY <1>1 DEF SchedInv, SchedTypeOK
  <2>2. /\ Idle # WaitCells /\ Idle # WaitWrite /\ WaitCells # WaitWrite
        /\ Pending # WaitCells /\ Pending # Idle /\ Pending # WaitWrite
    BY DEF Idle, WaitCells, WaitWrite, Pending
  <2>3. ASSUME NEW c \in SChan, WantsWrites(c), qcells'[d] = qcells[d],
               life[c] \in {"opening", "open"}
        PROVE  FALSE
    <3>1. sst[d] = Idle /\ d = c
      BY <1>1, <2>1, <2>2, <2>3 DEF WantsWrites
    <3>2. qcells[d] = 0
      BY <1>1, <2>3, <3>1 DEF SchedInv, WakeupKept, OpeningEmpty
    <3> QED  BY <1>1, <2>3, <3>2
  <2>4. ASSUME NEW c \in SChan, OpenChannel(c) PROVE FALSE
    BY <2>3, <2>4 DEF OpenChannel, queues
  <2>5. ASSUME NEW c \in SChan, CloseChannel(c) PROVE FALSE
    BY <1>1, <2>1, <2>2, <2>5 DEF CloseChannel, ReleaseChannel
  <2>6. ASSUME NEW c \in SChan, AppendCell(c) PROVE FALSE
    BY <1>1, <2>1, <2>2, <2>6 DEF AppendCell, HasWaitingCells
  <2>7. ASSUME NEW c \in SChan, AppendDestroy(c) PROVE FALSE
    BY <1>1, <2>7 DEF AppendDestroy
  <2>8. ASSUME NEW c \in SChan, DrainSome(c) PROVE FALSE
    <3>1. /\ life[c] = "open" /\ UNCHANGED queues
          /\ WantsWrites(c) \/ UNCHANGED sst
      BY <2>8 DEF DrainSome, Drain
    <3> QED  BY <1>1, <2>3, <3>1 DEF queues
  <2>9. ASSUME NEW c \in SChan, RunPick(c) PROVE FALSE
    BY <1>1, <2>1, <2>2, <2>9 DEF RunPick
  <2>10. CASE Age \/ RunStart \/ RunChunk \/ RunCell \/ RunChunkDone \/ RunEnd
    BY <1>1, <2>10 DEF Age, RunStart, RunChunk, RunCell, RunChunkDone, RunEnd
  <2>11. CASE RunPutAway
    <3>1. /\ run.pc = "loop" /\ ~ FlushMore /\ UNCHANGED qcells
          /\ sst' = [sst EXCEPT ![run.chan] = PutAway(run.chan)]
      BY <2>11 DEF RunPutAway, queues
    <3>2. /\ run.flushed \in Nat /\ run.n \in Nat /\ heur \in Nat
          /\ marks[2] \in Nat
      BY <1>1, SchedAssumption DEF SchedInv, SchedTypeOK
    <3>3. d = run.chan /\ PutAway(d) = WaitCells
      BY <1>1, <2>1, <3>1
    <3>4. NumCells(d) > 0
      BY <1>1, <2>1, <3>1 DEF NumCells
    <3>5. run.flushed < run.n
      <4> SUFFICES ASSUME run.flushed >= run.n PROVE FALSE
        BY <3>2
      <4>1. PutAway(d) = IF CellsWriteable(d) > 0 THEN Pending ELSE WaitWrite
        BY <3>2, <3>4 DEF PutAway, MoreToFlush
      <4> QED  BY <2>2, <3>3, <4>1
    <3> QED  BY <3>1, <3>2, <3>3, <3>4, <3>5 DEF FlushMore
  <2>12. CASE UNCHANGED schedVars
    BY <1>1, <2>12 DEF schedVars
  <2> QED  BY <1>1, <2>4, <2>5, <2>6, <2>7, <2>8, <2>9, <2>10, <2>11, <2>12
           DEF SchedNext, RunStep
<1>2. SchedInv /\ OpeningEmpty /\ [SchedNext]_schedVars =>
        [\A c \in SChan :
            sst[c] # WaitCells /\ sst'[c] = WaitCells /\ qcells'[c] > 0
                => heur > marks[2]]_schedVars
  BY <1>1
<1> QED  BY <1>2, SchedInvHolds, OpeningAlwaysEmpty, PTL
         DEF SchedSpec, ParkedWithoutCells

-----------------------------------------------------------------------------
(* Channels *)

Ids == OwnId \cup PeerId

\* The identity map lists the channels that are opening or open.
IdMapExact ==
    idMap = {<<chhop[ch].dig, ch>> :
                ch \in {s \in Slot : chst[s] \in {"opening", "open"}}}

\* What the circuit map m says of the circuits, given the states st of the
\* channels and the states cs, channels nc and IDs ni of the circuits: an entry
\* is of a channel that exists, and of the circuit that uses it if it is of
\* any; and a circuit on a channel has its entry.
EntryOK(e, m, st, cs, nc, ni) ==
    /\ st[e[1]] # "none"
    /\ m[e] # Unusable => /\ m[e] \in Circ /\ cs[m[e]] = "live"
                          /\ e = <<nc[m[e]], ni[m[e]]>>

CircuitOK(k, m, st, cs, nc, ni) ==
    cs[k] = "live" =>
        /\ nc[k] \in Slot /\ ni[k] \in OwnId
        /\ st[nc[k]] \in {"open", "closing"}
        /\ <<nc[k], ni[k]>> \in DOMAIN m /\ m[<<nc[k], ni[k]>>] = k

MapOK(m, st, cs, nc, ni) ==
    /\ DOMAIN m \subseteq Slot \X Ids
    /\ \A e \in DOMAIN m : EntryOK(e, m, st, cs, nc, ni)
    /\ \A k \in Circ : CircuitOK(k, m, st, cs, nc, ni)

\* A closed channel's count has wrapped; any other's is exact.
CountsExact ==
    \A ch \in Slot : chst[ch] # "closed" => nCirc[ch] = Cardinality(OnChan(ch))

\* The queued DESTROY cells of a channel are for different IDs, the reserved ones.
Reserved(m, ch, id) == <<ch, id>> \in DOMAIN m /\ m[<<ch, id>>] = Unusable

QueueOK(q, ch, m) ==
    /\ q \in Seq(Ids) /\ IsInjective(q)
    /\ \A id \in Ids : id \in ToSet(q) <=> Reserved(m, ch, id)

QueuesOK(dq, m) == \A ch \in Slot : QueueOK(dq[ch], ch, m)

ChInv ==
    /\ ChTypeOK
    /\ IdMapExact
    /\ MapOK(circMap, chst, cst, nchan, nid)
    /\ CountsExact
    /\ QueuesOK(destroyQ, circMap)

-----------------------------------------------------------------------------
(* Queues of circuit IDs *)

\* A DESTROY at the end of a queue without duplicates.
LEMMA AppendQueue ==
  ASSUME NEW q \in Seq(Ids), IsInjective(q), NEW x \in Ids, x \notin ToSet(q)
  PROVE  /\ Append(q, x) \in Seq(Ids) /\ Append(q, x) # << >>
         /\ IsInjective(Append(q, x))
         /\ ToSet(Append(q, x)) = ToSet(q) \cup {x}
<1> DEFINE r == Append(q, x)
<1>1. /\ r \in Seq(Ids) /\ r # << >> /\ Len(r) = Len(q) + 1 /\ r[Len(q) + 1] = x
      /\ \A i \in 1 .. Len(q) : r[i] = q[i]
      /\ Len(q) \in Nat /\ DOMAIN q = 1 .. Len(q) /\ DOMAIN r = 1 .. Len(r)
  OBVIOUS
<1> HIDE DEF r
<1>2. ToSet(r) = ToSet(q) \cup {x}
  BY <1>1 DEF ToSet
<1>3. IsInjective(r)
  <2> SUFFICES ASSUME NEW i \in 1 .. Len(r), NEW j \in 1 .. Len(r), r[i] = r[j]
               PROVE  i = j
    BY <1>1 DEF IsInjective
  <2>1. \A n \in 1 .. Len(q) : q[n] # x
    BY <1>1 DEF ToSet
  <2>2. \A n \in 1 .. Len(r) : n \in 1 .. Len(q) \/ n = Len(q) + 1
    BY <1>1
  <2> QED  BY <1>1, <2>1, <2>2 DEF IsInjective
<1> QED  BY <1>1, <1>2, <1>3 DEF r

\* The first DESTROY taken from it.
LEMMA TailQueue ==
  ASSUME NEW q \in Seq(Ids), IsInjective(q), q # << >>
  PROVE  /\ Tail(q) \in Seq(Ids) /\ IsInjective(Tail(q))
         /\ ToSet(Tail(q)) = ToSet(q) \ {Head(q)}
         /\ Head(q) \in Ids /\ Head(q) \in ToSet(q)
<1>1. /\ Tail(q) \in Seq(Ids) /\ Len(Tail(q)) = Len(q) - 1 /\ Len(q) \in Nat \ {0}
      /\ Head(q) = q[1] /\ Head(q) \in Ids
      /\ \A i \in 1 .. Len(Tail(q)) : Tail(q)[i] = q[i + 1]
      /\ DOMAIN q = 1 .. Len(q) /\ DOMAIN Tail(q) = 1 .. Len(Tail(q))
  OBVIOUS
<1> DEFINE t == Tail(q)
           h == Head(q)
<1> HIDE DEF t, h
<1>2. /\ t \in Seq(Ids) /\ Len(t) = Len(q) - 1 /\ Len(q) \in Nat \ {0}
      /\ h = q[1] /\ h \in Ids /\ \A i \in 1 .. Len(t) : t[i] = q[i + 1]
      /\ DOMAIN q = 1 .. Len(q) /\ DOMAIN t = 1 .. Len(t)
  BY <1>1 DEF t, h
<1>3. \A i \in 1 .. Len(t) : i + 1 \in 1 .. Len(q) /\ i + 1 # 1
  BY <1>2
<1>4. \A i \in 1 .. Len(q) : i = 1 \/ (i - 1 \in 1 .. Len(t) /\ (i - 1) + 1 = i)
  BY <1>2
<1>5. IsInjective(t)
  <2> SUFFICES ASSUME NEW i \in 1 .. Len(t), NEW j \in 1 .. Len(t), t[i] = t[j]
               PROVE  i = j
    BY <1>2 DEF IsInjective
  <2>1. q[i + 1] = q[j + 1] /\ i + 1 \in DOMAIN q /\ j + 1 \in DOMAIN q
    BY <1>2, <1>3
  <2>2. i + 1 = j + 1
    BY <2>1 DEF IsInjective
  <2> QED  BY <1>2, <2>2
<1>6. h \in ToSet(q)
  <2>1. 1 \in DOMAIN q
    BY <1>2
  <2> QED  BY <1>2, <2>1 DEF ToSet
<1>7. ASSUME NEW x PROVE x \in ToSet(t) <=> x \in ToSet(q) /\ x # h
  <2>1. ASSUME x \in ToSet(t) PROVE x \in ToSet(q) /\ x # h
    <3>1. PICK i \in 1 .. Len(t) : x = t[i]
      BY <1>2, <2>1 DEF ToSet
    <3>2. x = q[i + 1] /\ i + 1 \in DOMAIN q /\ i + 1 # 1 /\ 1 \in DOMAIN q
      BY <1>2, <1>3, <3>1
    <3>3. x # q[1]
      BY <3>2 DEF IsInjective
    <3> QED  BY <1>2, <3>2, <3>3 DEF ToSet
  <2>2. ASSUME x \in ToSet(q), x # h PROVE x \in ToSet(t)
    <3>1. PICK i \in 1 .. Len(q) : x = q[i]
      BY <1>2, <2>2 DEF ToSet
    <3>2. i - 1 \in 1 .. Len(t) /\ (i - 1) + 1 = i
      BY <1>2, <1>4, <2>2, <3>1
    <3>3. x = t[i - 1] /\ i - 1 \in DOMAIN t
      BY <1>2, <3>1, <3>2
    <3> QED  BY <3>3 DEF ToSet
  <2> QED  BY <2>1, <2>2
<1> QED  BY <1>2, <1>5, <1>6, <1>7 DEF t, h

-----------------------------------------------------------------------------
(* The circuit map *)

\* The reservations of a channel are what they were.
LEMMA QueueKept ==
  ASSUME NEW q, NEW ch, NEW m, NEW n, QueueOK(q, ch, m),
         \A id \in Ids : Reserved(n, ch, id) <=> Reserved(m, ch, id)
  PROVE  QueueOK(q, ch, n)
  BY DEF QueueOK

\* Entries leave the map or become reservations.
LEMMA MapShrinks ==
  ASSUME NEW m, NEW st, NEW cs, NEW nc, NEW ni, MapOK(m, st, cs, nc, ni),
         NEW m2, NEW st2, NEW cs2, NEW nc2, NEW ni2,
         DOMAIN m2 \subseteq DOMAIN m,
         \A e \in DOMAIN m2 :
            /\ st2[e[1]] # "none"
            /\ m2[e] = Unusable \/ (m2[e] = m[e] /\ cs2[m[e]] = "live"),
         \A k \in Circ : cs2[k] = "live" =>
            /\ cs[k] = "live" /\ nc2[k] = nc[k] /\ ni2[k] = ni[k]
            /\ st2[nc[k]] \in {"open", "closing"}
            /\ <<nc[k], ni[k]>> \in DOMAIN m2 /\ m2[<<nc[k], ni[k]>>] = k
  PROVE  MapOK(m2, st2, cs2, nc2, ni2)
<1>1. DOMAIN m2 \subseteq Slot \X Ids
  BY DEF MapOK
<1>2. ASSUME NEW k \in Circ PROVE CircuitOK(k, m2, st2, cs2, nc2, ni2)
  BY DEF MapOK, CircuitOK
<1>3. ASSUME NEW e \in DOMAIN m2 PROVE EntryOK(e, m2, st2, cs2, nc2, ni2)
  <2>1. EntryOK(e, m, st, cs, nc, ni)
    BY DEF MapOK
  <2> QED  BY <2>1 DEF EntryOK
<1> QED  BY <1>1, <1>2, <1>3 DEF MapOK

\* A DESTROY is sent: its reservation is released.
LEMMA SentOK ==
  ASSUME NEW ch \in Slot, NEW m, NEW st, NEW cs, NEW nc, NEW ni,
         MapOK(m, st, cs, nc, ni), NEW q, QueueOK(q, ch, m), q # << >>
  PROVE  /\ MapOK(SentMap(ch, q, m), st, cs, nc, ni)
         /\ QueueOK(Tail(q), ch, SentMap(ch, q, m))
         /\ \A d \in Slot \ {ch}, id \in Ids :
               Reserved(SentMap(ch, q, m), d, id) <=> Reserved(m, d, id)
<1> DEFINE n == SentMap(ch, q, m)
           h == Head(q)
<1>1. /\ DOMAIN n = DOMAIN m \ {<<ch, h>>}
      /\ \A e \in DOMAIN n : n[e] = m[e]
  BY DEF SentMap
<1> HIDE DEF n
<1>2. /\ Tail(q) \in Seq(Ids) /\ IsInjective(Tail(q))
      /\ ToSet(Tail(q)) = ToSet(q) \ {h} /\ h \in Ids /\ h \in ToSet(q)
  BY TailQueue DEF QueueOK
<1> HIDE DEF h
<1>3. <<ch, h>> \in DOMAIN m /\ m[<<ch, h>>] = Unusable
  BY <1>2 DEF QueueOK, Reserved
<1>4. QueueOK(Tail(q), ch, n)
  <2>1. ASSUME NEW id \in Ids
        PROVE  id \in ToSet(Tail(q)) <=> Reserved(n, ch, id)
    <3>1. Reserved(n, ch, id) <=> Reserved(m, ch, id) /\ id # h
      BY <1>1 DEF Reserved
    <3> QED  BY <1>2, <3>1 DEF QueueOK
  <2> QED  BY <1>2, <2>1 DEF QueueOK
<1>5. ASSUME NEW d \in Slot \ {ch}, NEW id \in Ids
      PROVE  Reserved(n, d, id) <=> Reserved(m, d, id)
  BY <1>1 DEF Reserved
<1>6. MapOK(n, st, cs, nc, ni)
  <2>1. ASSUME NEW e \in DOMAIN n
        PROVE  /\ st[e[1]] # "none"
               /\ n[e] = Unusable \/ (n[e] = m[e] /\ cs[m[e]] = "live")
    BY <1>1, <2>1 DEF MapOK, EntryOK
  <2>2. ASSUME NEW k \in Circ, cs[k] = "live"
        PROVE  /\ st[nc[k]] \in {"open", "closing"}
               /\ <<nc[k], ni[k]>> \in DOMAIN n /\ n[<<nc[k], ni[k]>>] = k
    <3>1. /\ st[nc[k]] \in {"open", "closing"}
          /\ <<nc[k], ni[k]>> \in DOMAIN m /\ m[<<nc[k], ni[k]>>] = k
      BY <2>2 DEF MapOK, CircuitOK
    <3>2. k # Unusable
      BY ChanAssumption DEF Unusable
    <3>3. <<nc[k], ni[k]>> # <<ch, h>>
      BY <1>3, <3>1, <3>2
    <3> QED  BY <1>1, <3>1, <3>3
  <2> QED  BY <1>1, <2>1, <2>2, MapShrinks
<1> QED  BY <1>4, <1>5, <1>6 DEF n

-----------------------------------------------------------------------------
(* What the steps have in common *)

\* The parts of the invariant that most steps use.
LEMMA ChParts ==
  ASSUME ChInv
  PROVE  /\ chst \in [Slot -> {"none", "opening", "open", "closing", "closed"}]
         /\ chhop \in [Slot -> Hop \cup {NoHop}]
         /\ nCirc \in [Slot -> Nat]
         /\ destroyQ \in [Slot -> Seq(Ids)]
         /\ cst \in [Circ -> {"none", "wait", "live"}]
         /\ chop \in [Circ -> Hop \cup {NoHop}]
         /\ nchan \in [Circ -> Slot \cup {NoSlot}]
         /\ nid \in [Circ -> OwnId \cup {0}]
         /\ MapOK(circMap, chst, cst, nchan, nid)
         /\ \A ch \in Slot : QueueOK(destroyQ[ch], ch, circMap)
         /\ \A k \in Circ : k # Unusable
<1>1. nCirc \in [Slot -> Nat]
  BY ChanAssumption DEF ChInv, ChTypeOK
<1> QED  BY <1>1, ChanAssumption DEF ChInv, ChTypeOK, QueuesOK, Ids, Unusable

\* Sets of circuits are finite.
LEMMA OnChanFinite ==
  ASSUME NEW S \in SUBSET Circ
  PROVE  IsFiniteSet(S) /\ Cardinality(S) \in 0 .. Cardinality(Circ)
<1>1. IsFiniteSet(S) /\ Cardinality(S) <= Cardinality(Circ)
  BY ChanAssumption, FS_Subset
<1>2. Cardinality(S) \in Nat /\ Cardinality(Circ) \in Nat
  BY <1>1, ChanAssumption, FS_CardinalityType
<1> QED  BY <1>1, <1>2

\* The count of a channel and its circuits change together.
LEMMA CountsFollow ==
  ASSUME \A ch \in Slot : \/ nCirc'[ch] = Cardinality(OnChan(ch)')
                          \/ chst'[ch] = "closed" /\ nCirc'[ch] \in 0 .. UInt - 1,
         nCirc' = [ch \in Slot |-> nCirc'[ch]]
  PROVE  CountsExact' /\ nCirc' \in [Slot -> 0 .. UInt - 1]
<1>1. CountsExact'
  BY DEF CountsExact
<1>2. \A ch \in Slot : nCirc'[ch] \in 0 .. UInt - 1
  <2> SUFFICES ASSUME NEW ch \in Slot, nCirc'[ch] = Cardinality(OnChan(ch)')
               PROVE  nCirc'[ch] \in 0 .. UInt - 1
    OBVIOUS
  <2>1. PICK S : S = OnChan(ch)'
    OBVIOUS
  <2>2. S \in SUBSET Circ
    BY <2>1 DEF OnChan
  <2>3. Cardinality(S) \in 0 .. Cardinality(Circ) /\ Cardinality(Circ) \in Nat
    BY <2>2, OnChanFinite, ChanAssumption, FS_CardinalityType
  <2>4. Cardinality(S) \in 0 .. UInt - 1
    BY <2>3, ChanAssumption
  <2> QED  BY <2>1, <2>4
<1> QED  BY <1>1, <1>2

\* No circuit enters or leaves a channel, and no entry changes.
LEMMA TablesSame ==
  ASSUME ChInv, UNCHANGED <<nCirc, destroyQ, circMap, nchan, nid>>,
         \A k \in Circ : cst'[k] = "live" <=> cst[k] = "live",
         \A ch \in Slot : /\ chst[ch] # "none" => chst'[ch] # "none"
                          /\ chst[ch] = "closed" => chst'[ch] = "closed"
                          /\ chst[ch] \in {"open", "closing"}
                               => chst'[ch] \in {"open", "closing"}
  PROVE  /\ MapOK(circMap', chst', cst', nchan', nid') /\ CountsExact'
         /\ QueuesOK(destroyQ', circMap')
<1>1. MapOK(circMap, chst', cst', nchan, nid)
  <2>1. ASSUME NEW e \in DOMAIN circMap
        PROVE  /\ chst'[e[1]] # "none"
               /\ \/ circMap[e] = Unusable
                  \/ circMap[e] = circMap[e] /\ cst'[circMap[e]] = "live"
    <3>1. e \in Slot \X Ids /\ EntryOK(e, circMap, chst, cst, nchan, nid)
      BY <2>1, ChParts DEF MapOK
    <3>2. e[1] \in Slot
      BY <3>1
    <3> QED  BY <3>1, <3>2 DEF EntryOK
  <2>2. ASSUME NEW k \in Circ, cst'[k] = "live"
        PROVE  /\ cst[k] = "live" /\ chst'[nchan[k]] \in {"open", "closing"}
               /\ <<nchan[k], nid[k]>> \in DOMAIN circMap
               /\ circMap[<<nchan[k], nid[k]>>] = k
    <3>1. cst[k] = "live" /\ CircuitOK(k, circMap, chst, cst, nchan, nid)
      BY <2>2, ChParts DEF MapOK
    <3> QED  BY <3>1 DEF CircuitOK
  <2>3. MapOK(circMap, chst, cst, nchan, nid)
    BY ChParts
  <2> QED  BY <2>1, <2>2, <2>3, MapShrinks
<1>2. \A ch \in Slot : OnChan(ch)' = OnChan(ch)
  BY DEF OnChan
<1>3. CountsExact'
  BY <1>2 DEF ChInv, CountsExact
<1> QED  BY <1>1, <1>3 DEF ChInv

-----------------------------------------------------------------------------
(* Steps of channels *)

\* BufferChange and MarkBad keep the invariant.
LEMMA BufferStep ==
  ASSUME ChInv, NEW ch \in Slot, BufferChange(ch) \/ MarkBad(ch)
  PROVE  ChInv'
<1>1. /\ UNCHANGED <<chst, chhop, idMap, beenOpen, canon, nCirc, destroyQ,
                     circMap, cst, chop, nchan, nid>>
      /\ obuf' = obuf \/ obuf' = [obuf EXCEPT ![ch] = ~obuf[ch]]
      /\ badForNew' = badForNew \/ badForNew' = [badForNew EXCEPT ![ch] = TRUE]
  BY DEF BufferChange, MarkBad
<1>2. /\ MapOK(circMap', chst', cst', nchan', nid') /\ CountsExact'
      /\ QueuesOK(destroyQ', circMap')
  BY <1>1, TablesSame
<1>3. obuf' \in [Slot -> BOOLEAN] /\ badForNew' \in [Slot -> BOOLEAN]
  BY <1>1, Zenon DEF ChInv, ChTypeOK
<1>4. ChTypeOK'
  BY <1>1, <1>3 DEF ChInv, ChTypeOK
<1>5. IdMapExact'
  BY <1>1 DEF ChInv, IdMapExact
<1> QED  BY <1>2, <1>4, <1>5 DEF ChInv

\* The channel leaves the identity map as it begins to close.
LEMMA StartClosingStep ==
  ASSUME ChInv, NEW ch \in Slot, chst[ch] \in {"opening", "open"}, StartClosing(ch)
  PROVE  ChInv'
<1>1. /\ chst' = [chst EXCEPT ![ch] = "closing"]
      /\ idMap' = idMap \ {<<chhop[ch].dig, ch>>}
      /\ UNCHANGED <<chhop, beenOpen, badForNew, canon, nCirc, obuf, destroyQ,
                     circMap, cst, chop, nchan, nid>>
  BY DEF StartClosing
<1>2. \A d \in Slot : chst'[d] = IF d = ch THEN "closing" ELSE chst[d]
  BY <1>1, ChParts
<1>3. /\ MapOK(circMap', chst', cst', nchan', nid') /\ CountsExact'
      /\ QueuesOK(destroyQ', circMap')
  BY <1>1, <1>2, TablesSame
<1>4. ChTypeOK'
  <2>1. chst' \in [Slot -> {"none", "opening", "open", "closing", "closed"}]
    BY <1>1, ChParts
  <2> QED  BY <1>1, <2>1 DEF ChInv, ChTypeOK
<1>5. IdMapExact'
  <2>1. idMap = {<<chhop[d].dig, d>> :
                    d \in {s \in Slot : chst[s] \in {"opening", "open"}}}
    BY DEF ChInv, IdMapExact
  <2>2. idMap' = {<<chhop[d].dig, d>> :
                    d \in {s \in Slot : chst'[s] \in {"opening", "open"}}}
    BY <1>1, <1>2, <2>1
  <2> QED  BY <1>1, <2>2 DEF IdMapExact
<1> QED  BY <1>3, <1>4, <1>5 DEF ChInv

\* FirstHopWait keeps the invariant.
LEMMA FirstHopWaitStep ==
  ASSUME ChInv, NEW k \in Circ, NEW hop \in Hop, FirstHopWait(k, hop)
  PROVE  ChInv'
<1>1. /\ cst[k] = "none" /\ cst' = [cst EXCEPT ![k] = "wait"]
      /\ chop' = [chop EXCEPT ![k] = hop]
      /\ UNCHANGED <<chst, chhop, idMap, beenOpen, badForNew, canon, nCirc, obuf,
                     destroyQ, circMap, nchan, nid>>
  BY DEF FirstHopWait
<1>2. \A j \in Circ : cst'[j] = "live" <=> cst[j] = "live"
  BY <1>1, ChParts
<1>3. /\ MapOK(circMap', chst', cst', nchan', nid') /\ CountsExact'
      /\ QueuesOK(destroyQ', circMap')
  BY <1>1, <1>2, TablesSame
<1>4. ChTypeOK'
  BY <1>1, ChParts DEF ChInv, ChTypeOK
<1>5. IdMapExact'
  BY <1>1 DEF ChInv, IdMapExact
<1> QED  BY <1>3, <1>4, <1>5 DEF ChInv

\* FirstHopLaunch keeps the invariant.
LEMMA FirstHopLaunchStep ==
  ASSUME ChInv, NEW k \in Circ, NEW hop \in Hop, NEW ch \in Slot,
         FirstHopLaunch(k, hop, ch)
  PROVE  ChInv'
<1>1. /\ cst[k] = "none" /\ cst' = [cst EXCEPT ![k] = "wait"]
      /\ chop' = [chop EXCEPT ![k] = hop]
      /\ chst[ch] = "none" /\ chst' = [chst EXCEPT ![ch] = "opening"]
      /\ chhop' = [chhop EXCEPT ![ch] = hop]
      /\ idMap' = idMap \cup {<<hop.dig, ch>>}
      /\ UNCHANGED <<beenOpen, badForNew, canon, nCirc, obuf,
                     destroyQ, circMap, nchan, nid>>
  BY DEF FirstHopLaunch
<1>2. \A j \in Circ : cst'[j] = "live" <=> cst[j] = "live"
  BY <1>1, ChParts
<1>3. /\ \A d \in Slot : chst'[d] = IF d = ch THEN "opening" ELSE chst[d]
      /\ \A d \in Slot : chhop'[d] = IF d = ch THEN hop ELSE chhop[d]
  BY <1>1, ChParts
<1>4. /\ MapOK(circMap', chst', cst', nchan', nid') /\ CountsExact'
      /\ QueuesOK(destroyQ', circMap')
  BY <1>1, <1>2, <1>3, TablesSame
<1>5. ChTypeOK'
  <2>1. chst' \in [Slot -> {"none", "opening", "open", "closing", "closed"}]
    BY <1>1, ChParts
  <2>2. chhop' \in [Slot -> Hop \cup {NoHop}] /\ chop' \in [Circ -> Hop \cup {NoHop}]
        /\ cst' \in [Circ -> {"none", "wait", "live"}]
    BY <1>1, ChParts
  <2>3. idMap' \subseteq {h.dig : h \in Hop} \X Slot
    BY <1>1 DEF ChInv, ChTypeOK
  <2> QED  BY <1>1, <2>1, <2>2, <2>3 DEF ChInv, ChTypeOK
<1>6. IdMapExact'
  <2>1. idMap = {<<chhop[d].dig, d>> :
                    d \in {s \in Slot : chst[s] \in {"opening", "open"}}}
    BY DEF ChInv, IdMapExact
  <2>2. idMap' = {<<chhop'[d].dig, d>> :
                    d \in {s \in Slot : chst'[s] \in {"opening", "open"}}}
    BY <1>1, <1>3, <2>1
  <2> QED  BY <2>2 DEF IdMapExact
<1> QED  BY <1>4, <1>5, <1>6 DEF ChInv

-----------------------------------------------------------------------------
(* Circuits leave a channel *)

\* The circuits of J are no longer on the channel ch.
Left(J, ch) ==
    /\ J \subseteq OnChan(ch)
    /\ \A k \in Circ : cst'[k] = "live" <=> cst[k] = "live" /\ k \notin J
    /\ \A k \in Circ \ J : nchan'[k] = nchan[k] /\ nid'[k] = nid[k]

\* The counts stay exact when a set of circuits leaves a channel.
LEMMA CountsLeft ==
  ASSUME ChInv, NEW ch \in Slot, NEW J, Left(J, ch),
         UNCHANGED chst, chst[ch] # "closed",
         nCirc' = [nCirc EXCEPT ![ch] = nCirc[ch] - Cardinality(J)]
  PROVE  CountsExact' /\ nCirc' \in [Slot -> 0 .. UInt - 1]
<1>1. nCirc \in [Slot -> Nat]
  BY ChParts
<1>2. ASSUME NEW d \in Slot, chst[d] # "closed"
      PROVE  nCirc'[d] = Cardinality(OnChan(d)')
  <2>1. nCirc[d] = Cardinality(OnChan(d))
    BY <1>2 DEF ChInv, CountsExact
  <2>2. CASE d = ch
    <3>1. OnChan(d)' = OnChan(d) \ J
      BY <2>2 DEF Left, OnChan
    <3>2. PICK S : S = OnChan(d)
      OBVIOUS
    <3>3. S \in SUBSET Circ /\ J \in SUBSET Circ /\ J \subseteq S
      BY <2>2, <3>2 DEF Left, OnChan
    <3>4. Cardinality(S \ J) = Cardinality(S) - Cardinality(J)
      <4>1. IsFiniteSet(S) /\ IsFiniteSet(J) /\ J \cap S = J /\ S \cap J = J
        BY <3>3, OnChanFinite
      <4>2. Cardinality(S \ J) = Cardinality(S) - Cardinality(S \cap J)
        BY <4>1, FS_Difference
      <4> QED  BY <4>1, <4>2
    <3>5. nCirc'[d] = nCirc[d] - Cardinality(J)
      BY <1>1, <2>2
    <3> QED  BY <2>1, <3>1, <3>2, <3>4, <3>5
  <2>3. CASE d # ch
    <3>1. OnChan(d)' = OnChan(d)
      BY <2>3 DEF Left, OnChan
    <3>2. nCirc'[d] = nCirc[d]
      BY <1>1, <2>3
    <3> QED  BY <2>1, <3>1, <3>2
  <2> QED  BY <2>2, <2>3
<1>3. nCirc' = [d \in Slot |-> nCirc'[d]]
  BY <1>1
<1>4. ASSUME NEW d \in Slot, chst[d] = "closed" PROVE nCirc'[d] \in 0 .. UInt - 1
  <2>1. nCirc'[d] = nCirc[d]
    BY <1>1, <1>4
  <2> QED  BY <2>1 DEF ChInv, ChTypeOK
<1> QED  BY <1>2, <1>3, <1>4, CountsFollow

\* Their entries become reservations or go; the others' stay.
LEMMA MapLeft ==
  ASSUME ChInv, NEW ch \in Slot, NEW J, Left(J, ch), NEW m,
         DOMAIN m \subseteq DOMAIN circMap,
         \A e \in DOMAIN m :
            m[e] = Unusable \/ (m[e] = circMap[e] /\ circMap[e] \notin J),
         \A e \in DOMAIN circMap :
            circMap[e] \in Circ \ J => e \in DOMAIN m /\ m[e] = circMap[e],
         \A d \in Slot : chst[d] # "none" => chst'[d] # "none",
         \A k \in Circ \ J :
            cst[k] = "live" => chst'[nchan[k]] \in {"open", "closing"}
  PROVE  MapOK(m, chst', cst', nchan', nid')
<1>1. MapOK(circMap, chst, cst, nchan, nid)
  BY ChParts
<1>2. J \subseteq Circ
  BY DEF Left, OnChan
<1>3. ASSUME NEW e \in DOMAIN m
      PROVE  /\ chst'[e[1]] # "none"
             /\ m[e] = Unusable \/ (m[e] = circMap[e] /\ cst'[circMap[e]] = "live")
  <2>1. e \in Slot \X Ids /\ EntryOK(e, circMap, chst, cst, nchan, nid)
    BY <1>1, <1>3 DEF MapOK
  <2>2. e[1] \in Slot
    BY <2>1
  <2> QED  BY <1>3, <2>1, <2>2 DEF EntryOK, Left
<1>4. ASSUME NEW k \in Circ, cst'[k] = "live"
      PROVE  /\ cst[k] = "live" /\ nchan'[k] = nchan[k] /\ nid'[k] = nid[k]
             /\ chst'[nchan[k]] \in {"open", "closing"}
             /\ <<nchan[k], nid[k]>> \in DOMAIN m /\ m[<<nchan[k], nid[k]>>] = k
  <2>1. cst[k] = "live" /\ k \notin J /\ nchan'[k] = nchan[k] /\ nid'[k] = nid[k]
    BY <1>4 DEF Left
  <2>2. /\ <<nchan[k], nid[k]>> \in DOMAIN circMap
        /\ circMap[<<nchan[k], nid[k]>>] = k
    BY <1>1, <2>1 DEF MapOK, CircuitOK
  <2> QED  BY <2>1, <2>2
<1> QED  BY <1>1, <1>3, <1>4, MapShrinks

\* The reservations stay when only entries of circuits go.
LEMMA QueuesLeft ==
  ASSUME ChInv, NEW m, destroyQ' = destroyQ,
         \A d \in Slot, id \in Ids : Reserved(m, d, id) <=> Reserved(circMap, d, id)
  PROVE  QueuesOK(destroyQ', m)
<1> SUFFICES ASSUME NEW d \in Slot PROVE QueueOK(destroyQ[d], d, m)
  BY DEF QueuesOK
<1> QED  BY ChParts, QueueKept

\* A live circuit and its entry.
LEMMA LiveFacts ==
  ASSUME ChInv, NEW k \in Circ, cst[k] = "live"
  PROVE  /\ nchan[k] \in Slot /\ nid[k] \in OwnId /\ nid[k] \in Ids
         /\ k \in OnChan(nchan[k]) /\ chst[nchan[k]] \in {"open", "closing"}
         /\ <<nchan[k], nid[k]>> \in DOMAIN circMap
         /\ circMap[<<nchan[k], nid[k]>>] = k /\ k # Unusable
         /\ \A e \in DOMAIN circMap : circMap[e] = k => e = <<nchan[k], nid[k]>>
  BY ChParts DEF MapOK, CircuitOK, EntryOK, OnChan, Ids

\* The circuits on a channel that leave it have the channel in common.
LEMMA OneLeft ==
  ASSUME ChInv, NEW k \in Circ, cst[k] = "live",
         cst' = [cst EXCEPT ![k] = "none"],
         nchan' = [nchan EXCEPT ![k] = NoSlot], nid' = [nid EXCEPT ![k] = 0]
  PROVE  /\ Left({k}, nchan[k]) /\ Cardinality({k}) = 1
         /\ cst' \in [Circ -> {"none", "wait", "live"}]
         /\ nchan' \in [Circ -> Slot \cup {NoSlot}]
         /\ nid' \in [Circ -> OwnId \cup {0}]
<1>1. {k} \subseteq OnChan(nchan[k])
  BY LiveFacts
<1>2. Left({k}, nchan[k])
  BY <1>1, ChParts DEF Left
<1>3. Cardinality({k}) = 1
  BY FS_Singleton
<1> QED  BY <1>2, <1>3, ChParts

\* The map of types: nothing but circuits and reservations.
LEMMA MapTypes ==
  ASSUME NEW m, NEW st, NEW cs, NEW nc, NEW ni, MapOK(m, st, cs, nc, ni)
  PROVE  /\ DOMAIN m \subseteq Slot \X (OwnId \cup PeerId)
         /\ \A e \in DOMAIN m : m[e] \in Circ \cup {Unusable}
  BY DEF MapOK, EntryOK, Ids

\* A circuit leaves its channel and its entry goes with it.
LEMMA EntryDropped ==
  ASSUME ChInv, NEW k \in Circ, cst[k] = "live",
         cst' = [cst EXCEPT ![k] = "none"],
         nchan' = [nchan EXCEPT ![k] = NoSlot], nid' = [nid EXCEPT ![k] = 0],
         circMap' = Drop({<<nchan[k], nid[k]>>}),
         chst' = chst, destroyQ' = destroyQ
  PROVE  MapOK(circMap', chst', cst', nchan', nid') /\ QueuesOK(destroyQ', circMap')
<1> DEFINE ch == nchan[k]
           id == nid[k]
           m == Drop({<<ch, id>>})
<1>1. /\ ch \in Slot /\ id \in Ids
      /\ <<ch, id>> \in DOMAIN circMap /\ circMap[<<ch, id>>] = k /\ k # Unusable
      /\ \A e \in DOMAIN circMap : circMap[e] = k => e = <<ch, id>>
  BY LiveFacts
<1>2. /\ DOMAIN m = DOMAIN circMap \ {<<ch, id>>}
      /\ \A e \in DOMAIN m : m[e] = circMap[e]
  BY DEF Drop
<1>3. Left({k}, ch)
  BY OneLeft
<1>4. \A j \in Circ \ {k} : cst[j] = "live" => chst'[nchan[j]] \in {"open", "closing"}
  BY LiveFacts
<1>5. circMap' = m
  OBVIOUS
<1> HIDE DEF ch, id, m
<1>6. MapOK(m, chst', cst', nchan', nid')
  <2>1. \A e \in DOMAIN m : m[e] = circMap[e] /\ circMap[e] \notin {k}
    BY <1>1, <1>2
  <2>2. \A e \in DOMAIN circMap :
           circMap[e] \in Circ \ {k} => e \in DOMAIN m /\ m[e] = circMap[e]
    BY <1>1, <1>2
  <2>3. /\ \A d \in Slot : chst[d] # "none" => chst'[d] # "none"
        /\ DOMAIN m \subseteq DOMAIN circMap /\ ch \in Slot /\ Left({k}, ch)
    BY <1>1, <1>2, <1>3
  <2> QED  BY <1>4, <2>1, <2>2, <2>3, MapLeft
<1>7. QueuesOK(destroyQ', m)
  <2>1. \A d \in Slot, i \in Ids : Reserved(m, d, i) <=> Reserved(circMap, d, i)
    BY <1>1, <1>2 DEF Reserved
  <2> QED  BY <2>1, QueuesLeft
<1> QED  BY <1>5, <1>6, <1>7

\* PeerDestroy keeps the invariant.
LEMMA PeerDestroyStep ==
  ASSUME ChInv, NEW k \in Circ, PeerDestroy(k)
  PROVE  ChInv'
<1>1. /\ cst[k] = "live" /\ cst' = [cst EXCEPT ![k] = "none"]
      /\ circMap' = Drop({<<nchan[k], nid[k]>>})
      /\ nCirc' = [nCirc EXCEPT ![nchan[k]] = nCirc[nchan[k]] - 1]
      /\ nchan' = [nchan EXCEPT ![k] = NoSlot]
      /\ nid' = [nid EXCEPT ![k] = 0]
      /\ UNCHANGED <<chst, chhop, idMap, beenOpen, badForNew, canon, obuf,
                     destroyQ, chop>>
  BY DEF PeerDestroy
<1>2. /\ Left({k}, nchan[k]) /\ Cardinality({k}) = 1
      /\ cst' \in [Circ -> {"none", "wait", "live"}]
      /\ nchan' \in [Circ -> Slot \cup {NoSlot}]
      /\ nid' \in [Circ -> OwnId \cup {0}]
  BY <1>1, OneLeft
<1>3. CountsExact' /\ nCirc' \in [Slot -> 0 .. UInt - 1]
  BY <1>1, <1>2, LiveFacts, CountsLeft
<1>4. MapOK(circMap', chst', cst', nchan', nid') /\ QueuesOK(destroyQ', circMap')
  BY <1>1, EntryDropped
<1>5. ChTypeOK'
  <2>1. /\ DOMAIN circMap' \subseteq Slot \X (OwnId \cup PeerId)
        /\ \A e \in DOMAIN circMap' : circMap'[e] \in Circ \cup {Unusable}
    BY <1>4, MapTypes
  <2> QED  BY <1>1, <1>2, <1>3, <2>1 DEF ChInv, ChTypeOK
<1>6. IdMapExact'
  BY <1>1 DEF ChInv, IdMapExact
<1> QED  BY <1>3, <1>4, <1>5, <1>6 DEF ChInv

-----------------------------------------------------------------------------
(* DESTROY cells *)

\* A DESTROY is queued for an ID that is now reserved, and perhaps the first one
\* of the queue is sent.
LEMMA QueuePushed ==
  ASSUME ChInv, NEW ch \in Slot, NEW id \in Ids, ~ Reserved(circMap, ch, id),
         NEW m, NEW st, NEW cs, NEW nc, NEW ni, MapOK(m, st, cs, nc, ni),
         \A d \in Slot, i \in Ids :
            Reserved(m, d, i) <=> Reserved(circMap, d, i) \/ (d = ch /\ i = id),
         NEW q, q = Append(destroyQ[ch], id),
         \/ destroyQ' = [destroyQ EXCEPT ![ch] = q] /\ circMap' = m
         \/ destroyQ' = [destroyQ EXCEPT ![ch] = Tail(q)] /\ circMap' = SentMap(ch, q, m)
  PROVE  /\ QueuesOK(destroyQ', circMap') /\ MapOK(circMap', st, cs, nc, ni)
         /\ destroyQ' \in [Slot -> Seq(Ids)]
<1>1. /\ destroyQ \in [Slot -> Seq(Ids)]
      /\ \A d \in Slot : QueueOK(destroyQ[d], d, circMap)
  BY ChParts
<1>2. /\ q \in Seq(Ids) /\ q # << >> /\ IsInjective(q)
      /\ ToSet(q) = ToSet(destroyQ[ch]) \cup {id}
  <2>1. QueueOK(destroyQ[ch], ch, circMap)
    BY <1>1
  <2>2. /\ destroyQ[ch] \in Seq(Ids) /\ IsInjective(destroyQ[ch])
        /\ id \notin ToSet(destroyQ[ch])
    BY <2>1 DEF QueueOK
  <2> QED  BY <2>2, AppendQueue
<1>3. QueueOK(q, ch, m)
  BY <1>1, <1>2 DEF QueueOK
<1>4. \A d \in Slot \ {ch} : QueueOK(destroyQ[d], d, m)
  BY <1>1, QueueKept
<1>5. CASE destroyQ' = [destroyQ EXCEPT ![ch] = q] /\ circMap' = m
  BY <1>1, <1>2, <1>3, <1>4, <1>5 DEF QueuesOK
<1>6. CASE destroyQ' = [destroyQ EXCEPT ![ch] = Tail(q)] /\ circMap' = SentMap(ch, q, m)
  <2>1. /\ MapOK(SentMap(ch, q, m), st, cs, nc, ni)
        /\ QueueOK(Tail(q), ch, SentMap(ch, q, m))
        /\ \A d \in Slot \ {ch}, i \in Ids :
              Reserved(SentMap(ch, q, m), d, i) <=> Reserved(m, d, i)
    BY <1>2, <1>3, SentOK
  <2>2. \A d \in Slot \ {ch} : QueueOK(destroyQ[d], d, SentMap(ch, q, m))
    BY <1>4, <2>1, QueueKept
  <2>3. Tail(q) \in Seq(Ids)
    BY <2>1 DEF QueueOK
  <2> QED  BY <1>1, <1>6, <2>1, <2>2, <2>3 DEF QueuesOK
<1> QED  BY <1>5, <1>6

\* CloseCircuit keeps the invariant.
LEMMA CloseCircuitStep ==
  ASSUME ChInv, NEW k \in Circ, CloseCircuit(k)
  PROVE  ChInv'
<1>1. /\ cst' = [cst EXCEPT ![k] = "none"] /\ chop' = [chop EXCEPT ![k] = NoHop]
      /\ UNCHANGED <<chst, chhop, idMap, beenOpen, badForNew, canon>>
  BY DEF CloseCircuit
<1>2. IdMapExact'
  BY <1>1 DEF ChInv, IdMapExact
<1>3. chop' \in [Circ -> Hop \cup {NoHop}] /\ cst' \in [Circ -> {"none", "wait", "live"}]
  BY <1>1, ChParts
<1>4. CASE cst[k] # "live"
  <2>1. UNCHANGED <<destroyQ, circMap, obuf, nCirc, nchan, nid>>
    BY <1>4 DEF CloseCircuit
  <2>2. \A j \in Circ : cst'[j] = "live" <=> cst[j] = "live"
    BY <1>1, <1>4, ChParts
  <2>3. /\ MapOK(circMap', chst', cst', nchan', nid') /\ CountsExact'
        /\ QueuesOK(destroyQ', circMap')
    BY <1>1, <2>1, <2>2, TablesSame
  <2>4. ChTypeOK'
    BY <1>1, <1>3, <2>1 DEF ChInv, ChTypeOK
  <2> QED  BY <1>2, <2>3, <2>4 DEF ChInv
<1>5. CASE cst[k] = "live"
  <2> DEFINE ch == nchan[k]
             id == nid[k]
             q == Append(destroyQ[ch], id)
             m == [circMap EXCEPT ![<<ch, id>>] = Unusable]
  <2>1. /\ CloseAttached(k)
        /\ nCirc' = [nCirc EXCEPT ![ch] = nCirc[ch] - 1]
        /\ nchan' = [nchan EXCEPT ![k] = NoSlot]
        /\ nid' = [nid EXCEPT ![k] = 0]
    BY <1>5 DEF CloseCircuit
  <2>2. /\ Left({k}, ch) /\ Cardinality({k}) = 1
        /\ nchan' \in [Circ -> Slot \cup {NoSlot}]
        /\ nid' \in [Circ -> OwnId \cup {0}]
    BY <1>1, <1>5, <2>1, OneLeft
  <2>3. /\ ch \in Slot /\ id \in Ids /\ chst[ch] \in {"open", "closing"}
        /\ <<ch, id>> \in DOMAIN circMap /\ circMap[<<ch, id>>] = k /\ k # Unusable
        /\ \A e \in DOMAIN circMap : circMap[e] = k => e = <<ch, id>>
    BY <1>5, LiveFacts
  <2>4. CountsExact' /\ nCirc' \in [Slot -> 0 .. UInt - 1]
    BY <1>1, <2>1, <2>2, <2>3, CountsLeft
  <2>5. /\ MapOK(circMap', chst', cst', nchan', nid') /\ QueuesOK(destroyQ', circMap')
        /\ destroyQ' \in [Slot -> Seq(Ids)] /\ obuf' \in [Slot -> BOOLEAN]
    <3>1. CASE Condemned(ch)
      <4>1. circMap' = Drop({<<ch, id>>}) /\ UNCHANGED <<destroyQ, obuf>>
        BY <2>1, <3>1 DEF CloseAttached
      <4>2. MapOK(circMap', chst', cst', nchan', nid') /\ QueuesOK(destroyQ', circMap')
        BY <1>1, <1>5, <2>1, <4>1, EntryDropped
      <4> QED  BY <4>1, <4>2, ChParts DEF ChInv, ChTypeOK
    <3>2. CASE ~ Condemned(ch)
      <4>1. /\ obuf' = [obuf EXCEPT ![ch] = TRUE]
            /\ \/ destroyQ' = [destroyQ EXCEPT ![ch] = q] /\ circMap' = m
               \/ /\ destroyQ' = [destroyQ EXCEPT ![ch] = Tail(q)]
                  /\ circMap' = SentMap(ch, q, m)
        BY <2>1, <3>2 DEF CloseAttached
      <4>2. obuf' \in [Slot -> BOOLEAN]
        BY <4>1 DEF ChInv, ChTypeOK
      <4>3. /\ DOMAIN m = DOMAIN circMap
            /\ \A e \in DOMAIN m : m[e] = IF e = <<ch, id>> THEN Unusable ELSE circMap[e]
        OBVIOUS
      <4>4. \A j \in Circ \ {k} : cst[j] = "live" => chst'[nchan[j]] \in {"open", "closing"}
        BY <1>1, LiveFacts
      <4>5. q = Append(destroyQ[ch], id)
        OBVIOUS
      <4> HIDE DEF ch, id, q, m
      <4>6. MapOK(m, chst', cst', nchan', nid')
        <5>1. \A e \in DOMAIN m :
                 m[e] = Unusable \/ (m[e] = circMap[e] /\ circMap[e] \notin {k})
          BY <2>3, <4>3
        <5>2. \A e \in DOMAIN circMap :
                 circMap[e] \in Circ \ {k} => e \in DOMAIN m /\ m[e] = circMap[e]
          BY <2>3, <4>3
        <5>3. /\ \A d \in Slot : chst[d] # "none" => chst'[d] # "none"
              /\ DOMAIN m \subseteq DOMAIN circMap
          BY <1>1, <4>3
        <5> QED  BY <2>2, <2>3, <4>4, <5>1, <5>2, <5>3, MapLeft
      <4>7. /\ ~ Reserved(circMap, ch, id)
            /\ \A d \in Slot, i \in Ids :
                  Reserved(m, d, i) <=> Reserved(circMap, d, i) \/ (d = ch /\ i = id)
        BY <2>3, <4>3 DEF Reserved
      <4> QED  BY <2>3, <4>1, <4>2, <4>5, <4>6, <4>7, QueuePushed
    <3> QED  BY <3>1, <3>2
  <2>6. ChTypeOK'
    <3>1. /\ DOMAIN circMap' \subseteq Slot \X (OwnId \cup PeerId)
          /\ \A e \in DOMAIN circMap' : circMap'[e] \in Circ \cup {Unusable}
      BY <2>5, MapTypes
    <3> QED  BY <1>1, <1>3, <2>2, <2>4, <2>5, <3>1 DEF ChInv, ChTypeOK, Ids
  <2> QED  BY <1>2, <2>4, <2>5, <2>6 DEF ChInv
<1> QED  BY <1>4, <1>5

\* PeerCreate keeps the invariant.
LEMMA PeerCreateStep ==
  ASSUME ChInv, NEW ch \in Slot, NEW id \in OwnId \cup PeerId, PeerCreate(ch, id)
  PROVE  ChInv'
<1> DEFINE q == Append(destroyQ[ch], id)
           m == [e \in DOMAIN circMap \cup {<<ch, id>>} |->
                   IF e = <<ch, id>> THEN Unusable ELSE circMap[e]]
<1>1. /\ chst[ch] = "open" /\ <<ch, id>> \notin DOMAIN circMap
      /\ obuf' = [obuf EXCEPT ![ch] = TRUE]
      /\ \/ destroyQ' = [destroyQ EXCEPT ![ch] = q] /\ circMap' = m
         \/ /\ destroyQ' = [destroyQ EXCEPT ![ch] = Tail(q)]
            /\ circMap' = SentMap(ch, q, m)
      /\ UNCHANGED <<chst, chhop, idMap, beenOpen, badForNew, canon, nCirc, cst,
                     chop, nchan, nid>>
  BY DEF PeerCreate, InMap
<1>2. /\ DOMAIN m = DOMAIN circMap \cup {<<ch, id>>}
      /\ \A e \in DOMAIN circMap : m[e] = circMap[e]
      /\ m[<<ch, id>>] = Unusable
  BY <1>1
<1>3. q = Append(destroyQ[ch], id) /\ id \in Ids
  BY DEF Ids
<1> HIDE DEF q, m
<1>4. MapOK(m, chst, cst, nchan, nid)
  <2>1. MapOK(circMap, chst, cst, nchan, nid)
    BY ChParts
  <2>2. DOMAIN m \subseteq Slot \X Ids
    BY <1>2, <1>3, <2>1 DEF MapOK
  <2>3. ASSUME NEW e \in DOMAIN m PROVE EntryOK(e, m, chst, cst, nchan, nid)
    <3>1. CASE e = <<ch, id>>
      <4>1. e[1] = ch /\ m[e] = Unusable
        BY <1>2, <3>1
      <4> QED  BY <1>1, <4>1 DEF EntryOK
    <3>2. CASE e \in DOMAIN circMap
      <4>1. m[e] = circMap[e] /\ EntryOK(e, circMap, chst, cst, nchan, nid)
        BY <1>2, <2>1, <3>2 DEF MapOK
      <4> QED  BY <4>1 DEF EntryOK
    <3> QED  BY <1>2, <3>1, <3>2
  <2>4. ASSUME NEW k \in Circ PROVE CircuitOK(k, m, chst, cst, nchan, nid)
    <3>1. CircuitOK(k, circMap, chst, cst, nchan, nid)
      BY <2>1 DEF MapOK
    <3> QED  BY <1>2, <3>1 DEF CircuitOK
  <2> QED  BY <2>2, <2>3, <2>4 DEF MapOK
<1>5. /\ ~ Reserved(circMap, ch, id)
      /\ \A d \in Slot, i \in Ids :
            Reserved(m, d, i) <=> Reserved(circMap, d, i) \/ (d = ch /\ i = id)
  BY <1>1, <1>2 DEF Reserved
<1>6. /\ QueuesOK(destroyQ', circMap') /\ MapOK(circMap', chst, cst, nchan, nid)
      /\ destroyQ' \in [Slot -> Seq(Ids)]
  BY <1>1, <1>3, <1>4, <1>5, QueuePushed
<1>7. CountsExact'
  <2>1. \A d \in Slot : OnChan(d)' = OnChan(d)
    BY <1>1 DEF OnChan
  <2> QED  BY <1>1, <2>1 DEF ChInv, CountsExact
<1>8. ChTypeOK'
  <2>1. /\ DOMAIN circMap' \subseteq Slot \X (OwnId \cup PeerId)
        /\ \A e \in DOMAIN circMap' : circMap'[e] \in Circ \cup {Unusable}
    BY <1>6, MapTypes
  <2>2. obuf' \in [Slot -> BOOLEAN]
    BY <1>1 DEF ChInv, ChTypeOK
  <2> QED  BY <1>1, <1>6, <2>1, <2>2 DEF ChInv, ChTypeOK, Ids
<1>9. IdMapExact'
  BY <1>1 DEF ChInv, IdMapExact
<1>10. MapOK(circMap', chst', cst', nchan', nid')
  BY <1>1, <1>6
<1> QED  BY <1>6, <1>7, <1>8, <1>9, <1>10 DEF ChInv

\* WriteDestroy keeps the invariant.
LEMMA WriteDestroyStep ==
  ASSUME ChInv, NEW ch \in Slot, WriteDestroy(ch)
  PROVE  ChInv'
<1> DEFINE q == destroyQ[ch]
<1>1. /\ q # << >> /\ obuf' = [obuf EXCEPT ![ch] = TRUE]
      /\ destroyQ' = [destroyQ EXCEPT ![ch] = Tail(q)]
      /\ circMap' = SentMap(ch, q, circMap)
      /\ UNCHANGED <<chst, chhop, idMap, beenOpen, badForNew, canon, nCirc, cst,
                     chop, nchan, nid>>
  BY DEF WriteDestroy
<1>2. /\ destroyQ \in [Slot -> Seq(Ids)]
      /\ \A d \in Slot : QueueOK(destroyQ[d], d, circMap)
      /\ MapOK(circMap, chst, cst, nchan, nid)
  BY ChParts
<1>3. QueueOK(q, ch, circMap)
  BY <1>2
<1> HIDE DEF q
<1>4. /\ MapOK(circMap', chst, cst, nchan, nid)
      /\ QueueOK(Tail(q), ch, circMap')
      /\ \A d \in Slot \ {ch}, i \in Ids :
            Reserved(circMap', d, i) <=> Reserved(circMap, d, i)
  BY <1>1, <1>2, <1>3, SentOK
<1>5. Tail(q) \in Seq(Ids)
  BY <1>4 DEF QueueOK
<1>6. QueuesOK(destroyQ', circMap') /\ destroyQ' \in [Slot -> Seq(Ids)]
  <2>1. \A d \in Slot \ {ch} : QueueOK(destroyQ[d], d, circMap')
    BY <1>2, <1>4, QueueKept
  <2> QED  BY <1>1, <1>2, <1>4, <1>5, <2>1 DEF QueuesOK
<1>7. CountsExact'
  <2>1. \A d \in Slot : OnChan(d)' = OnChan(d)
    BY <1>1 DEF OnChan
  <2> QED  BY <1>1, <2>1 DEF ChInv, CountsExact
<1>8. ChTypeOK'
  <2>1. /\ DOMAIN circMap' \subseteq Slot \X (OwnId \cup PeerId)
        /\ \A e \in DOMAIN circMap' : circMap'[e] \in Circ \cup {Unusable}
    BY <1>4, MapTypes
  <2>2. obuf' \in [Slot -> BOOLEAN]
    BY <1>1 DEF ChInv, ChTypeOK
  <2> QED  BY <1>1, <1>6, <2>1, <2>2 DEF ChInv, ChTypeOK, Ids
<1>9. IdMapExact'
  BY <1>1 DEF ChInv, IdMapExact
<1>10. MapOK(circMap', chst', cst', nchan', nid')
  BY <1>1, <1>4
<1> QED  BY <1>6, <1>7, <1>8, <1>9, <1>10 DEF ChInv

-----------------------------------------------------------------------------
(* The end of a channel *)

\* Every circuit on the channel is closed before the channel is.
LEMMA ConnGoneStep ==
  ASSUME ChInv, NEW ch \in Slot, ConnGone(ch)
  PROVE  ChInv'
<1> DEFINE J == OnChan(ch)
           W == IF beenOpen[ch] THEN {} ELSE WaitingFor(ch)
           m == Drop({<<ch, nid[k]>> : k \in J})
<1>1. /\ chst[ch] = "closing" /\ chst' = [chst EXCEPT ![ch] = "closed"]
      /\ cst' = [k \in Circ |-> IF k \in J \cup W THEN "none" ELSE cst[k]]
      /\ chop' = [k \in Circ |-> IF k \in W THEN NoHop ELSE chop[k]]
      /\ nchan' = [k \in Circ |-> IF k \in J THEN NoSlot ELSE nchan[k]]
      /\ nid' = [k \in Circ |-> IF k \in J THEN 0 ELSE nid[k]]
      /\ circMap' = m
      /\ nCirc' = [nCirc EXCEPT ![ch] = (0 - Cardinality(J)) % UInt]
      /\ UNCHANGED <<chhop, idMap, beenOpen, badForNew, canon, obuf, destroyQ>>
  BY DEF ConnGone
<1>2. /\ DOMAIN m = DOMAIN circMap \ {<<ch, nid[k]>> : k \in J}
      /\ \A e \in DOMAIN m : m[e] = circMap[e]
  BY DEF Drop
<1>3. \A k \in W : cst[k] # "live"
  BY DEF WaitingFor
<1>4. \A k \in J : k \in Circ /\ cst[k] = "live" /\ nchan[k] = ch
  BY DEF OnChan
<1>5. \A k \in Circ : cst[k] = "live" /\ nchan[k] = ch => k \in J
  BY DEF OnChan
<1> HIDE DEF J, W, m
<1>6. Left(J, ch)
  <2>1. J \subseteq OnChan(ch)
    BY DEF J
  <2>2. \A k \in Circ : cst'[k] = "live" <=> cst[k] = "live" /\ k \notin J
    BY <1>1, <1>3
  <2>3. \A k \in Circ \ J : nchan'[k] = nchan[k] /\ nid'[k] = nid[k]
    BY <1>1
  <2> QED  BY <2>1, <2>2, <2>3 DEF Left
<1>8. \A d \in Slot : chst'[d] = IF d = ch THEN "closed" ELSE chst[d]
  BY <1>1, ChParts
<1>7. CountsExact' /\ nCirc' \in [Slot -> 0 .. UInt - 1]
  <2>1. nCirc \in [Slot -> 0 .. UInt - 1]
    BY DEF ChInv, ChTypeOK
  <2>2. (0 - Cardinality(J)) % UInt \in 0 .. UInt - 1
    <3>1. PICK n : n = Cardinality(J)
      OBVIOUS
    <3>2. n \in Nat
      BY <1>4, <3>1, OnChanFinite
    <3>3. UInt \in Nat \ {0}
      BY ChanAssumption, FS_CardinalityType
    <3>4. 0 - n \in Int
      BY <3>2
    <3>5. (0 - n) % UInt \in 0 .. UInt - 1
      BY <3>3, <3>4
    <3> QED  BY <3>1, <3>5
  <2>3. ASSUME NEW d \in Slot \ {ch}, chst'[d] # "closed"
        PROVE  nCirc'[d] = Cardinality(OnChan(d)')
    <3>1. OnChan(d)' = OnChan(d)
      BY <1>6, <2>3 DEF Left, OnChan
    <3>2. nCirc'[d] = nCirc[d]
      BY <1>1, <2>1, <2>3
    <3>3. nCirc[d] = Cardinality(OnChan(d))
      BY <1>8, <2>3 DEF ChInv, CountsExact
    <3> QED  BY <3>1, <3>2, <3>3
  <2>4. nCirc' \in [Slot -> 0 .. UInt - 1]
    BY <1>1, <2>1, <2>2
  <2>5. \A d \in Slot : chst'[d] # "closed" => nCirc'[d] = Cardinality(OnChan(d)')
    BY <1>8, <2>3
  <2> QED  BY <2>4, <2>5 DEF CountsExact
<1>9. MapOK(m, chst', cst', nchan', nid')
  <2>1. \A e \in DOMAIN m : m[e] = circMap[e] /\ circMap[e] \notin J
    <3> SUFFICES ASSUME NEW e \in DOMAIN m, circMap[e] \in J PROVE FALSE
      BY <1>2
    <3>1. PICK k \in J : k = circMap[e]
      OBVIOUS
    <3>2. k \in Circ /\ cst[k] = "live" /\ nchan[k] = ch /\ e \in DOMAIN circMap
      BY <1>2, <1>4
    <3>3. e = <<nchan[k], nid[k]>>
      BY <3>1, <3>2, LiveFacts
    <3> QED  BY <1>2, <3>2, <3>3
  <2>2. ASSUME NEW e \in DOMAIN circMap, circMap[e] \in Circ \ J
        PROVE  e \in DOMAIN m /\ m[e] = circMap[e]
    <3>1. ASSUME NEW k \in J PROVE e # <<ch, nid[k]>>
      BY <1>4, <2>2, <3>1, LiveFacts
    <3> QED  BY <1>2, <3>1
  <2>3. \A k \in Circ \ J : cst[k] = "live" => chst'[nchan[k]] \in {"open", "closing"}
    BY <1>5, <1>8, LiveFacts
  <2>4. /\ \A d \in Slot : chst[d] # "none" => chst'[d] # "none"
        /\ DOMAIN m \subseteq DOMAIN circMap
    BY <1>2, <1>8
  <2> QED  BY <1>6, <2>1, <2>2, <2>3, <2>4, MapLeft
<1>10. QueuesOK(destroyQ', m)
  <2>1. \A d \in Slot, i \in Ids : Reserved(m, d, i) <=> Reserved(circMap, d, i)
    <3> SUFFICES ASSUME NEW d \in Slot, NEW i \in Ids
                 PROVE  Reserved(m, d, i) <=> Reserved(circMap, d, i)
      OBVIOUS
    <3>1. ASSUME Reserved(circMap, d, i), NEW k \in J PROVE <<d, i>> # <<ch, nid[k]>>
      BY <1>4, <3>1, LiveFacts DEF Reserved
    <3>2. Reserved(circMap, d, i) => <<d, i>> \in DOMAIN m
      BY <1>2, <3>1 DEF Reserved
    <3> QED  BY <1>2, <3>2 DEF Reserved
  <2> QED  BY <1>1, <2>1, QueuesLeft
<1>11. ChTypeOK'
  <2>1. /\ DOMAIN m \subseteq Slot \X (OwnId \cup PeerId)
        /\ \A e \in DOMAIN m : m[e] \in Circ \cup {Unusable}
    BY <1>9, MapTypes
  <2>2. /\ cst' \in [Circ -> {"none", "wait", "live"}]
        /\ chop' \in [Circ -> Hop \cup {NoHop}]
    BY <1>1, ChParts
  <2>3. nchan' \in [Circ -> Slot \cup {NoSlot}] /\ nid' \in [Circ -> OwnId \cup {0}]
    BY <1>1, ChParts
  <2>4. chst' \in [Slot -> {"none", "opening", "open", "closing", "closed"}]
    BY <1>1, ChParts
  <2> QED  BY <1>1, <1>7, <2>1, <2>2, <2>3, <2>4 DEF ChInv, ChTypeOK
<1>12. IdMapExact'
  <2>1. {s \in Slot : chst'[s] \in {"opening", "open"}}
          = {s \in Slot : chst[s] \in {"opening", "open"}}
    BY <1>1, <1>8
  <2> QED  BY <1>1, <2>1 DEF ChInv, IdMapExact
<1> QED  BY <1>1, <1>7, <1>9, <1>10, <1>11, <1>12 DEF ChInv

\* A closed channel has no circuit, so all its entries are reservations, and
\* these go with it.
LEMMA CleanUpStep ==
  ASSUME ChInv, NEW ch \in Slot, CleanUp(ch)
  PROVE  ChInv'
<1> DEFINE gone == {<<ch, id>> : id \in ToSet(destroyQ[ch])}
           m == Drop(gone)
<1>1. /\ chst[ch] = "closed" /\ chst' = [chst EXCEPT ![ch] = "none"]
      /\ chhop' = [chhop EXCEPT ![ch] = NoHop]
      /\ beenOpen' = [beenOpen EXCEPT ![ch] = FALSE]
      /\ badForNew' = [badForNew EXCEPT ![ch] = FALSE]
      /\ canon' = [canon EXCEPT ![ch] = FALSE]
      /\ obuf' = [obuf EXCEPT ![ch] = FALSE]
      /\ destroyQ' = [destroyQ EXCEPT ![ch] = << >>]
      /\ circMap' = m
      /\ nCirc' = [nCirc EXCEPT ![ch] = 0]
      /\ UNCHANGED <<idMap, cst, chop, nchan, nid>>
  BY DEF CleanUp
<1>2. /\ DOMAIN m = DOMAIN circMap \ gone
      /\ \A e \in DOMAIN m : m[e] = circMap[e]
  BY DEF Drop
<1>3. /\ \A d \in Slot : chst'[d] = IF d = ch THEN "none" ELSE chst[d]
      /\ \A d \in Slot : chhop'[d] = IF d = ch THEN NoHop ELSE chhop[d]
      /\ \A d \in Slot : destroyQ'[d] = IF d = ch THEN << >> ELSE destroyQ[d]
  BY <1>1, ChParts
<1>4. /\ MapOK(circMap, chst, cst, nchan, nid)
      /\ \A d \in Slot : QueueOK(destroyQ[d], d, circMap)
  BY ChParts
<1>5. \A e \in gone : \E id \in Ids : e = <<ch, id>> /\ circMap[e] = Unusable
  <2> SUFFICES ASSUME NEW id \in ToSet(destroyQ[ch])
               PROVE  id \in Ids /\ circMap[<<ch, id>>] = Unusable
    OBVIOUS
  <2>1. id \in Ids
    BY <1>4 DEF QueueOK, ToSet
  <2> QED  BY <1>4, <2>1 DEF QueueOK, Reserved
<1>6. \A id \in Ids : <<ch, id>> \in DOMAIN circMap => <<ch, id>> \in gone
  <2> SUFFICES ASSUME NEW id \in Ids, <<ch, id>> \in DOMAIN circMap
               PROVE  id \in ToSet(destroyQ[ch])
    OBVIOUS
  <2>1. circMap[<<ch, id>>] = Unusable
    <3> SUFFICES ASSUME circMap[<<ch, id>>] # Unusable PROVE FALSE
      OBVIOUS
    <3>1. PICK k : k = circMap[<<ch, id>>]
      OBVIOUS
    <3>2. k \in Circ /\ cst[k] = "live" /\ <<ch, id>> = <<nchan[k], nid[k]>>
      BY <1>4, <3>1 DEF MapOK, EntryOK
    <3>3. nchan[k] = ch
      BY <3>2
    <3>4. chst[nchan[k]] \in {"open", "closing"}
      BY <3>2, LiveFacts
    <3> QED  BY <1>1, <3>3, <3>4
  <2> QED  BY <1>4, <2>1 DEF QueueOK, Reserved
<1> HIDE DEF gone, m
<1>7. MapOK(m, chst', cst', nchan', nid')
  <2>1. ASSUME NEW e \in DOMAIN m
        PROVE  /\ chst'[e[1]] # "none"
               /\ m[e] = Unusable \/ (m[e] = circMap[e] /\ cst'[circMap[e]] = "live")
    <3>1. e \in Slot \X Ids /\ EntryOK(e, circMap, chst, cst, nchan, nid)
      BY <1>2, <1>4, <2>1 DEF MapOK
    <3>2. e[1] \in Slot /\ e[2] \in Ids /\ e = <<e[1], e[2]>>
      BY <3>1
    <3>3. e[1] # ch
      BY <1>2, <1>6, <2>1, <3>2
    <3> QED  BY <1>1, <1>2, <1>3, <2>1, <3>1, <3>2, <3>3 DEF EntryOK
  <2>2. ASSUME NEW k \in Circ, cst'[k] = "live"
        PROVE  /\ cst[k] = "live" /\ nchan'[k] = nchan[k] /\ nid'[k] = nid[k]
               /\ chst'[nchan[k]] \in {"open", "closing"}
               /\ <<nchan[k], nid[k]>> \in DOMAIN m /\ m[<<nchan[k], nid[k]>>] = k
    <3>1. /\ cst[k] = "live" /\ nchan'[k] = nchan[k] /\ nid'[k] = nid[k]
      BY <1>1, <2>2
    <3>2. /\ nchan[k] \in Slot /\ chst[nchan[k]] \in {"open", "closing"}
          /\ <<nchan[k], nid[k]>> \in DOMAIN circMap
          /\ circMap[<<nchan[k], nid[k]>>] = k /\ k # Unusable
      BY <3>1, LiveFacts
    <3>3. nchan[k] # ch /\ <<nchan[k], nid[k]>> \notin gone
      BY <1>1, <1>5, <3>2
    <3> QED  BY <1>2, <1>3, <3>1, <3>2, <3>3
  <2>3. DOMAIN m \subseteq DOMAIN circMap
    BY <1>2
  <2> QED  BY <1>4, <2>1, <2>2, <2>3, MapShrinks
<1>8. QueuesOK(destroyQ', m)
  <2> SUFFICES ASSUME NEW d \in Slot PROVE QueueOK(destroyQ'[d], d, m)
    BY DEF QueuesOK
  <2>1. CASE d = ch
    <3>1. destroyQ'[d] = << >>
      BY <1>3, <2>1
    <3>2. << >> \in Seq(Ids) /\ IsInjective(<< >>) /\ ToSet(<< >>) = {}
      BY DEF IsInjective, ToSet
    <3>3. \A id \in Ids : ~ Reserved(m, d, id)
      BY <1>2, <1>6, <2>1 DEF Reserved
    <3> QED  BY <3>1, <3>2, <3>3 DEF QueueOK
  <2>2. CASE d # ch
    <3>1. \A id \in Ids : Reserved(m, d, id) <=> Reserved(circMap, d, id)
      <4>1. \A id \in Ids : <<d, id>> \notin gone
        BY <1>5, <2>2
      <4> QED  BY <1>2, <4>1 DEF Reserved
    <3> QED  BY <1>3, <1>4, <2>2, <3>1, QueueKept
  <2> QED  BY <2>1, <2>2
<1>9. CountsExact' /\ nCirc' \in [Slot -> 0 .. UInt - 1]
  <2>1. \A d \in Slot : OnChan(d)' = OnChan(d)
    BY <1>1 DEF OnChan
  <2>2. OnChan(ch) = {} /\ Cardinality({}) = 0
    <3>1. ASSUME NEW k \in OnChan(ch) PROVE FALSE
      <4>1. k \in Circ /\ cst[k] = "live" /\ nchan[k] = ch
        BY DEF OnChan
      <4>2. chst[nchan[k]] \in {"open", "closing"}
        BY <4>1, LiveFacts
      <4> QED  BY <1>1, <4>1, <4>2
    <3> QED  BY <3>1, FS_EmptySet
  <2>3. nCirc \in [Slot -> 0 .. UInt - 1] /\ 0 \in 0 .. UInt - 1
    <3>1. Cardinality(Circ) \in Nat
      BY ChanAssumption, FS_CardinalityType
    <3> QED  BY <3>1, ChanAssumption DEF ChInv, ChTypeOK
  <2>4. \A d \in Slot : nCirc'[d] = IF d = ch THEN 0 ELSE nCirc[d]
    BY <1>1, <2>3
  <2>5. \A d \in Slot : chst'[d] # "closed" => nCirc'[d] = Cardinality(OnChan(d)')
    BY <1>3, <2>1, <2>2, <2>4 DEF ChInv, CountsExact
  <2>6. nCirc' \in [Slot -> 0 .. UInt - 1]
    BY <1>1, <2>3
  <2> QED  BY <2>5, <2>6 DEF CountsExact
<1>10. ChTypeOK'
  <2>1. /\ DOMAIN m \subseteq Slot \X (OwnId \cup PeerId)
        /\ \A e \in DOMAIN m : m[e] \in Circ \cup {Unusable}
    BY <1>7, MapTypes
  <2>2. /\ chst' \in [Slot -> {"none", "opening", "open", "closing", "closed"}]
        /\ chhop' \in [Slot -> Hop \cup {NoHop}]
    BY <1>1, ChParts
  <2>3. destroyQ' \in [Slot -> Seq(OwnId \cup PeerId)]
    BY <1>1, ChParts DEF Ids
  <2>4. /\ beenOpen' \in [Slot -> BOOLEAN] /\ badForNew' \in [Slot -> BOOLEAN]
        /\ canon' \in [Slot -> BOOLEAN] /\ obuf' \in [Slot -> BOOLEAN]
    BY <1>1 DEF ChInv, ChTypeOK
  <2> QED  BY <1>1, <1>9, <2>1, <2>2, <2>3, <2>4 DEF ChInv, ChTypeOK
<1>11. IdMapExact'
  <2>1. {<<chhop'[d].dig, d>> : d \in {s \in Slot : chst'[s] \in {"opening", "open"}}}
          = {<<chhop[d].dig, d>> : d \in {s \in Slot : chst[s] \in {"opening", "open"}}}
    BY <1>1, <1>3
  <2> QED  BY <1>1, <2>1 DEF ChInv, IdMapExact
<1> QED  BY <1>1, <1>7, <1>8, <1>9, <1>10, <1>11 DEF ChInv

-----------------------------------------------------------------------------
(* Circuits get a channel *)

\* Distinct free IDs for some of the circuits of J, 0 for the others.
Choice(ids, ch, J) ==
    /\ ids \in [J -> FreeIds(ch) \cup {0}]
    /\ \A j, k \in J : j # k /\ ids[j] # 0 => ids[j] # ids[k]

\* Setting up the circuits that waited keeps maps, queues and counts.
LEMMA DeliverOK ==
  ASSUME ChInv, NEW ch \in Slot, NEW J \in SUBSET Circ,
         \A k \in J : cst[k] # "live", NEW ids, Choice(ids, ch, J),
         Deliver(ch, J, ids), destroyQ' = destroyQ, chst[ch] # "closed",
         \A d \in Slot : chst'[d] = IF d = ch THEN "open" ELSE chst[d]
  PROVE  /\ MapOK(circMap', chst', cst', nchan', nid')
         /\ QueuesOK(destroyQ', circMap') /\ CountsExact'
         /\ nCirc' \in [Slot -> 0 .. UInt - 1]
         /\ cst' \in [Circ -> {"none", "wait", "live"}]
         /\ chop' \in [Circ -> Hop \cup {NoHop}]
         /\ nchan' \in [Circ -> Slot \cup {NoSlot}]
         /\ nid' \in [Circ -> OwnId \cup {0}]
<1> DEFINE ok == {k \in J : ids[k] # 0}
           new == {<<ch, ids[k]>> : k \in ok}
           m == [e \in DOMAIN circMap \cup new |->
                   IF e \in DOMAIN circMap THEN circMap[e]
                   ELSE CHOOSE k \in ok : ids[k] = e[2]]
<1>1. /\ cst' = [k \in Circ |-> IF k \in ok THEN "live"
                                ELSE IF k \in J THEN "none" ELSE cst[k]]
      /\ chop' = [k \in Circ |-> IF k \in J THEN NoHop ELSE chop[k]]
      /\ nchan' = [k \in Circ |-> IF k \in ok THEN ch ELSE nchan[k]]
      /\ nid' = [k \in Circ |-> IF k \in ok THEN ids[k] ELSE nid[k]]
      /\ circMap' = m
      /\ nCirc' = [nCirc EXCEPT ![ch] = nCirc[ch] + Cardinality(ok)]
  BY DEF Deliver
<1>2. \A k \in ok : /\ k \in J /\ k \in Circ /\ cst[k] # "live"
                    /\ ids[k] \in OwnId /\ ids[k] \in Ids
                    /\ <<ch, ids[k]>> \notin DOMAIN circMap
  BY DEF Choice, FreeIds, InMap, Ids
<1>3. \A j, k \in ok : ids[j] = ids[k] => j = k
  BY DEF Choice
<1>4. /\ DOMAIN m = DOMAIN circMap \cup new
      /\ \A e \in DOMAIN circMap : m[e] = circMap[e]
  OBVIOUS
<1>5. ASSUME NEW k \in ok PROVE <<ch, ids[k]>> \in DOMAIN m /\ m[<<ch, ids[k]>>] = k
  <2> DEFINE e == <<ch, ids[k]>>
  <2>1. e \in new /\ e \notin DOMAIN circMap /\ e[2] = ids[k]
    BY <1>2, <1>5
  <2>2. m[e] = CHOOSE j \in ok : ids[j] = e[2]
    BY <2>1
  <2>3. (CHOOSE j \in ok : ids[j] = e[2]) = k
    BY <1>3, <1>5, <2>1
  <2> QED  BY <1>4, <2>1, <2>2, <2>3
<1>6. \A e \in DOMAIN m : e \in DOMAIN circMap \/ \E k \in ok : e = <<ch, ids[k]>>
  BY <1>4
<1> HIDE DEF ok, new, m
<1>7. /\ \A k \in ok : cst'[k] = "live" /\ nchan'[k] = ch /\ nid'[k] = ids[k]
      /\ \A k \in Circ \ ok : nchan'[k] = nchan[k] /\ nid'[k] = nid[k]
                              /\ (cst'[k] = "live" <=> cst[k] = "live")
  <2>1. \A k \in ok : cst'[k] = "live" /\ nchan'[k] = ch /\ nid'[k] = ids[k]
    BY <1>1, <1>2
  <2>2. \A k \in Circ \ ok : nchan'[k] = nchan[k] /\ nid'[k] = nid[k]
                             /\ (cst'[k] = "live" <=> cst[k] = "live")
    BY <1>1
  <2> QED  BY <2>1, <2>2
<1>8. MapOK(circMap, chst, cst, nchan, nid)
  BY ChParts
<1>9. MapOK(m, chst', cst', nchan', nid')
  <2>1. DOMAIN m \subseteq Slot \X Ids
    BY <1>2, <1>6, <1>8 DEF MapOK
  <2>2. ASSUME NEW e \in DOMAIN m PROVE EntryOK(e, m, chst', cst', nchan', nid')
    <3>1. CASE e \in DOMAIN circMap
      <4>1. /\ EntryOK(e, circMap, chst, cst, nchan, nid) /\ m[e] = circMap[e]
            /\ e \in Slot \X Ids
        BY <1>4, <1>8, <3>1 DEF MapOK
      <4>2. e[1] \in Slot
        BY <4>1
      <4>3. chst'[e[1]] # "none"
        BY <4>1, <4>2 DEF EntryOK
      <4>4. ASSUME m[e] # Unusable
            PROVE  /\ m[e] \in Circ /\ cst'[m[e]] = "live"
                   /\ e = <<nchan'[m[e]], nid'[m[e]]>>
        <5>1. PICK k : k = m[e]
          OBVIOUS
        <5>2. k \in Circ /\ cst[k] = "live" /\ e = <<nchan[k], nid[k]>>
          BY <4>1, <4>4, <5>1 DEF EntryOK
        <5>3. k \notin ok
          BY <1>2, <5>2
        <5>4. cst'[k] = "live" /\ nchan'[k] = nchan[k] /\ nid'[k] = nid[k]
          BY <1>7, <5>2, <5>3
        <5> QED  BY <5>1, <5>2, <5>4
      <4> QED  BY <4>3, <4>4 DEF EntryOK
    <3>2. ASSUME NEW k \in ok, e = <<ch, ids[k]>>
          PROVE  EntryOK(e, m, chst', cst', nchan', nid')
      <4>1. m[e] = k /\ e[1] = ch /\ k \in Circ /\ cst'[k] = "live"
            /\ e = <<nchan'[k], nid'[k]>> /\ chst'[ch] = "open"
        BY <1>2, <1>5, <1>7, <3>2
      <4> QED  BY <4>1 DEF EntryOK
    <3> QED  BY <1>6, <3>1, <3>2
  <2>3. ASSUME NEW k \in Circ PROVE CircuitOK(k, m, chst', cst', nchan', nid')
    <3>1. CASE k \in ok
      <4>1. /\ nchan'[k] = ch /\ nid'[k] = ids[k] /\ ids[k] \in OwnId
            /\ chst'[ch] = "open"
            /\ <<ch, ids[k]>> \in DOMAIN m /\ m[<<ch, ids[k]>>] = k
        BY <1>2, <1>5, <1>7, <3>1
      <4> QED  BY <4>1 DEF CircuitOK
    <3>2. CASE k \notin ok
      <4>1. nchan'[k] = nchan[k] /\ nid'[k] = nid[k] /\ (cst'[k] = "live" <=> cst[k] = "live")
        BY <1>7, <3>2
      <4>2. CircuitOK(k, circMap, chst, cst, nchan, nid)
        BY <1>8 DEF MapOK
      <4> QED  BY <1>4, <4>1, <4>2 DEF CircuitOK
    <3> QED  BY <3>1, <3>2
  <2> QED  BY <2>1, <2>2, <2>3 DEF MapOK
<1>10. QueuesOK(destroyQ', m)
  <2>1. ASSUME NEW d \in Slot, NEW i \in Ids
        PROVE  Reserved(m, d, i) <=> Reserved(circMap, d, i)
    <3>1. ASSUME Reserved(m, d, i) PROVE <<d, i>> \in DOMAIN circMap
      <4> SUFFICES ASSUME NEW k \in ok, <<d, i>> = <<ch, ids[k]>> PROVE FALSE
        BY <1>6, <3>1 DEF Reserved
      <4>1. m[<<d, i>>] = k /\ k \in Circ
        BY <1>2, <1>5
      <4> QED  BY <3>1, <4>1, ChParts DEF Reserved
    <3> QED  BY <1>4, <3>1 DEF Reserved
  <2> QED  BY <2>1, QueuesLeft
<1>11. CountsExact' /\ nCirc' \in [Slot -> 0 .. UInt - 1]
  <2>0. nCirc \in [Slot -> Nat]
    BY ChParts
  <2>1. ASSUME NEW d \in Slot, chst[d] # "closed"
        PROVE  nCirc'[d] = Cardinality(OnChan(d)')
    <3>1. nCirc[d] = Cardinality(OnChan(d))
      BY <2>1 DEF ChInv, CountsExact
    <3>2. CASE d = ch
      <4>1. OnChan(d)' = OnChan(d) \cup ok
        BY <1>2, <1>7, <3>2 DEF OnChan
      <4>2. PICK S : S = OnChan(d)
        OBVIOUS
      <4>3. S \in SUBSET Circ /\ ok \in SUBSET Circ /\ S \cap ok = {}
        BY <1>2, <4>2 DEF OnChan
      <4>4. Cardinality(S \cup ok) = Cardinality(S) + Cardinality(ok)
        <5>1. /\ IsFiniteSet(S) /\ IsFiniteSet(ok) /\ Cardinality({}) = 0
              /\ Cardinality(S) \in Nat /\ Cardinality(ok) \in Nat
          BY <4>3, OnChanFinite, FS_CardinalityType, FS_EmptySet
        <5>2. Cardinality(S \cup ok)
                = Cardinality(S) + Cardinality(ok) - Cardinality(S \cap ok)
          BY <5>1, FS_Union
        <5>3. Cardinality(S \cap ok) = 0
          BY ONLY <4>3, <5>1
        <5>4. PICK a, b, c : a = Cardinality(S) /\ b = Cardinality(ok)
                               /\ c = Cardinality(S \cap ok)
          OBVIOUS
        <5>5. a \in Nat /\ b \in Nat /\ c = 0
          BY ONLY <5>1, <5>3, <5>4
        <5>6. a + b - c = a + b
          BY ONLY <5>5
        <5> QED  BY ONLY <5>2, <5>4, <5>6
      <4>5. nCirc'[d] = nCirc[d] + Cardinality(ok)
        BY <1>1, <2>0, <3>2
      <4> QED  BY <3>1, <4>1, <4>2, <4>4, <4>5
    <3>3. CASE d # ch
      <4>1. OnChan(d)' = OnChan(d)
        <5>1. \A k \in ok : cst[k] # "live" /\ nchan'[k] # d
          BY <1>2, <1>7, <3>3
        <5>2. \A k \in Circ : cst'[k] = "live" /\ nchan'[k] = d
                                <=> cst[k] = "live" /\ nchan[k] = d
          BY <1>7, <5>1
        <5> QED  BY <5>2 DEF OnChan
      <4>2. nCirc'[d] = nCirc[d]
        BY <1>1, <2>0, <3>3
      <4> QED  BY <3>1, <4>1, <4>2
    <3> QED  BY <3>2, <3>3
  <2>2. nCirc' = [d \in Slot |-> nCirc'[d]]
    BY <1>1, <2>0
  <2>3. ASSUME NEW d \in Slot, chst[d] = "closed"
        PROVE  chst'[d] = "closed" /\ nCirc'[d] \in 0 .. UInt - 1
    <3>1. d # ch /\ nCirc'[d] = nCirc[d]
      BY <1>1, <2>0, <2>3
    <3> QED  BY <2>3, <3>1 DEF ChInv, ChTypeOK
  <2> QED  BY <2>1, <2>2, <2>3, CountsFollow
<1>12. /\ cst' \in [Circ -> {"none", "wait", "live"}]
       /\ chop' \in [Circ -> Hop \cup {NoHop}]
  BY <1>1, ChParts
<1>13. nchan' \in [Circ -> Slot \cup {NoSlot}] /\ nid' \in [Circ -> OwnId \cup {0}]
  BY <1>1, <1>2, ChParts
<1> QED  BY <1>1, <1>9, <1>10, <1>11, <1>12, <1>13

\* FirstHopReady keeps the invariant.
LEMMA FirstHopReadyStep ==
  ASSUME ChInv, NEW k \in Circ, NEW hop \in Hop, NEW ch \in Slot,
         FirstHopReady(k, hop, ch)
  PROVE  ChInv'
<1>1. /\ cst[k] = "none" /\ chst[ch] = "open"
      /\ UNCHANGED <<chst, chhop, idMap, beenOpen, badForNew, canon, obuf, destroyQ>>
  BY DEF FirstHopReady, Usable
<1>2. PICK ids \in IdChoices(ch, {k}) : Deliver(ch, {k}, ids)
  BY DEF FirstHopReady
<1>3. Choice(ids, ch, {k})
  BY DEF IdChoices, Choice
<1>4. {k} \in SUBSET Circ /\ \A j \in {k} : cst[j] # "live"
  BY <1>1
<1>5. \A d \in Slot : chst'[d] = IF d = ch THEN "open" ELSE chst[d]
  BY <1>1
<1>6. /\ MapOK(circMap', chst', cst', nchan', nid')
      /\ QueuesOK(destroyQ', circMap') /\ CountsExact'
      /\ nCirc' \in [Slot -> 0 .. UInt - 1]
      /\ cst' \in [Circ -> {"none", "wait", "live"}]
      /\ chop' \in [Circ -> Hop \cup {NoHop}]
      /\ nchan' \in [Circ -> Slot \cup {NoSlot}]
      /\ nid' \in [Circ -> OwnId \cup {0}]
  BY <1>1, <1>2, <1>3, <1>4, <1>5, DeliverOK
<1>7. ChTypeOK'
  <2>1. /\ DOMAIN circMap' \subseteq Slot \X (OwnId \cup PeerId)
        /\ \A e \in DOMAIN circMap' : circMap'[e] \in Circ \cup {Unusable}
    BY <1>6, MapTypes
  <2> QED  BY <1>1, <1>6, <2>1 DEF ChInv, ChTypeOK
<1>8. IdMapExact'
  BY <1>1 DEF ChInv, IdMapExact
<1> QED  BY <1>6, <1>7, <1>8 DEF ChInv

\* ChannelOpens keeps the invariant.
LEMMA ChannelOpensStep ==
  ASSUME ChInv, NEW ch \in Slot, NEW isCanon \in BOOLEAN, NEW refused \in BOOLEAN,
         ChannelOpens(ch, isCanon, refused)
  PROVE  ChInv'
<1> DEFINE J == WaitingFor(ch)
<1>1. /\ chst[ch] = "opening" /\ chst' = [chst EXCEPT ![ch] = "open"]
      /\ beenOpen' = [beenOpen EXCEPT ![ch] = TRUE]
      /\ canon' = [canon EXCEPT ![ch] = isCanon]
      /\ UNCHANGED <<chhop, idMap, badForNew, obuf, destroyQ>>
  BY DEF ChannelOpens
<1>2. J \in SUBSET Circ /\ \A k \in J : cst[k] # "live"
  BY DEF WaitingFor
<1>3. \E ids : Choice(ids, ch, J) /\ Deliver(ch, J, ids)
  <2>1. CASE refused
    <3> DEFINE zero == [k \in J |-> 0]
    <3>1. Deliver(ch, J, zero)
      BY <2>1 DEF ChannelOpens
    <3>2. Choice(zero, ch, J)
      BY DEF Choice
    <3> HIDE DEF zero
    <3> QED  BY <3>1, <3>2
  <2>2. CASE ~ refused
    BY <2>2 DEF ChannelOpens, IdChoices, Choice
  <2> QED  BY <2>1, <2>2
<1>4. PICK ids : Choice(ids, ch, J) /\ Deliver(ch, J, ids)
  BY <1>3
<1> HIDE DEF J
<1>5. \A d \in Slot : chst'[d] = IF d = ch THEN "open" ELSE chst[d]
  BY <1>1, ChParts
<1>6. /\ MapOK(circMap', chst', cst', nchan', nid')
      /\ QueuesOK(destroyQ', circMap') /\ CountsExact'
      /\ nCirc' \in [Slot -> 0 .. UInt - 1]
      /\ cst' \in [Circ -> {"none", "wait", "live"}]
      /\ chop' \in [Circ -> Hop \cup {NoHop}]
      /\ nchan' \in [Circ -> Slot \cup {NoSlot}]
      /\ nid' \in [Circ -> OwnId \cup {0}]
  BY <1>1, <1>2, <1>4, <1>5, DeliverOK
<1>7. ChTypeOK'
  <2>1. /\ DOMAIN circMap' \subseteq Slot \X (OwnId \cup PeerId)
        /\ \A e \in DOMAIN circMap' : circMap'[e] \in Circ \cup {Unusable}
    BY <1>6, MapTypes
  <2>2. beenOpen' \in [Slot -> BOOLEAN] /\ canon' \in [Slot -> BOOLEAN]
    BY <1>1, Zenon DEF ChInv, ChTypeOK
  <2>3. chst' \in [Slot -> {"none", "opening", "open", "closing", "closed"}]
    BY <1>1, ChParts
  <2> QED  BY <1>1, <1>6, <2>1, <2>2, <2>3 DEF ChInv, ChTypeOK
<1>8. IdMapExact'
  <2>1. {s \in Slot : chst'[s] \in {"opening", "open"}}
          = {s \in Slot : chst[s] \in {"opening", "open"}}
    BY <1>1, <1>5
  <2> QED  BY <1>1, <2>1 DEF ChInv, IdMapExact
<1> QED  BY <1>6, <1>7, <1>8 DEF ChInv

-----------------------------------------------------------------------------
(* The invariant, and what follows from it *)

\* The channels start in the invariant.
LEMMA ChInitInv ==
  ASSUME ChInit PROVE ChInv
<1>1. /\ chst = [ch \in Slot |-> "none"] /\ chhop = [ch \in Slot |-> NoHop]
      /\ idMap = {} /\ beenOpen = [ch \in Slot |-> FALSE]
      /\ badForNew = [ch \in Slot |-> FALSE] /\ canon = [ch \in Slot |-> FALSE]
      /\ nCirc = [ch \in Slot |-> 0] /\ obuf = [ch \in Slot |-> FALSE]
      /\ destroyQ = [ch \in Slot |-> << >>] /\ circMap = << >>
      /\ cst = [k \in Circ |-> "none"] /\ chop = [k \in Circ |-> NoHop]
      /\ nchan = [k \in Circ |-> NoSlot] /\ nid = [k \in Circ |-> 0]
  BY DEF ChInit
<1>2. DOMAIN circMap = {}
  BY <1>1
<1>3. MapOK(circMap, chst, cst, nchan, nid)
  BY <1>1, <1>2 DEF MapOK, CircuitOK
<1>4. CountsExact
  <2>1. \A ch \in Slot : OnChan(ch) = {}
    BY <1>1 DEF OnChan
  <2> QED  BY <1>1, <2>1, FS_EmptySet DEF CountsExact
<1>5. QueuesOK(destroyQ, circMap)
  <2>1. << >> \in Seq(Ids) /\ IsInjective(<< >>) /\ ToSet(<< >>) = {}
    BY DEF IsInjective, ToSet
  <2> QED  BY <1>1, <1>2, <2>1 DEF QueuesOK, QueueOK, Reserved
<1>6. IdMapExact
  BY <1>1 DEF IdMapExact
<1>7. ChTypeOK
  <2>1. Cardinality(Circ) \in Nat
    BY ChanAssumption, FS_CardinalityType
  <2>2. nCirc \in [Slot -> 0 .. UInt - 1] /\ nid \in [Circ -> OwnId \cup {0}]
    BY <1>1, <2>1, ChanAssumption
  <2>3. /\ beenOpen \in [Slot -> BOOLEAN] /\ badForNew \in [Slot -> BOOLEAN]
        /\ canon \in [Slot -> BOOLEAN] /\ obuf \in [Slot -> BOOLEAN]
    BY <1>1
  <2>4. destroyQ \in [Slot -> Seq(OwnId \cup PeerId)]
    BY <1>1
  <2>5. /\ chst \in [Slot -> {"none", "opening", "open", "closing", "closed"}]
        /\ chhop \in [Slot -> Hop \cup {NoHop}] /\ chop \in [Circ -> Hop \cup {NoHop}]
        /\ cst \in [Circ -> {"none", "wait", "live"}]
        /\ nchan \in [Circ -> Slot \cup {NoSlot}]
    BY <1>1
  <2> QED  BY <1>1, <1>2, <2>2, <2>3, <2>4, <2>5 DEF ChTypeOK
<1> QED  BY <1>3, <1>4, <1>5, <1>6, <1>7 DEF ChInv

\* Every step of the channels keeps the invariant.
LEMMA ChStep ==
  ASSUME ChInv, [ChNext]_chanVars
  PROVE  ChInv'
<1>1. ASSUME NEW ch \in Slot, ChDue(ch) \/ Breaks(ch) PROVE ChInv'
  BY <1>1, StartClosingStep, ConnGoneStep, CleanUpStep DEF ChDue, Breaks, Housekeeping
<1>2. CASE ChNext
  BY <1>1, <1>2, FirstHopWaitStep, FirstHopReadyStep, FirstHopLaunchStep,
     CloseCircuitStep, PeerDestroyStep, PeerCreateStep, WriteDestroyStep,
     BufferStep, ChannelOpensStep DEF ChNext
<1>3. CASE UNCHANGED chanVars
  <2>1. UNCHANGED <<chst, chhop, idMap, beenOpen, badForNew, canon, nCirc, obuf,
                    destroyQ, circMap, cst, chop, nchan, nid>>
    BY <1>3 DEF chanVars
  <2>2. /\ MapOK(circMap', chst', cst', nchan', nid') /\ CountsExact'
        /\ QueuesOK(destroyQ', circMap')
    BY <2>1, TablesSame
  <2>3. ChTypeOK' /\ IdMapExact'
    BY <2>1 DEF ChInv, ChTypeOK, IdMapExact
  <2> QED  BY <2>2, <2>3 DEF ChInv
<1> QED  BY <1>2, <1>3

\* The inductive invariant: the circuit map is exact in both directions.
THEOREM ChInvHolds == ChSpec => []ChInv
  BY ChInitInv, ChStep, PTL DEF ChSpec

\* The variables of the channels and circuits keep their types.
THEOREM ChannelTypes == ChSpec => []ChTypeOK
<1>1. ChInv => ChTypeOK
  BY DEF ChInv
<1> QED  BY <1>1, ChInvHolds, PTL

\* However channels open, break, close and are freed, no table entry and no
\* circuit refers to a channel that is gone, and num_n_circuits is exact until
\* the connection is gone; then it wraps, on a channel without circuits.
THEOREM TablesHoldLiveChannels == ChSpec => []NoDanglingChannel
<1>1. ChInv => NoDanglingChannel
  <2> SUFFICES ASSUME ChInv PROVE NoDanglingChannel
    OBVIOUS
  <2>1. \A e \in DOMAIN circMap : chst[e[1]] # "none"
    BY ChParts DEF MapOK, EntryOK
  <2>2. ASSUME NEW k \in Circ, cst[k] = "live"
        PROVE  /\ chst[nchan[k]] \in {"open", "closing"}
               /\ InMap(nchan[k], nid[k]) /\ circMap[<<nchan[k], nid[k]>>] = k
    BY <2>2, LiveFacts DEF InMap
  <2> QED  BY <2>1, <2>2 DEF NoDanglingChannel, ChInv, IdMapExact, CountsExact
<1> QED  BY <1>1, ChInvHolds, PTL

\* A circuit ID is reserved exactly as long as its DESTROY is queued: it does not
\* leak, and no other circuit gets it in the meantime.
THEOREM DestroyedIdsReserved == ChSpec => []ReservedWhileDestroyQueued
<1>1. ChInv => ReservedWhileDestroyQueued
  <2> SUFFICES ASSUME ChInv, NEW ch \in Slot
               PROVE  /\ IsInjective(destroyQ[ch])
                      /\ ToSet(destroyQ[ch]) =
                            {id \in OwnId \cup PeerId :
                                InMap(ch, id) /\ circMap[<<ch, id>>] = Unusable}
    BY DEF ReservedWhileDestroyQueued
  <2>1. QueueOK(destroyQ[ch], ch, circMap)
    BY ChParts
  <2>2. IsInjective(destroyQ[ch]) /\ ToSet(destroyQ[ch]) \subseteq Ids
    BY <2>1 DEF QueueOK, ToSet
  <2>3. \A id \in Ids : id \in ToSet(destroyQ[ch])
                          <=> InMap(ch, id) /\ circMap[<<ch, id>>] = Unusable
    BY <2>1 DEF QueueOK, Reserved, InMap
  <2> QED  BY <2>2, <2>3 DEF Ids
<1> QED  BY <1>1, ChInvHolds, PTL

=============================================================================
