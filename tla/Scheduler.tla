----------------------------- MODULE Scheduler -----------------------------
(***************************************************************************)
(* The cell scheduler (or/scheduler.c) with what drives it: cells queued   *)
(* for a channel (relay.c), DESTROY cells (circuitmux.c), the output       *)
(* buffer of the TLS connection (channeltls.c, connection_or.c) and the    *)
(* estimate of the bytes queued (channel.c).                               *)
(*                                                                         *)
(* A channel is idle, waits for cells, waits for room in its buffer, or is *)
(* pending (has both).  The scheduler runs from one event only, which is   *)
(* activated when a channel becomes pending.  One run is a sequence of     *)
(* steps (pick a channel, write one cell, put the channel away), nothing   *)
(* else happens in between: the program has one thread.                    *)
(*                                                                         *)
(* Sizes are bytes; size_t has SizeT values and an int goes to IntMax.     *)
(***************************************************************************)
EXTENDS Integers, FiniteSets, FiniteSetsExt

CONSTANTS
    SChan,          \* channels
    CellSize,       \* get_cell_network_size (512 or 514)
    HighWater,      \* OR_CONN_HIGHWATER (32 kB)
    LowWater,       \* OR_CONN_LOWWATER (16 kB)
    SizeT,          \* values of a size_t
    IntMax,         \* INT_MAX
    MaxFlush,       \* sched_max_flush_cells, clamped to 256 by the channel
    Marks,          \* <<sched_q_low_water, sched_q_high_water>> of torrc
    Factors,        \* TLS overhead estimates (from 1.0 to 2.0)
    CellBudget,     \* bound: cells queued in all
    DestroyBudget   \* bound: DESTROY cells queued in all

NoChan == "none"

ASSUME SchedAssumption ==
    /\ LowWater \in Nat \ {0} /\ HighWater \in Nat /\ LowWater < HighWater
    /\ CellSize \in Nat \ {0}
    /\ SizeT \in Nat /\ HighWater + 2 * CellSize < SizeT
    /\ IntMax \in Nat \ {0}
    /\ MaxFlush \in Nat \ {0}
    /\ \A m \in Marks : m \in Nat \X Nat /\ 0 < m[1] /\ m[1] < m[2]
    /\ Factors \subseteq Nat
    /\ CellBudget \in Nat /\ DestroyBudget \in Nat
    /\ NoChan \notin SChan

VARIABLES
    marks,      \* the water marks in use
    life,       \* per channel: opening, open, closing
    sst,        \* per channel: scheduler_state
    pending,    \* channels_pending
    event,      \* run_sched_ev is active
    heur,       \* queue_heuristic
    qcells,     \* per channel: cells of circuits queued for it (n_cells)
    qdestroy,   \* per channel: length of its destroy_cell_queue
    lastDes,    \* per channel: last_cell_was_destroy
    outbuf,     \* per channel: bytes in the output buffer
    estim,      \* per channel: bytes_queued_for_xmit
    factor,     \* per channel: its TLS overhead estimate
    budget,     \* cells and DESTROY cells that may still be queued
    run         \* progress of scheduler_run

queues == <<qcells, qdestroy, lastDes>>
schedVars == <<marks, life, sst, pending, event, heur, queues, outbuf, estim,
               factor, budget, run>>

Idle == "idle"
WaitCells == "waiting_for_cells"
WaitWrite == "waiting_to_write"
Pending == "pending"

\* scheduler_run is not active.
NoRun == [pc |-> "off", chan |-> NoChan, n |-> 0, flushed |-> 0,
          chunk |-> 0, readd |-> {}]

-----------------------------------------------------------------------------
SchedInit ==
    /\ marks \in Marks
    /\ life = [c \in SChan |-> "opening"]
    /\ sst = [c \in SChan |-> Idle]
    /\ pending = {}
    /\ event = FALSE
    /\ heur = 0
    /\ qcells = [c \in SChan |-> 0]
    /\ qdestroy = [c \in SChan |-> 0]
    /\ lastDes = [c \in SChan |-> FALSE]
    /\ outbuf = [c \in SChan |-> 0]
    /\ estim = [c \in SChan |-> 0]
    /\ factor = [c \in SChan |-> 1]
    /\ budget = [cells |-> CellBudget, destroys |-> DestroyBudget]
    /\ run = NoRun

\* Mutant of CellsWriteable: one cell more than there is room for.
CellsWriteableOneMore(c) ==
    IF life[c] # "open" THEN 0
    ELSE (HighWater - outbuf[c]) \div CellSize + 1

\* channel_num_cells_writeable.  The subtraction is of size_t's: a buffer
\* that is over the high water mark by a cell or more has room for INT_MAX.
CellsWriteable(c) ==
    IF life[c] # "open" THEN 0
    ELSE LET room == (HighWater - outbuf[c]) % SizeT
             n == ((room + CellSize - 1) % SizeT) \div CellSize
         IN  Min({n, IntMax})

\* circuitmux_num_cells: DESTROY cells count.
NumCells(c) == qcells[c] + qdestroy[c]

\* channel_more_to_flush.
MoreToFlush(c) == NumCells(c) > 0

\* channel_update_xmit_queue_size and scheduler_adjust_queue_size: the
\* estimate follows the buffer, the heuristic follows the estimates of open
\* channels and never goes below zero.
UpdateQueueSize(c, len, fac) ==
    LET queued == len * fac
    IN  /\ estim' = [estim EXCEPT ![c] = queued]
        /\ heur' = IF life[c] # "open" THEN heur
                   ELSE Max({0, heur + queued - estim[c]})

\* Mutant of WantsWrites: a channel that was waiting to write is made
\* pending without activating the event.
WantsWritesQuiet(c) ==
    /\ sst' = [sst EXCEPT ![c] = CASE @ = WaitWrite -> Pending
                                   [] @ = Idle -> WaitCells
                                   [] OTHER -> @]
    /\ pending' = IF sst[c] = WaitWrite THEN pending \cup {c} ELSE pending
    /\ UNCHANGED event

\* scheduler_channel_wants_writes.
WantsWrites(c) ==
    /\ sst' = [sst EXCEPT ![c] = CASE @ = WaitWrite -> Pending
                                   [] @ = Idle -> WaitCells
                                   [] OTHER -> @]
    /\ pending' = IF sst[c] = WaitWrite THEN pending \cup {c} ELSE pending
    /\ event' = (event \/ sst[c] = WaitWrite)

\* scheduler_channel_has_waiting_cells.
HasWaitingCells(c) ==
    /\ sst' = [sst EXCEPT ![c] = CASE @ = WaitCells -> Pending
                                   [] @ = Idle -> WaitWrite
                                   [] OTHER -> @]
    /\ pending' = IF sst[c] = WaitCells THEN pending \cup {c} ELSE pending
    /\ event' = (event \/ sst[c] = WaitCells)

\* Mutant of ReleaseChannel: it forgets channels_pending.
ReleaseChannelKeep(c) ==
    /\ sst' = [sst EXCEPT ![c] = Idle]
    /\ UNCHANGED pending

\* scheduler_release_channel.
ReleaseChannel(c) ==
    /\ sst' = [sst EXCEPT ![c] = Idle]
    /\ pending' = pending \ {c}

\* One turn of channel_flush_from_first_active_circuit: DESTROY cells and
\* cells of circuits take turns while there are both.
PopCell(c) ==
    IF qdestroy[c] > 0 /\ (~lastDes[c] \/ qcells[c] = 0)
    THEN /\ qdestroy' = [qdestroy EXCEPT ![c] = @ - 1]
         /\ lastDes' = [lastDes EXCEPT ![c] = TRUE]
         /\ UNCHANGED qcells
    ELSE /\ qcells' = [qcells EXCEPT ![c] = @ - 1]
         /\ lastDes' = [lastDes EXCEPT ![c] = FALSE]
         /\ UNCHANGED qdestroy

\* channel_write_packed_cell on an open channel.
WriteCell(c) ==
    /\ PopCell(c)
    /\ outbuf' = [outbuf EXCEPT ![c] = @ + CellSize]
    /\ UpdateQueueSize(c, outbuf[c] + CellSize, factor[c])

-----------------------------------------------------------------------------
(* What drives the scheduler *)

\* The handshake is over: channel_tls_handle_state_change_on_orconn.  The
\* guarded count of connection_or_num_cells_writeable is positive.
OpenChannel(c) ==
    /\ run = NoRun
    /\ life[c] = "opening"
    /\ life' = [life EXCEPT ![c] = "open"]
    /\ WantsWrites(c)
    /\ UNCHANGED <<marks, heur, queues, outbuf, estim, factor, budget, run>>

\* The channel starts to close: channel_change_state.  What its circuits
\* still have queued is lost; nothing of it leaves any more.
CloseChannel(c) ==
    /\ run = NoRun
    /\ life[c] \in {"opening", "open"}
    /\ life' = [life EXCEPT ![c] = "closing"]
    /\ ReleaseChannel(c)
    /\ UNCHANGED <<marks, event, heur, queues, outbuf, estim, factor, budget,
                   run>>

\* append_cell_to_circuit_queue.  The circuits of a closing channel are
\* there until it is closed and may still queue cells.
AppendCell(c) ==
    /\ run = NoRun
    /\ life[c] \in {"open", "closing"}
    /\ budget.cells > 0
    /\ budget' = [budget EXCEPT !.cells = @ - 1]
    /\ qcells' = [qcells EXCEPT ![c] = @ + 1]
    /\ HasWaitingCells(c)
    /\ UNCHANGED <<marks, life, heur, qdestroy, lastDes, outbuf, estim, factor,
                   run>>

\* channel_send_destroy and circuitmux_append_destroy_cell: if the buffer is
\* empty one cell, this or another, is written at once.
AppendDestroy(c) ==
    /\ run = NoRun
    /\ life[c] = "open"
    /\ budget.destroys > 0
    /\ budget' = [budget EXCEPT !.destroys = @ - 1]
    /\ IF outbuf[c] > 0
       THEN /\ qdestroy' = [qdestroy EXCEPT ![c] = @ + 1]
            /\ UNCHANGED <<qcells, lastDes, outbuf, estim, heur>>
       ELSE /\ IF ~lastDes[c] \/ qcells[c] = 0
               THEN /\ lastDes' = [lastDes EXCEPT ![c] = TRUE]
                    /\ UNCHANGED <<qcells, qdestroy>>
               ELSE /\ qcells' = [qcells EXCEPT ![c] = @ - 1]
                    /\ qdestroy' = [qdestroy EXCEPT ![c] = @ + 1]
                    /\ lastDes' = [lastDes EXCEPT ![c] = FALSE]
            /\ outbuf' = [outbuf EXCEPT ![c] = CellSize]
            /\ UpdateQueueSize(c, CellSize, factor[c])
    /\ UNCHANGED <<marks, life, sst, pending, event, factor, run>>

\* The kernel takes k bytes of the buffer: connection_or_flushed_some.  The
\* ratio of bytes sent by TLS to bytes written changes with it.
Drain(c, k, fac) ==
    /\ run = NoRun
    /\ life[c] = "open"
    /\ k <= outbuf[c]
    /\ outbuf' = [outbuf EXCEPT ![c] = @ - k]
    /\ factor' = [factor EXCEPT ![c] = fac]
    /\ UpdateQueueSize(c, outbuf[c] - k, fac)
    /\ IF outbuf[c] - k < LowWater
       THEN WantsWrites(c)
       ELSE UNCHANGED <<sst, pending, event>>
    /\ UNCHANGED <<marks, life, queues, budget, run>>

\* A second passes: scheduler_update_queue_heuristic.
Age ==
    /\ run = NoRun
    /\ heur > 0
    /\ heur' = heur \div 2
    /\ UNCHANGED <<marks, life, sst, pending, event, queues, outbuf, estim,
                   factor, budget, run>>

-----------------------------------------------------------------------------
(* scheduler_evt_callback *)

\* The event fires.  At or above the low water mark nothing is done, and
\* nothing activates the event again.
RunStart ==
    /\ run = NoRun
    /\ event
    /\ event' = FALSE
    /\ run' = IF heur < marks[1] THEN [run EXCEPT !.pc = "pick"] ELSE run
    /\ UNCHANGED <<marks, life, sst, pending, heur, queues, outbuf, estim,
                   factor, budget>>

\* The next channel: any pending one, the order is the circuitmux policy's.
RunPick(c) ==
    /\ run.pc = "pick"
    /\ heur <= marks[2]
    /\ c \in pending
    /\ pending' = pending \ {c}
    /\ IF CellsWriteable(c) > 0
       THEN /\ run' = [run EXCEPT !.pc = "loop", !.chan = c, !.flushed = 0,
                                  !.n = CellsWriteable(c)]
            /\ UNCHANGED sst
       ELSE /\ sst' = [sst EXCEPT ![c] = WaitWrite]
            /\ UNCHANGED run
    /\ UNCHANGED <<marks, life, event, heur, queues, outbuf, estim, factor,
                   budget>>

\* Mutant of FlushMore: the loop leaves room for one cell.
FlushMoreOneShort ==
    /\ run.flushed < run.n - 1
    /\ heur <= marks[2]
    /\ NumCells(run.chan) > 0

\* The inner loop of scheduler_run goes on: there is room, the heuristic is
\* not over its high mark, and channel_flush_some_cells finds a cell.
FlushMore ==
    /\ run.flushed < run.n
    /\ heur <= marks[2]
    /\ NumCells(run.chan) > 0

\* Another call of channel_flush_some_cells, for chunk cells at most.
RunChunk ==
    /\ run.pc = "loop"
    /\ FlushMore
    /\ run' = [run EXCEPT !.pc = "cells",
                          !.chunk = Min({MaxFlush, run.n - run.flushed})]
    /\ UNCHANGED <<marks, life, sst, pending, event, heur, queues, outbuf,
                   estim, factor, budget>>

\* channel_flush_from_first_active_circuit writes one cell.
RunCell ==
    LET c == run.chan
    IN  /\ run.pc = "cells"
        /\ run.chunk > 0
        /\ NumCells(c) > 0
        /\ WriteCell(c)
        /\ run' = [run EXCEPT !.chunk = @ - 1, !.flushed = @ + 1]
        /\ UNCHANGED <<marks, life, sst, pending, event, factor, budget>>

\* The chunk is out, or there is nothing left to write.
RunChunkDone ==
    /\ run.pc = "cells"
    /\ run.chunk = 0 \/ NumCells(run.chan) = 0
    /\ run' = [run EXCEPT !.pc = "loop"]
    /\ UNCHANGED <<marks, life, sst, pending, event, heur, queues, outbuf,
                   estim, factor, budget>>

\* Mutant of PutAway: a channel that used up its room is put away as idle,
\* whether it has more cells or not.
PutAwayIdle(c) ==
    CASE run.flushed < run.n -> WaitCells
      [] run.flushed >= run.n /\ CellsWriteable(c) > 0 -> WaitCells
      [] OTHER -> Idle

\* Where the channel goes after the inner loop.  Fewer cells than there was
\* room for are taken to mean that it has no more, also when the loop
\* stopped at the high water mark.
PutAway(c) ==
    CASE run.flushed < run.n -> WaitCells
      [] run.flushed >= run.n /\ MoreToFlush(c) ->
            IF CellsWriteable(c) > 0 THEN Pending ELSE WaitWrite
      [] OTHER -> IF CellsWriteable(c) > 0 THEN WaitCells ELSE Idle

RunPutAway ==
    LET c == run.chan
    IN  /\ run.pc = "loop"
        /\ ~FlushMore
        /\ sst' = [sst EXCEPT ![c] = PutAway(c)]
        /\ run' = [run EXCEPT !.pc = "pick", !.chan = NoChan, !.n = 0,
                              !.flushed = 0, !.chunk = 0,
                              !.readd = IF PutAway(c) = Pending
                                        THEN @ \cup {c} ELSE @]
        /\ UNCHANGED <<marks, life, pending, event, heur, queues, outbuf,
                       estim, factor, budget>>

\* The end of the run, and scheduler_more_work.
RunEnd ==
    /\ run.pc = "pick"
    /\ heur > marks[2] \/ pending = {}
    /\ pending' = pending \cup run.readd
    /\ event' = (event \/ (heur < marks[1] /\ pending' # {}))
    /\ run' = NoRun
    /\ UNCHANGED <<marks, life, sst, heur, queues, outbuf, estim, factor,
                   budget>>

RunStep ==
    \/ RunStart
    \/ \E c \in SChan : RunPick(c)
    \/ RunChunk
    \/ RunCell
    \/ RunChunkDone
    \/ RunPutAway
    \/ RunEnd

DrainSome(c) ==
    \E k \in 1 .. HighWater + CellSize, fac \in Factors : Drain(c, k, fac)

SchedNext ==
    \/ \E c \in SChan :
          \/ OpenChannel(c)
          \/ CloseChannel(c)
          \/ AppendCell(c)
          \/ AppendDestroy(c)
          \/ DrainSome(c)
    \/ Age
    \/ RunStep

\* Libevent runs an active event in its next loop, the kernel goes on taking
\* bytes of an open connection (a connection that stalls is closed after a
\* while), and time passes.
SchedFairness ==
    /\ WF_schedVars(RunStep)
    /\ WF_schedVars(Age)
    /\ \A c \in SChan : WF_schedVars(DrainSome(c))

SchedSpec == SchedInit /\ [][SchedNext]_schedVars /\ SchedFairness

-----------------------------------------------------------------------------
(* Properties *)

\* Types of the variables.
SchedTypeOK ==
    /\ marks \in Marks
    /\ life \in [SChan -> {"opening", "open", "closing"}]
    /\ sst \in [SChan -> {Idle, WaitCells, WaitWrite, Pending}]
    /\ pending \subseteq SChan
    /\ event \in BOOLEAN
    /\ heur \in Nat
    /\ qcells \in [SChan -> Nat]
    /\ qdestroy \in [SChan -> Nat]
    /\ lastDes \in [SChan -> BOOLEAN]
    /\ outbuf \in [SChan -> Nat]
    /\ estim \in [SChan -> Nat]
    /\ factor \in [SChan -> Factors \cup {1}]
    /\ budget \in [cells : 0 .. CellBudget, destroys : 0 .. DestroyBudget]
    /\ run \in [pc : {"off", "pick", "loop", "cells"}, chan : SChan \cup {NoChan},
                n : Nat, flushed : Nat, chunk : Nat, readd : SUBSET SChan]

\* channels_pending holds exactly the channels in state PENDING that the
\* current run has not taken out, none of them closing: a channel that is
\* being freed is not on the heap.
PendingExact ==
    /\ pending = {c \in SChan : sst[c] = Pending}
                 \ (run.readd \cup {run.chan})
    /\ \A c \in pending \cup run.readd : life[c] = "open"

\* An output buffer is over its high water mark by less than a cell, so the
\* unsigned subtraction in channel_tls_num_cells_writeable_method never wraps
\* far enough to report INT_MAX cells of room.
OutbufBounded == \A c \in SChan : outbuf[c] < HighWater + CellSize

\* No lost wake-up: an open channel the scheduler holds for not writeable has
\* bytes in its buffer, whose flushing calls scheduler_channel_wants_writes,
\* and one it holds for idle has no cells of circuits either.
SchedNoLostWakeup ==
    \A c \in SChan :
        life[c] = "open" /\ run = NoRun =>
            /\ sst[c] \in {Idle, WaitWrite} => outbuf[c] > 0
            /\ sst[c] = Idle => qcells[c] = 0

\* A channel is held for one without cells, from which only the arrival of a
\* cell wakes it, while it has cells of circuits, for one reason only: the run
\* stopped above the high water mark.
ParkedWithoutCells ==
    [][\A c \in SChan :
          sst[c] # WaitCells /\ sst'[c] = WaitCells /\ qcells'[c] > 0
              => heur > marks[2]]_schedVars

\* The scheduler works off the queues as long as no run is refused at the low
\* water mark or broken off above the high one: every cell of a channel is
\* written, or the channel starts to close.
CellsFlushed ==
    /\ [](event /\ run = NoRun => heur < marks[1])
    /\ [](heur <= marks[2])
    => \A c \in SChan :
            qcells[c] > 0 ~> (qcells[c] = 0 \/ life[c] = "closing")

\* scheduler_run "is called from other scheduler functions whenever a state
\* transition occurs, and periodically from the main event loop"
\* (scheduler.c:104): a pending channel gets its turn.
PendingServed == \A c \in SChan : c \in pending ~> c \notin pending
=============================================================================
