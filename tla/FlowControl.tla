---------------------------- MODULE FlowControl ----------------------------
(***************************************************************************)
(* Window flow control of one circuit (or/relay.c), client to exit: cells  *)
(* are packaged while the circuit's and the stream's package windows last, *)
(* the other end sends SENDMEs as its deliver windows shrink, and streams  *)
(* are not read while the circuit's cell queue is too long.                *)
(*                                                                         *)
(* A unit of data is what fits one cell.  circuit_resume_edge_reading      *)
(* visits the streams in steps of its own; nothing else happens meanwhile. *)
(***************************************************************************)
EXTENDS Integers, Sequences, FiniteSets, FiniteSetsExt

CONSTANTS
    FStream,    \* the streams of the circuit: 1 .. n, in list order
    CStart,     \* CIRCWINDOW_START = CIRCWINDOW_START_MAX (1000)
    CMin,       \* CIRCWINDOW_START_MIN (100)
    CInc,       \* CIRCWINDOW_INCREMENT (100)
    SStart,     \* STREAMWINDOW_START (500)
    SInc,       \* STREAMWINDOW_INCREMENT (50)
    QHigh,      \* CELL_QUEUE_HIGHWATER_SIZE (256)
    QLow,       \* CELL_QUEUE_LOWWATER_SIZE (64)
    TooFull,    \* cells in an exit's outbuf from which it is too full
    AppData     \* bound: units of data an application has to send

ASSUME FlowAssumption ==
    /\ {CStart, CMin, CInc, SStart, SInc, QHigh, QLow, TooFull, AppData}
          \subseteq Nat
    /\ IsFiniteSet(FStream) /\ FStream = 1 .. Cardinality(FStream)
    /\ 0 < CInc /\ CInc <= CMin /\ CMin <= CStart
    /\ 0 < SInc /\ SInc <= SStart
    /\ 0 < QLow /\ QLow < QHigh

VARIABLES
    initWin,    \* the circuit's first package_window, 0 before it is open
    app,        \* per stream: data at the application's socket
    inb,        \* per stream: data in the inbuf
    reading,    \* per stream: is its read event on
    spw,        \* per stream: package_window
    cpw,        \* package_window of the last hop
    blk,        \* streams_blocked_on_n_chan
    cellq,      \* n_chan_cells: the streams of the queued cells
    fnet,       \* the cells between the client and the exit
    sdw,        \* per stream: deliver_window at the exit
    cdw,        \* deliver_window of the circuit at the exit
    xbuf,       \* per stream: cells in the exit's outbuf
    ended,      \* per stream: "no", "exit" (only the exit knows) or "yes"
    back,       \* SENDME and END cells under way to the client
    killed,     \* a window underflow or an unexpected SENDME closed the circuit
    resume      \* progress of circuit_resume_edge_reading_helper

xvars == <<fnet, sdw, cdw, xbuf>>
flowVars == <<initWin, app, inb, reading, spw, cpw, blk, cellq, xvars, ended,
              back, killed, resume>>

Cells(m, n) == [i \in 1 .. n |-> m]
CircSendmeCell == <<"circ", 0>>
StreamSendmeCell(s) == <<"stream", s>>
EndCell(s) == <<"end", s>>
NoResume == [at |-> 0, max |-> 0, per |-> 0, done |-> 0, left |-> 0]
Resuming == resume # NoResume

-----------------------------------------------------------------------------
FlowInit ==
    /\ initWin = 0
    /\ app = [s \in FStream |-> AppData]
    /\ inb = [s \in FStream |-> 0]
    /\ reading = [s \in FStream |-> FALSE]
    /\ spw = [s \in FStream |-> SStart]
    /\ cpw = 0
    /\ blk = FALSE
    /\ cellq = << >>
    /\ fnet = << >>
    /\ sdw = [s \in FStream |-> SStart]
    /\ cdw = CStart
    /\ xbuf = [s \in FStream |-> 0]
    /\ ended = [s \in FStream |-> "no"]
    /\ back = << >>
    /\ killed = FALSE
    /\ resume = NoResume

\* The circuit opens, its window the consensus parameter circwindow
\* (circuit_initial_package_window), and its streams are connected.
CircuitOpen ==
    /\ initWin = 0
    /\ initWin' \in CMin .. CStart
    /\ cpw' = initWin'
    /\ reading' = [s \in FStream |-> TRUE]
    /\ UNCHANGED <<app, inb, spw, blk, cellq, xvars, ended, back, killed,
                   resume>>

\* Mutant of Fits: the stream's window is not looked at.
FitsCircuitOnly(s, have, max) == Min({have, cpw, max})

\* How many cells connection_edge_package_raw_inbuf makes of have units.
Fits(s, have, max) == Min({have, spw[s], cpw, max})

\* The streams that are still read after n cells of s were packaged, with
\* more data than that unless n = max: an empty circuit window stops them
\* all, an empty stream window stops s; the cell that fills the queue stops
\* all, and one queued while streams are blocked stops its own stream.
ReadingAfter(s, n, max, rd) ==
    LET full == Len(cellq) + n >= QHigh
        stopAll == \/ cpw - n = 0 /\ (n < max \/ spw[s] = n)
                   \/ n > 0 /\ ~blk /\ full
        stopOne == \/ spw[s] - n = 0
                   \/ n > 0 /\ blk
    IN  [t \in FStream |-> rd[t] /\ ~stopAll /\ ~(t = s /\ stopOne)]

\* connection_edge_package_raw_inbuf for stream s with have units in its
\* inbuf, max cells at most; append_cell_to_circuit_queue for each.  rd are
\* the streams read before.
Package(s, have, max, rd) ==
    LET n == Fits(s, have, max)
    IN  /\ inb' = [inb EXCEPT ![s] = have - n]
        /\ cpw' = cpw - n
        /\ spw' = [spw EXCEPT ![s] = @ - n]
        /\ cellq' = cellq \o Cells(s, n)
        /\ blk' = (blk \/ (n > 0 /\ Len(cellq) + n >= QHigh))
        /\ reading' = ReadingAfter(s, n, max, rd)

NoMax == CStart + AppData

\* The client reads k units from the application: connection_handle_read and
\* connection_edge_process_inbuf.
ReadApp(s, k) ==
    /\ ~Resuming
    /\ reading[s]
    /\ ended[s] # "yes"
    /\ k <= app[s]
    /\ app' = [app EXCEPT ![s] = @ - k]
    /\ Package(s, inb[s] + k, NoMax, reading)
    /\ UNCHANGED <<initWin, xvars, ended, back, killed, resume>>

\* channel_flush_from_first_active_circuit sends a cell; at the low water
\* mark set_streams_blocked_on_circ has every stream read again, whatever
\* the windows are.  What is left in an inbuf is not packaged.
FlushCell ==
    LET unblock == blk /\ Len(cellq) - 1 <= QLow
    IN  /\ ~Resuming
        /\ cellq # << >>
        /\ cellq' = Tail(cellq)
        /\ fnet' = Append(fnet, Head(cellq))
        /\ blk' = (blk /\ ~unblock)
        /\ reading' = [t \in FStream |->
                         reading[t] \/ (unblock /\ ended[t] # "yes")]
        /\ UNCHANGED <<initWin, app, inb, spw, cpw, sdw, cdw, xbuf, ended,
                       back, killed, resume>>

-----------------------------------------------------------------------------
(* The exit *)

\* connection_edge_consider_sending_sendme: how many stream-level SENDMEs,
\* with deliver window w and n cells in the outbuf.
StreamSendmes(w, n) == IF n > TooFull THEN 0 ELSE (SStart - w) \div SInc

\* circuit_consider_sending_sendme with deliver window w.
CircSendmes(w) == (CStart - w) \div CInc

\* Mutant of ExitData: a cell of a stream that has ended does not count for
\* the circuit.
ExitDataUncounted ==
    LET s == Head(fnet)
        count == IF ended[s] = "no" THEN 1 ELSE 0
        c == CircSendmes(cdw - count)
        k == StreamSendmes(sdw[s] - 1, xbuf[s] + 1)
    IN  /\ ~Resuming
        /\ fnet # << >>
        /\ fnet' = Tail(fnet)
        /\ killed' = (killed \/ cdw = 0 \/ (ended[s] = "no" /\ sdw[s] = 0))
        /\ cdw' = cdw - count + c * CInc
        /\ IF ended[s] = "no"
           THEN /\ xbuf' = [xbuf EXCEPT ![s] = @ + 1]
                /\ sdw' = [sdw EXCEPT ![s] = @ - 1 + k * SInc]
                /\ back' = back \o Cells(CircSendmeCell, c)
                                \o Cells(StreamSendmeCell(s), k)
           ELSE UNCHANGED <<xbuf, sdw, back>>
        /\ UNCHANGED <<initWin, app, inb, reading, spw, cpw, blk, cellq, ended,
                       resume>>

\* A DATA cell: connection_edge_process_relay_cell.  Cells of a stream that
\* has ended are dropped, but count for the circuit.
ExitData ==
    LET s == Head(fnet)
        c == CircSendmes(cdw - 1)
        k == StreamSendmes(sdw[s] - 1, xbuf[s] + 1)
        forCirc == Cells(CircSendmeCell, c)
    IN  /\ ~Resuming
        /\ fnet # << >>
        /\ fnet' = Tail(fnet)
        /\ killed' = (killed \/ cdw = 0 \/ (ended[s] = "no" /\ sdw[s] = 0))
        /\ cdw' = cdw - 1 + c * CInc
        /\ IF ended[s] = "no"
           THEN /\ xbuf' = [xbuf EXCEPT ![s] = @ + 1]
                /\ sdw' = [sdw EXCEPT ![s] = @ - 1 + k * SInc]
                /\ back' = back \o forCirc
                                \o Cells(StreamSendmeCell(s), k)
           ELSE back' = back \o forCirc /\ UNCHANGED <<xbuf, sdw>>
        /\ UNCHANGED <<initWin, app, inb, reading, spw, cpw, blk, cellq, ended,
                       resume>>

\* Mutant of ExitFlush: no SENDME when the outbuf is no longer too full.
ExitFlushQuiet(s) ==
    /\ ~Resuming
    /\ ended[s] = "no"
    /\ xbuf[s] > 0
    /\ xbuf' = [xbuf EXCEPT ![s] = @ - 1]
    /\ UNCHANGED <<sdw, back, initWin, app, inb, reading, spw, cpw, blk, cellq,
                   fnet, cdw, ended, killed, resume>>

\* The destination takes data: connection_edge_flushed_some.
ExitFlush(s) ==
    LET k == StreamSendmes(sdw[s], xbuf[s] - 1)
    IN  /\ ~Resuming
        /\ ended[s] = "no"
        /\ xbuf[s] > 0
        /\ xbuf' = [xbuf EXCEPT ![s] = @ - 1]
        /\ sdw' = [sdw EXCEPT ![s] = @ + k * SInc]
        /\ back' = back \o Cells(StreamSendmeCell(s), k)
        /\ UNCHANGED <<initWin, app, inb, reading, spw, cpw, blk, cellq, fnet,
                       cdw, ended, killed, resume>>

\* The destination closes; an END cell is sent.
ExitEnds(s) ==
    /\ ~Resuming
    /\ initWin > 0
    /\ ended[s] = "no"
    /\ ended' = [ended EXCEPT ![s] = "exit"]
    /\ xbuf' = [xbuf EXCEPT ![s] = 0]
    /\ back' = Append(back, EndCell(s))
    /\ UNCHANGED <<initWin, app, inb, reading, spw, cpw, blk, cellq, fnet, sdw,
                   cdw, killed, resume>>

-----------------------------------------------------------------------------
(* What comes back to the client *)

\* The END cell: the stream is closed.
EndArrives(s) ==
    /\ ~Resuming
    /\ back # << >> /\ Head(back) = EndCell(s)
    /\ back' = Tail(back)
    /\ ended' = [ended EXCEPT ![s] = "yes"]
    /\ app' = [app EXCEPT ![s] = 0]
    /\ inb' = [inb EXCEPT ![s] = 0]
    /\ reading' = [reading EXCEPT ![s] = FALSE]
    /\ UNCHANGED <<initWin, spw, cpw, blk, cellq, xvars, killed, resume>>

\* A stream-level SENDME.  While streams are blocked it only enlarges the
\* window.
StreamSendme(s) ==
    LET w == spw[s] + SInc
        n == IF blk THEN 0 ELSE Min({inb[s], w, cpw})
        full == n > 0 /\ Len(cellq) + n >= QHigh
    IN  /\ ~Resuming
        /\ back # << >> /\ Head(back) = StreamSendmeCell(s)
        /\ back' = Tail(back)
        /\ inb' = [inb EXCEPT ![s] = @ - n]
        /\ cpw' = cpw - n
        /\ spw' = [spw EXCEPT ![s] = w - n]
        /\ cellq' = cellq \o Cells(s, n)
        /\ blk' = (blk \/ full)
        /\ reading' = IF blk THEN reading
                      ELSE [t \in FStream |-> /\ reading[t] \/ t = s
                                              /\ cpw - n > 0
                                              /\ ~full
                                              /\ t # s \/ w - n > 0]
        /\ UNCHANGED <<initWin, app, xvars, ended, killed, resume>>

\* The streams circuit_resume_edge_reading_helper considers.
Resumable(s) == ended[s] # "yes" /\ spw[s] > 0

\* A circuit-level SENDME: circuit_resume_edge_reading.  While streams are
\* blocked it only enlarges the window.  Otherwise reading starts, and the
\* inbufs are packaged in rounds, at most max cells in all: max comes from
\* the circuit's own package_window, which at the client is not the one that
\* is used up.
CircSendme ==
    /\ ~Resuming
    /\ back # << >> /\ Head(back) = CircSendmeCell
    /\ back' = Tail(back)
    /\ killed' = (killed \/ cpw + CInc > CStart)
    /\ cpw' = cpw + CInc
    /\ LET wanting == {s \in FStream : Resumable(s) /\ inb[s] > 0}
           max == Min({initWin, QHigh - Len(cellq)})
           n == Cardinality(wanting)
       IN  IF blk
           THEN UNCHANGED <<reading, resume>>
           ELSE /\ reading' = [s \in FStream |-> reading[s] \/ Resumable(s)]
                /\ resume' = IF n = 0 THEN NoResume
                             ELSE [NoResume EXCEPT !.at = 1, !.max = max,
                                             !.per = (max + n - 1) \div n]
    /\ UNCHANGED <<initWin, app, inb, spw, blk, cellq, xvars, ended>>

\* What connection_edge_package_raw_inbuf takes off *max_cells for n cells: it
\* returns before it has counted the cell that empties the stream's window.
Counted(s, n) == IF n > 0 /\ n = spw[s] THEN n - 1 ELSE n

\* The next stream of the round.  An empty circuit window ends it all.
ResumeStream ==
    LET s == resume.at
        n == IF Resumable(s) THEN Fits(s, inb[s], resume.per) ELSE 0
    IN  /\ Resuming
        /\ s \in FStream
        /\ IF Resumable(s)
           THEN /\ inb' = [inb EXCEPT ![s] = @ - n]
                /\ cpw' = cpw - n
                /\ spw' = [spw EXCEPT ![s] = @ - n]
                /\ cellq' = cellq \o Cells(s, n)
                /\ blk' = (blk \/ (n > 0 /\ Len(cellq) + n >= QHigh))
                /\ reading' = IF cpw = n THEN [t \in FStream |-> FALSE]
                              ELSE ReadingAfter(s, n, resume.per, reading)
           ELSE UNCHANGED <<inb, cpw, spw, cellq, blk, reading>>
        /\ resume' = IF Resumable(s) /\ cpw = n THEN NoResume
                     ELSE [resume EXCEPT
                             !.at = @ + 1,
                             !.done = @ + Counted(s, n),
                             !.left = @ + IF Resumable(s) /\ inb[s] > n
                                          THEN 1 ELSE 0]
        /\ UNCHANGED <<initWin, app, xvars, ended, back, killed>>

\* The end of a round: another one if cells were packaged, fewer than max,
\* and data is left.
ResumeRound ==
    /\ Resuming
    /\ resume.at \notin FStream
    /\ LET max == resume.max - resume.done
       IN  resume' = IF resume.done > 0 /\ max > 0 /\ resume.left > 0
                     THEN [NoResume EXCEPT !.at = 1, !.max = max,
                             !.per = (max + resume.left - 1) \div resume.left]
                     ELSE NoResume
    /\ UNCHANGED <<initWin, app, inb, reading, spw, cpw, blk, cellq, xvars,
                   ended, back, killed>>

\* The client handles the next cell that came back, to the end.
HandleBack ==
    \/ CircSendme
    \/ \E s \in FStream : EndArrives(s) \/ StreamSendme(s)
    \/ ResumeStream
    \/ ResumeRound

ReadSome(s) == \E k \in 1 .. AppData : ReadApp(s, k)

FlowNext ==
    \/ \E s \in FStream :
          \/ ReadSome(s)
          \/ ExitFlush(s)
          \/ ExitEnds(s)
    \/ CircuitOpen
    \/ FlushCell
    \/ ExitData
    \/ HandleBack

\* The event loop serves every readable socket, the scheduler every queued
\* cell, the network loses nothing, and the destination takes its data.  No
\* application or destination has to close.
FlowFairness ==
    /\ WF_flowVars(FlushCell)
    /\ WF_flowVars(ExitData)
    /\ WF_flowVars(HandleBack)
    /\ \A s \in FStream :
          /\ WF_flowVars(ReadSome(s))
          /\ WF_flowVars(ExitFlush(s))

FlowSpec == FlowInit /\ [][FlowNext]_flowVars /\ FlowFairness

-----------------------------------------------------------------------------
(* Properties *)

BackCells ==
    {CircSendmeCell} \cup {StreamSendmeCell(s) : s \in FStream}
                    \cup {EndCell(s) : s \in FStream}

\* Types of the variables.
FlowTypeOK ==
    /\ initWin \in {0} \cup CMin .. CStart
    /\ app \in [FStream -> Nat]
    /\ inb \in [FStream -> Nat]
    /\ reading \in [FStream -> BOOLEAN]
    /\ spw \in [FStream -> Int]
    /\ cpw \in Int
    /\ blk \in BOOLEAN
    /\ cellq \in Seq(FStream)
    /\ fnet \in Seq(FStream)
    /\ sdw \in [FStream -> Int]
    /\ cdw \in Int
    /\ xbuf \in [FStream -> Nat]
    /\ ended \in [FStream -> {"no", "exit", "yes"}]
    /\ back \in Seq(BackCells)
    /\ killed \in BOOLEAN
    /\ resume \in [at : Nat, max : Int, per : Nat, done : Nat, left : Nat]

\* Two correct ends never close a circuit for a protocol violation: no window
\* goes below zero and no SENDME is unexpected, also with a circwindow below
\* CIRCWINDOW_START, and after streams end with cells under way.
NeverKilled ==
    /\ ~killed
    /\ cpw >= 0 /\ cdw >= 0
    /\ \A s \in FStream : spw[s] >= 0 /\ sdw[s] >= 0

\* How often m is in the sequence q.
Count(m, q) == Cardinality({i \in DOMAIN q : q[i] = m})

\* Every cell of the circuit window is accounted for: in the window, on its
\* way, waiting to be acknowledged or in a SENDME.  Nothing leaks when a
\* stream ends, which would slow the circuit down for ever.
CircWindowConserved ==
    cpw + Len(cellq) + Len(fnet) + (CStart - cdw)
        + CInc * Count(CircSendmeCell, back) = initWin

\* What an application sends is read, or its stream ends: neither windows nor
\* a long cell queue stop a stream for ever.
AppDataRead == \A s \in FStream : initWin > 0 /\ app[s] > 0 ~> app[s] = 0
=============================================================================
