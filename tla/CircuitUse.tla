----------------------------- MODULE CircuitUse -----------------------------
(***************************************************************************)
(* Which circuit carries which application stream: circuituse.c and the    *)
(* parts of connection_edge.c, circuitlist.c and circuitbuild.c it drives. *)
(*                                                                         *)
(* Tor is one thread.  Its main loop runs one handler at a time: a network *)
(* or SOCKS event, or the once-a-second callback run_scheduled_events.     *)
(* `agenda' holds the calls the current handler still has to make, so no   *)
(* event happens between them.                                             *)
(*                                                                         *)
(* Modelled: exit circuits of purpose C_GENERAL and those under a path     *)
(* bias probe (PATH_BIAS_TESTING).  They have four hops, so their build    *)
(* times are not measured (circuit_timeout_want_to_count_circ asks for     *)
(* three) and C_MEASURE_TIMEOUT is never entered.  Every stream comes from *)
(* one listener with the default isolation flags, so the isolation fields  *)
(* that can differ are the destination's.  Exit policies accept every      *)
(* stream, and directory information is complete.  Hidden service and      *)
(* one-hop circuits are left out, and so is the controller.                *)
(*                                                                         *)
(* Times are ages in seconds, saturating above every timeout they are      *)
(* compared with, so the clock can run for ever.                           *)
(***************************************************************************)
EXTENDS Naturals, Sequences, FiniteSets

CONSTANTS
  Circ,            \* slots for circuits: a bound on how many exist at once
  Stream,          \* slots for application streams
  AS,              \* what compare_as tells destinations apart by
  None,            \* no AS, no circuit
  MaxPending,      \* MaxClientCircuitsPending
  MaxUnused,       \* MAX_UNUSED_OPEN_CIRCUITS
  MaxFailures,     \* MAX_CIRCUIT_FAILURES
  FailureBound,    \* n_circuit_failures saturates here
  MaxDirtiness,    \* MaxCircuitDirtiness
  IdleTimeout,     \* CircuitIdleTimeout
  FourHopTimeout,  \* get_circuit_build_timeout_ms * (10/6.0) + 1000
  CloseTime,       \* get_circuit_build_close_time_ms
  SocksTimeout,    \* SocksTimeout
  RetryTimeout,    \* compute_retry_timeout
  NewCircuitPeriod,
  LogWritable      \* whether write_circuit_info can open its file

ASSUME UseAssumption ==
  /\ None \notin AS \cup Circ /\ IsFiniteSet(Circ)
  /\ {MaxPending, MaxUnused, MaxFailures, FailureBound, MaxDirtiness,
      IdleTimeout, FourHopTimeout, CloseTime, SocksTimeout, RetryTimeout,
      NewCircuitPeriod} \subseteq Nat
  /\ LogWritable \in BOOLEAN

VARIABLES
  circ,            \* the global circuit list
  stream,          \* the AP connections
  failures,        \* n_circuit_failures
  failedLast,      \* did_circs_fail_last_period
  resetIn,         \* seconds until time_to_expire_and_reset has passed
  agenda,          \* calls the running handler still has to make
  crashed          \* a NULL circuit was dereferenced

vars == <<circ, stream, failures, failedLast, resetIn, agenda, crashed>>

-----------------------------------------------------------------------------
Larger(a, b) == IF a >= b THEN a ELSE b
Smaller(a, b) == IF a <= b THEN a ELSE b

AgeCap == Larger(FourHopTimeout, Larger(CloseTime, IdleTimeout + 1))
DirtyCap == MaxDirtiness + 1

\* timestamp_dirty as an age; a clean circuit (timestamp_dirty = 0) has none.
Clean == DirtyCap + 1

Circuits ==
  [state : {"free", "chan_wait", "building", "open", "marked"},
   purpose : {"general", "testing"},
   dest : AS \cup {None},     \* dest_address; None: no isolation values set
   used : BOOLEAN,            \* isolation_any_streams_attached
   path : {"unused", "attempted", "succeeded"},  \* path_state
   age : 0..AgeCap,           \* since timestamp_began
   dirty : 0..Clean,          \* since timestamp_dirty
   unusable : BOOLEAN,        \* unusable_for_new_conns
   relaxed : BOOLEAN]         \* relaxed_timeout

Streams ==
  [state : {"none", "wait", "connect", "open"},
   dest : AS \cup {None},     \* the AS of the destination
   on : Circ \cup {None},     \* on_circuit
   age : 0..SocksTimeout,     \* since timestamp_created
   idle : 0..RetryTimeout]    \* since timestamp_lastread

NoCircuit ==
  [state |-> "free", purpose |-> "general", dest |-> None,
   used |-> FALSE, path |-> "unused", age |-> 0, dirty |-> Clean,
   unusable |-> FALSE, relaxed |-> FALSE]

NoStream ==
  [state |-> "none", dest |-> None, on |-> None, age |-> 0, idle |-> 0]

Init ==
  /\ circ = [c \in Circ |-> NoCircuit]
  /\ stream = [s \in Stream |-> NoStream]
  /\ failures = 0 /\ failedLast = FALSE /\ resetIn = 0
  /\ agenda = << >> /\ crashed = FALSE

-----------------------------------------------------------------------------
(* Reading the state. *)

Live(c) == circ[c].state \notin {"free", "marked"}
Building(c) == circ[c].state \in {"chan_wait", "building"}
On(c) == {s \in Stream : stream[s].on = c}             \* p_streams
TooDirty(c) == circ[c].dirty # Clean /\ circ[c].dirty >= MaxDirtiness

\* count_pending_general_client_circuits
Pending == {c \in Circ : Building(c) /\ circ[c].purpose = "general"}

\* circuit_is_acceptable, after the AS test of circuit_get_best
Acceptable(c, s, must_be_open) ==
  /\ circ[c].dest \in {None, stream[s].dest}
  /\ IF must_be_open THEN circ[c].state = "open" ELSE Live(c)
  /\ circ[c].purpose = "general"
  /\ ~ TooDirty(c)
  /\ ~ circ[c].unusable

\* circuit_is_better: a circuit whose timeout was relaxed is worse, then one
\* without isolation values is; the number of fields that differ is not
\* modelled, so any of the equally good ones may win.
Better(a, b) ==
  \/ ~ circ[a].relaxed /\ circ[b].relaxed
  \/ /\ circ[a].relaxed = circ[b].relaxed
     /\ circ[a].dest # None /\ circ[b].dest = None

Best(s, must_be_open) ==
  LET ok == {c \in Circ : Acceptable(c, s, must_be_open)}
  IN {c \in ok : \A d \in ok : ~ Better(d, c)}

-----------------------------------------------------------------------------
(* What the handlers do to a circuit, a stream or the agenda. *)

Failed(n) == Smaller(failures + n, FailureBound)  \* circuit_increment_failure_count

\* mark_circuit_unusable_for_new_conns moves timestamp_dirty back, so the
\* circuit is already as dirty as it may get.
Unusable(r) ==
  [r EXCEPT !.dirty = IF @ = Clean THEN MaxDirtiness
                      ELSE Smaller(@ + MaxDirtiness, DirtyCap),
            !.unusable = TRUE]

\* circuit_mark_for_close_; its streams end in connection_edge_destroy.
Marked == [NoCircuit EXCEPT !.state = "marked"]
\* Mutant of Dropped: the streams of a marked circuit are not told.
DroppedLater(gone) == stream

Dropped(gone) == [s \in Stream |-> IF stream[s].on \in gone THEN NoStream
                                   ELSE stream[s]]

\* The failures circuit_mark_for_close_ counts when it marks these circuits:
\* circuit_build_failed for each one of purpose C_GENERAL that never opened.
BuildFailures(gone) == Cardinality(gone \cap Pending)

\* connection_edge_update_circuit_isolation
Isolated(r, s) == IF r.dest = None THEN [r EXCEPT !.dest = stream[s].dest] ELSE r

Call(op, arg) == [op |-> op, arg |-> arg]

\* A loop over a set of streams; over none of them it is no step.
Loop(op, set, rest) == IF set = {} THEN rest ELSE <<Call(op, set)>> \o rest

Waiting == {s \in Stream : stream[s].state = "wait"}
AttachPending(rest) == Loop("attach", Waiting, rest)

-----------------------------------------------------------------------------
(* as_circuit_launch_by_extend_info and circuit_establish_circuit.         *)

\* Mutant of Throttled: one launch too many is let through.
ThrottledLate == failedLast /\ failures > MaxFailures + 1

Throttled == failedLast /\ failures > MaxFailures

Launched(st) == [NoCircuit EXCEPT !.state = st]

\* circuit_establish_circuit marks the new circuit for close and returns NULL
EstablishFails == ~ Throttled /\ failures' = Failed(1)

\* The first hop's channel is open, or circuit_handle_first_hop waits for it.
Establishes(c, st) ==
  /\ ~ Throttled
  /\ circ[c].state = "free" /\ st \in {"chan_wait", "building"}

-----------------------------------------------------------------------------
(* connection_ap_attach_pending: each waiting stream in turn goes through  *)
(* connection_ap_handshake_attach_circuit.                                 *)

Running(op) == agenda # << >> /\ Head(agenda).op = op /\ ~ crashed
Rest == Tail(agenda)

\* The call for s is over; the loop goes on with the other streams.
After(s) == Loop(Head(agenda).op, Head(agenda).arg \ {s}, Rest)

Attaching(s) ==
  /\ Running("attach") /\ s \in Head(agenda).arg
  /\ agenda' = After(s)

\* conn_age >= SocksTimeout: give up, the caller closes the stream.
GiveUp(s) ==
  /\ Attaching(s) /\ stream[s].age >= SocksTimeout
  /\ stream' = [stream EXCEPT ![s] = NoStream]
  /\ UNCHANGED <<circ, failures, failedLast, resetIn, crashed>>

Seeking(s) == Attaching(s) /\ stream[s].age < SocksTimeout

\* connection_ap_handshake_attach_chosen_circuit and link_apconn_to_circ
Carrying(r, s) ==
  [Isolated(r, s) EXCEPT !.used = TRUE,
                         !.dirty = IF @ = Clean THEN 0 ELSE @,
                         !.path = IF @ = "unused" THEN "attempted" ELSE @]

Attach(s) ==
  /\ Seeking(s)
  /\ \E c \in Best(s, TRUE) :
       /\ circ' = [circ EXCEPT ![c] = Carrying(@, s)]
       /\ stream' = [stream EXCEPT ![s].state = "connect", ![s].on = c,
                                   ![s].idle = 0]
  /\ UNCHANGED <<failures, failedLast, resetIn, crashed>>

\* connection_ap_handshake_send_begin finds no stream ID: the stream is closed
\* and the circuit takes no more of them.
AttachNoStreamId(s) ==
  /\ Seeking(s)
  /\ \E c \in Best(s, TRUE) :
       /\ On(c) # {}
       /\ circ' = [circ EXCEPT ![c] = Unusable(Carrying(@, s))]
       /\ stream' = [stream EXCEPT ![s] = NoStream]
  /\ UNCHANGED <<failures, failedLast, resetIn, crashed>>

\* One is on the way: reserve it by its isolation fields.
JoinPending(s) ==
  /\ Seeking(s) /\ Best(s, TRUE) = {}
  /\ \E c \in Best(s, FALSE) : circ' = [circ EXCEPT ![c] = Isolated(@, s)]
  /\ UNCHANGED <<stream, failures, failedLast, resetIn, crashed>>

\* Nothing usable, and none on the way.
NeedsLaunch(s) ==
  Seeking(s) /\ Best(s, TRUE) = {} /\ Best(s, FALSE) = {}

WaitForPending(s) ==
  /\ NeedsLaunch(s) /\ Cardinality(Pending) >= MaxPending
  /\ UNCHANGED <<circ, stream, failures, failedLast, resetIn, crashed>>

MayLaunch(s) == NeedsLaunch(s) /\ Cardinality(Pending) < MaxPending

LaunchForStream(s) ==
  /\ MayLaunch(s)
  /\ \E c \in Circ, st \in {"chan_wait", "building"} :
       /\ Establishes(c, st)
       /\ circ' = [circ EXCEPT ![c] = Isolated(Launched(st), s)]
  /\ UNCHANGED <<stream, failures, failedLast, resetIn, crashed>>

\* The launch returned NULL.  The stream is to be delayed, but the trailing
\* write_circuit_info follows the NULL circuit once it has opened its file.
LaunchReturnsNull(s) ==
  /\ MayLaunch(s)
  /\ \/ Throttled /\ UNCHANGED failures
     \/ EstablishFails
  /\ crashed' = LogWritable
  /\ UNCHANGED <<circ, stream, failedLast, resetIn>>

AttachStream(s) ==
  \/ GiveUp(s) \/ Attach(s) \/ AttachNoStreamId(s)
  \/ JoinPending(s) \/ WaitForPending(s) \/ LaunchForStream(s)
  \/ LaunchReturnsNull(s)

\* Mutant of TryClearing: a circuit that carries streams is cleared as well.
TryClearingUsed ==
  /\ Running("clear")
  /\ LET c == Head(agenda).arg
     IN IF circ[c].state = "open" /\ circ[c].dest # None
        THEN /\ circ' = [circ EXCEPT ![c].dest = None]
             /\ agenda' = AttachPending(Rest)
        ELSE circ' = circ /\ agenda' = Rest
  /\ UNCHANGED <<stream, failures, failedLast, resetIn, crashed>>

\* circuit_try_clearing_isolation_state, and the second connection_ap_attach_
\* pending of circuit_try_attaching_streams when it cleared something.
TryClearing ==
  /\ Running("clear")
  /\ LET c == Head(agenda).arg
         clears == /\ circ[c].state = "open" /\ circ[c].dest # None
                   /\ ~ circ[c].used
     IN IF clears
        THEN /\ circ' = [circ EXCEPT ![c].dest = None]
             /\ agenda' = AttachPending(Rest)
        ELSE circ' = circ /\ agenda' = Rest
  /\ UNCHANGED <<stream, failures, failedLast, resetIn, crashed>>

-----------------------------------------------------------------------------
(* The once-a-second callback. *)

Older(a, cap) == Smaller(a + 1, cap)

\* Times that nothing reads stand still: the age of a circuit in use (a probe sets
\* it anew) and the idle time of a waiting stream.
InUse(c) == circ[c].state = "open" /\ circ[c].purpose = "general" /\ circ[c].dirty # Clean

RunScheduledEvents ==
  /\ agenda = << >> /\ ~ crashed
  /\ circ' = [c \in Circ |->
       IF ~ Live(c) THEN circ[c]
       ELSE [circ[c] EXCEPT !.age = IF InUse(c) THEN 0 ELSE Older(@, AgeCap),
                            !.dirty = IF @ = Clean THEN @ ELSE Older(@, DirtyCap)]]
  /\ stream' = [s \in Stream |->
       IF stream[s].state \notin {"wait", "connect"} THEN stream[s]
       ELSE [stream[s] EXCEPT !.age = Older(@, SocksTimeout),
                              !.idle = IF stream[s].state = "wait" THEN @
                                       ELSE Older(@, RetryTimeout)]]
  /\ resetIn' = IF resetIn = 0 THEN 0 ELSE resetIn - 1
  /\ agenda' = <<Call("expire_building", {}), Call("expire_beginning", {}),
                 Call("attach_all", {}), Call("expire_old", {}),
                 Call("predict", {}), Call("close_all_marked", {})>>
  /\ UNCHANGED <<failures, failedLast, crashed>>

\* new_route_len: three hops, and one more because circuit_establish_circuit
\* has already chosen an exit.
DefaultRouteLen == 3
DesiredPathLen == DefaultRouteLen + 1

\* circuit_expire_building.  A circuit that waits for its channel is skipped.
Started(c) == circ[c].state \in {"building", "open"}

\* A probe has until the close time, any other four-hop circuit until
\* fourhop_cutoff.
TimedOut(c) ==
  /\ Started(c)
  /\ circ[c].age >= IF circ[c].purpose = "testing" THEN CloseTime
                                                  ELSE FourHopTimeout

\* any_opened_circs counts opened circuits of the default length only.
AnyOpened == DesiredPathLen = DefaultRouteLen /\ \E c \in Circ : circ[c].state = "open"

\* Mutant of Relaxes: the age beyond which it would be closed is not looked at.
RelaxesAlways(c) == TimedOut(c) /\ ~ AnyOpened /\ circ[c].state = "building"

Relaxes(c) ==
  TimedOut(c) /\ ~ AnyOpened /\ circ[c].state = "building" /\ circ[c].age < CloseTime

\* Mutant of Victim: open circuits are all left alone.
VictimNotOpen(c) ==
  TimedOut(c) /\ ~ Relaxes(c) /\ circ[c].state = "building" /\ On(c) = {}

Victim(c) ==
  /\ TimedOut(c) /\ ~ Relaxes(c)
  /\ IF circ[c].state = "open" THEN circ[c].purpose = "testing" ELSE On(c) = {}

ExpireBuilding ==
  /\ Running("expire_building")
  /\ LET gone == {c \in Circ : Victim(c)}
     IN /\ circ' = [c \in Circ |->
             IF Relaxes(c) THEN [circ[c] EXCEPT !.relaxed = TRUE]
             ELSE IF c \in gone THEN Marked ELSE circ[c]]
        /\ stream' = Dropped(gone)
        /\ failures' = Failed(BuildFailures(gone))
  /\ agenda' = Rest
  /\ UNCHANGED <<failedLast, resetIn, crashed>>

\* Mutant of Detached: a retry starts the stream's life over.
DetachedReborn(s) ==
  [stream EXCEPT ![s].state = "wait", ![s].on = None, ![s].idle = 0, ![s].age = 0]

\* connection_ap_detach_retriable: back to CIRCUIT_WAIT, and attach again.
Detached(s) == [stream EXCEPT ![s].state = "wait", ![s].on = None, ![s].idle = 0]
RolledBack(r) == [r EXCEPT !.path = IF @ = "succeeded" THEN "attempted" ELSE @]

\* connection_ap_expire_beginning: the streams that waited too long for a
\* circuit, or for the exit's answer, one at a time.
WaitedTooLong(s) == stream[s].state = "wait" /\ stream[s].age >= SocksTimeout
NoAnswer(s) == stream[s].state = "connect" /\ stream[s].idle >= RetryTimeout

ExpireBeginning ==
  /\ Running("expire_beginning")
  /\ agenda' = Loop("expire", {s \in Stream : WaitedTooLong(s) \/ NoAnswer(s)}, Rest)
  /\ UNCHANGED <<circ, stream, failures, failedLast, resetIn, crashed>>

ExpireWaiting(s) ==
  /\ WaitedTooLong(s)
  /\ stream' = [stream EXCEPT ![s] = NoStream]
  /\ agenda' = After(s) /\ UNCHANGED circ

RetryStream(s) ==
  /\ NoAnswer(s)
  /\ circ' = [circ EXCEPT ![stream[s].on] = RolledBack(Unusable(@))]
  /\ stream' = Detached(s)
  /\ agenda' = <<Call("attach", {s})>> \o After(s)

ExpireStream(s) ==
  /\ Running("expire") /\ s \in Head(agenda).arg
  /\ ExpireWaiting(s) \/ RetryStream(s)
  /\ UNCHANGED <<failures, failedLast, resetIn, crashed>>

AttachAll ==
  /\ Running("attach_all")
  /\ agenda' = AttachPending(Rest)
  /\ UNCHANGED <<circ, stream, failures, failedLast, resetIn, crashed>>

\* circuit_expire_old_circuits_clientside marks what is dirty for too long and
\* carries nothing, or clean and idle.  A circuit whose streams all failed is
\* probed first if the probe can be sent (pathbias_check_close).
TooOld(c) ==
  /\ Live(c)
  /\ \/ circ[c].dirty = DirtyCap /\ On(c) = {} /\ circ[c].purpose # "testing"
     \/ circ[c].dirty = Clean /\ circ[c].state = "open" /\ circ[c].age > IdleTimeout

Probed(r) == [r EXCEPT !.purpose = "testing", !.age = 0, !.dirty = 0]

\* circuit_expire_old_circs_as_needed
ExpireOld ==
  /\ Running("expire_old")
  /\ IF resetIn > 0 THEN UNCHANGED <<circ, stream, failures, failedLast, resetIn>>
     ELSE /\ failedLast' = (failures > MaxFailures)
          /\ failures' = 0
          /\ resetIn' = NewCircuitPeriod + 1
          /\ \E probe \in SUBSET {c \in Circ : TooOld(c) /\ circ[c].path = "attempted"} :
               circ' = [c \in Circ |-> IF c \in probe THEN Probed(circ[c])
                                       ELSE IF TooOld(c) THEN Marked ELSE circ[c]]
          /\ UNCHANGED stream
  /\ agenda' = Rest
  /\ UNCHANGED crashed

\* Mutant of CleanCircuits: circuits still under construction are not counted.
CleanOpenCircuits ==
  {c \in Circ : /\ circ[c].state = "open" /\ circ[c].dirty = Clean
                /\ circ[c].purpose = "general" /\ ~ circ[c].unusable}

\* circuit_predict_and_launch_new.  What the port predictions and the build
\* time statistics ask for is not modelled: a circuit may be wanted or not.
CleanCircuits ==
  {c \in Circ : /\ Live(c) /\ circ[c].dirty = Clean
                /\ circ[c].purpose = "general" /\ ~ circ[c].unusable}

PredictAndLaunch ==
  /\ Running("predict")
  /\ \/ UNCHANGED <<circ, failures>>
     \/ /\ Cardinality(CleanCircuits) < MaxUnused
        /\ \/ \E c \in Circ, st \in {"chan_wait", "building"} :
                /\ Establishes(c, st)
                /\ circ' = [circ EXCEPT ![c] = Launched(st)]
                /\ UNCHANGED failures
           \/ EstablishFails /\ UNCHANGED circ
  /\ agenda' = Rest
  /\ UNCHANGED <<stream, failedLast, resetIn, crashed>>

CloseAllMarked ==
  /\ Running("close_all_marked")
  /\ circ' = [c \in Circ |-> IF circ[c].state = "marked" THEN NoCircuit ELSE circ[c]]
  /\ agenda' = Rest
  /\ UNCHANGED <<stream, failures, failedLast, resetIn, crashed>>

-----------------------------------------------------------------------------
(* Events of the network and of the applications, between handlers. *)

Idle == agenda = << >> /\ ~ crashed

\* An application asks for a connection; it is attached at once if possible.
NewStream(s, as) ==
  /\ Idle /\ stream[s].state = "none"
  /\ stream' = [stream EXCEPT ![s].state = "wait", ![s].dest = as]
  /\ agenda' = <<Call("attach", {s})>>
  /\ UNCHANGED <<circ, failures, failedLast, resetIn, crashed>>

\* circuit_n_chan_done(status 1): the create cell goes out, the clock starts.
ChannelOpens(c) ==
  /\ Idle /\ circ[c].state = "chan_wait"
  /\ circ' = [circ EXCEPT ![c].state = "building", ![c].age = 0]
  /\ UNCHANGED <<stream, failures, failedLast, resetIn, agenda, crashed>>

\* Mutant of CircuitBuilt: the reservation of the circuit is not cleared.
CircuitBuiltReserved(c) ==
  /\ Idle /\ circ[c].state = "building"
  /\ failures' = 0 /\ failedLast' = FALSE
  /\ circ' = [circ EXCEPT ![c].state = "open"]
  /\ agenda' = AttachPending(<< >>)
  /\ UNCHANGED <<stream, resetIn, crashed>>

\* circuit_send_next_onion_skin finds no further hop: the circuit is built.
CircuitBuilt(c) ==
  /\ Idle /\ circ[c].state = "building"
  /\ failures' = 0 /\ failedLast' = FALSE      \* circuit_reset_failure_count(0)
  /\ circ' = [circ EXCEPT ![c].state = "open"]
  /\ agenda' = AttachPending(<<Call("clear", c)>>)
  /\ UNCHANGED <<stream, resetIn, crashed>>

\* A DESTROY cell, a failed or closed channel: no probe is possible.
CircuitDestroyed(c) ==
  /\ Idle /\ Live(c)
  /\ failures' = Failed(BuildFailures({c}))
  /\ circ' = [circ EXCEPT ![c] = Marked]
  /\ stream' = Dropped({c})
  /\ UNCHANGED <<failedLast, resetIn, agenda, crashed>>

\* A relay cell breaks the protocol: the circuit is marked for close with its
\* channel still up, so one whose streams all failed is probed (else it is
\* closed like one destroyed), and this time its streams stay on it.
ProbedOnError(c) ==
  /\ Idle /\ circ[c].state = "open"
  /\ circ[c].purpose = "general" /\ circ[c].path = "attempted"
  /\ circ' = [circ EXCEPT ![c] = Probed(@)]
  /\ UNCHANGED <<stream, failures, failedLast, resetIn, agenda, crashed>>

\* pathbias_check_probe_response marks the circuit's use as a success.
ProbeAnswered(c) ==
  /\ Idle /\ Live(c) /\ circ[c].purpose = "testing"
  /\ circ' = [circ EXCEPT ![c] = Marked]
  /\ stream' = Dropped({c})
  /\ UNCHANGED <<failures, failedLast, resetIn, agenda, crashed>>

\* A cell for the stream comes in; a circuit under probe drops all but the
\* answer to its probe.
CellFor(s) ==
  /\ Idle /\ stream[s].state = "connect"
  /\ circ[stream[s].on].purpose = "general"

\* A CONNECTED cell.
Connected(s) ==
  /\ CellFor(s)
  /\ stream' = [stream EXCEPT ![s].state = "open", ![s].age = 0, ![s].idle = 0]
  /\ circ' = [circ EXCEPT ![stream[s].on].path = "succeeded"]
  /\ UNCHANGED <<failures, failedLast, resetIn, agenda, crashed>>

\* An END cell with a reason that connection_ap_process_end_not_open retries.
EndRetriable(s) ==
  /\ CellFor(s)
  /\ circ' = [circ EXCEPT ![stream[s].on] = RolledBack(Unusable(@))]
  /\ stream' = Detached(s)
  /\ agenda' = <<Call("attach", {s})>>
  /\ UNCHANGED <<failures, failedLast, resetIn, crashed>>

\* An END cell with another reason: the exit answered, the stream is closed.
EndFinal(s) ==
  /\ CellFor(s)
  /\ circ' = [circ EXCEPT ![stream[s].on].path = "succeeded"]
  /\ stream' = [stream EXCEPT ![s] = NoStream]
  /\ UNCHANGED <<failures, failedLast, resetIn, agenda, crashed>>

\* The application or the exit closes the stream (circuit_detach_stream).
StreamEnds(s) ==
  /\ Idle /\ stream[s].state # "none"
  /\ stream' = [stream EXCEPT ![s] = NoStream]
  /\ UNCHANGED <<circ, failures, failedLast, resetIn, agenda, crashed>>

Handler ==
  \/ \E s \in Stream : AttachStream(s) \/ ExpireStream(s)
  \/ TryClearing \/ ExpireBuilding \/ ExpireBeginning \/ AttachAll
  \/ ExpireOld \/ PredictAndLaunch \/ CloseAllMarked

Event ==
  \/ \E s \in Stream, as \in AS : NewStream(s, as)
  \/ \E s \in Stream : Connected(s) \/ EndRetriable(s) \/ EndFinal(s)
                       \/ StreamEnds(s)
  \/ \E c \in Circ : ChannelOpens(c) \/ CircuitBuilt(c) \/ CircuitDestroyed(c)
                     \/ ProbedOnError(c) \/ ProbeAnswered(c)

Next == Handler \/ Event \/ RunScheduledEvents

Spec == Init /\ [][Next]_vars

\* A handler runs to its end, and the libevent timer calls run_scheduled_events
\* every second, however many events come in between (strong fairness: events
\* keep interrupting the idle loop).  Nothing is assumed of the network.
FairSpec == Spec /\ WF_vars(Handler) /\ SF_vars(RunScheduledEvents)

-----------------------------------------------------------------------------
(* Properties *)

\* Types of the circuit and stream lists, the counters and the agenda.
TypeOK ==
  /\ circ \in [Circ -> Circuits]
  /\ stream \in [Stream -> Streams]
  /\ failures \in 0..FailureBound
  /\ failedLast \in BOOLEAN /\ crashed \in BOOLEAN
  /\ resetIn \in 0..(NewCircuitPeriod + 1)
  /\ agenda \in Seq([op : {"attach", "clear", "expire_building", "expire_beginning",
                           "expire", "attach_all", "expire_old", "predict", "close_all_marked"},
                     arg : (SUBSET Stream) \cup Circ])

\* A stream is on a circuit exactly while it waits for CONNECTED or is open, and
\* that circuit is open, dirty and barred from having its isolation cleared.
\* circuit_expire_building takes the opposite for a bug ("has timed out, yet has
\* attached streams!") and leaves such a circuit to leak.
StreamsOnOpenCircuits ==
  \A s \in Stream :
    IF stream[s].state \in {"connect", "open"}
    THEN /\ stream[s].on # None
         /\ LET r == circ[stream[s].on]
            IN r.state = "open" /\ r.used /\ r.dirty # Clean
    ELSE stream[s].on = None

\* All the streams of a circuit go to one AS: circuit_get_best compares a stream
\* with the destination the circuit remembers, which circuit_clear_isolation
\* forgets and every attachment or reservation may set.
OneASPerCircuit ==
  \A s, t \in Stream :
    stream[s].on # None /\ stream[s].on = stream[t].on => stream[s].dest = stream[t].dest

\* Between handlers no open circuit is still reserved for a stream it never
\* carried: circuit_try_attaching_streams leaves it to whoever comes next.
NoStaleReservation ==
  agenda = << >> =>
    \A c \in Circ : circ[c].state = "open" /\ ~ circ[c].used => circ[c].dest = None

\* However streams and predictions interleave, the circuits under construction
\* stay within the larger of MaxClientCircuitsPending, which only launches for
\* streams check, and MAX_UNUSED_OPEN_CIRCUITS, which only predictions check.
PendingLimit == Larger(MaxPending, MaxUnused)
PendingBounded == Cardinality(Pending) <= PendingLimit

\* After a bad period launching stops for good after MAX_CIRCUIT_FAILURES more
\* failures: what still fails was already under construction.
FailuresThrottled ==
  failedLast => failures + Cardinality(Pending) <= MaxFailures + PendingLimit

\* Every stream that asks for a connection gets one or is closed, whatever the
\* network does: retries do not extend SocksTimeout.
StreamDecided ==
  \A s \in Stream : stream[s].state \in {"wait", "connect"}
                       ~> stream[s].state \in {"open", "none"}

\* An unusable circuit without streams is eventually freed, by way of a path
\* bias probe that may never be answered.
UnusableFreed ==
  \A c \in Circ : circ[c].unusable /\ On(c) = {} ~> circ[c].state = "free"

\* A circuit that started building opens or is given up, although its timeout is
\* relaxed again each second while it is younger than the close time.
BuildingEnds == \A c \in Circ : circ[c].state = "building" ~> circ[c].state # "building"
=============================================================================
