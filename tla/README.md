# Astoria: TLA+ models, model checking and proofs

Astoria is a Tor client that chooses the entry and exit relay of a circuit so
that no autonomous system (AS) is on both ends of it. The repository holds

* `astoria-tor-client/`: Tor, with the AS-aware choice added to
  `or/circuitbuild.c` and `or/circuituse.c`;
* `bgp_sim/`: a C# simulator of BGP routing. Its `TestingApplication` runs as
  the *path predictor*: the client asks it over TCP for the ASes on the routes
  between pairs of ASes.

This directory models what Astoria adds, the part of Tor that it changes, the
route computation of the predictor, and the parts of Tor that carry a circuit.

## 1. Inventory

| Component | State | Operations | Talks to |
|---|---|---|---|
| Attack matrix (`circuit_establish_circuit`, circuitbuild.c 1299-1391) | rows `S`, `attackers`, attacker-free pairs, loop variables | scan of every entry-exit pair | route query (input), LP |
| Pair selection (circuitbuild.c 1008-1064, 1393-1476) | weights of pairs, alpha | solve, mix, draw until both ASes are known | attack matrix, address map |
| Address map (`do_whois`, `compare_as`, circuituse.c 296-628) | one hash table for prefixes and cached answers | load, look up, compare | every AS test of the client |
| Route query (`get_aspath`, circuituse.c 711-830; `Program.cs`) | client: socket and `result[]`; predictor: `dests`, `d`, `cache` | connect, write, read; accept, receive, prepare, answer, send | TCP |
| Circuit and stream use (circuituse.c, connection_edge.c, circuitlist.c, circpathbias.c) | circuit list, stream list, failure counters | attach, launch, reserve, expire, retry, probe, close | main loop, relays, applications |
| Relay choice and path (`circuit_establish_circuit`, circuitbuild.c 1073-1135, 1478-1522; entrynodes.c) | candidate lists, build state, path; the list of guards across calls | list exits and entries, draw, add hops, start over, fail | consensus, guards, channels |
| Routing trees (`BFS.cs`, `Destination.cs`, `SimulatorLibrary.cs`) | search state in the nodes of the graph, best next hops per destination | three searches, choice of parents, answers | predictor |
| Channels (channel.c, channeltls.c, connection_or.c, circuitlist.c) | channels, identity map, circuit ID map, DESTROY queue | launch, open, close, free; attach circuits, reserve IDs | circuits, scheduler |
| Scheduler (scheduler.c, circuitmux.c) | state per channel, pending heap, queue heuristic, output buffers | run, flush, age, drain | channels, kernel |
| Flow control (relay.c, connection_edge.c) | windows of streams and circuits, cell queue | package, acknowledge, block, resume, end | applications, exit |
| S\*BGP deployment (`Worker.cs`) | set of secure ASes | rounds of adoption | routing trees |
| Rest of Tor (directory, hidden services, control port, cryptography, ...) | | | |

Tor is one thread that runs one event handler at a time; what is hard in it is
not data races but the order of handlers, calls that a handler makes into
others, timers that meet late answers, and state that one handler sets for
another to find. The predictor is a second process, single threaded, that can
throw, be killed and restarted while clients are connected; the client waits
for it *inside* its main loop.

What makes each component correct:

* attack matrix: a pair is counted attacker free exactly if no AS is on both its
  sides; the matrix names only real attackers, each once, and fits its memory;
* pair selection: with an attacker-free pair at hand an attacked one is not
  used; the loop of draws ends;
* address map: an answer does not depend on the calls before it;
* route query: what a client takes from `result[]` belongs to the pair at that
  index; calls return;
* relay choice: the relays of a path are unrelated; a call ends; the lists stay
  within the memory for them;
* routing trees: the routes are a stable state of the BGP policies, and an answer
  names the ASes on the best paths, whatever was computed before;
* channels: no table names a freed channel, no circuit ID is used again while a
  DESTROY for it is queued, and no circuit waits for ever;
* scheduler: no wake-up is lost, the buffers stay bounded, cells get out;
* flow control: two correct ends never kill a circuit, no window leaks, no stream
  stops for ever;
* circuit use: a stream is only on a circuit that is open and fit for its
  destination; every stream is decided and every circuit is given back;
  launches are bounded.

`PROJECT.json` lists all components and, under `hazards`, what a test would
hardly reach, with the properties that cover it.

## 2. Modules

### AttackMatrix
One action per branch of the innermost loop: `ScanHarmless` (the AS is not on
the exit side), `ScanKnownAttacker` (it has a row), `ScanNewAttacker` (it gets
one), and `FinishPair` (the list is at its end). The inputs `entryAll` and
`exitAll` are arbitrary lists: the return value of `get_aspath` is not looked
at, so nothing is known about them. The essential detail is `AfterNewRow`: a
new row is cleared by `for (j = 0; j < paths; j++)` with the `j` of the scan,
which therefore goes on behind position `paths`: further attackers of the pair
are skipped, and on long lists positions are visited twice.

### PathSelection (extends AttackMatrix)
The scan, then `Solve` (which relays have an AS and a bandwidth weight, and
which pairs the LP gave weight, is left open), then one `Draw` per turn of the
do-while loop. A weight is abstracted to being non-zero. `DrawBoundary` is the
draw that falls through all intervals of `pick_from_dist` (`rand()` returns
`RAND_MAX`, or the distribution is 0/0) and returns the first pair.

### AsLookup
An address is a `W`-bit number. The C hash table has two kinds of names,
`a.b.c.d/len` and `a.b.c.d`; they are the functions `cidr` and `direct`.
`DoWhois` loads the file if a probe prefix is not in the table, answers from
`direct`, else clears 1, 2, ... `MaxSuffix` bits until a prefix is found, and stores
the answer. The reference, `Longest`, knows nothing of that loop: `Searchable` says of
which addresses the loop finds it. With a file that lacks the probe the file is read again at each call, and
`install` frees strings that are still in use: `CompareAs` then returns either
value (`ReturnedStringFreed`).

### PathQuery and RouteOracle
Clients (`cpc`, `sent`, `result`), the wire (`reply`, `conn`, `backlog`) and the
predictor (`spc`, `dests`, `ready`, `cache`, `out`). An action is one socket
call or one turn of a loop. `Throw` leaves the accept loop: the process and its
port stay, and connections are accepted by the kernel and never served.
`Kill` ends the process, also while a reply is under way (`CutShort`: the client
then reads a last record that lacks elements, or fails with `ReadFails`);
`Restart` begins with empty tables. Which ASes are on a route is a constant,
`Route`; RoutingTree is about how it is computed.

`RouteOracle` is what the caller may rely on: one step `Ask`, one step `Return`
that fills `result[]` with the true records of the pairs or the first of them.
The mapping hides the predictor and the wire: a client is `asking` from
`Connect` to the last `read`, and its answer is `result[]` once it is done.

### CircuitUse
The circuit list and the stream list, with one record per slot. `agenda` holds
the calls that the running handler still has to make, and events happen only
when it is empty: this is how Tor's single thread is modelled without merging
a handler into one step.

* Attachment of a stream (`connection_ap_handshake_attach_circuit`):
  `GiveUp`, `Attach`, `AttachNoStreamId`, `JoinPending`,
  `WaitForPending`, `LaunchForStream`, `LaunchReturnsNull`.
* The once-a-second callback: `RunScheduledEvents` advances the clock and puts
  `ExpireBuilding`, `ExpireBeginning` (then `ExpireStream`), `AttachAll`, `ExpireOld`,
  `PredictAndLaunch`, `CloseAllMarked` on the agenda, in the order of main.c.
* Network and application events: `NewStream`, `ChannelOpens`, `CircuitBuilt`,
  `CircuitDestroyed`, `ProbedOnError`, `ProbeAnswered`, `Connected`,
  `EndRetriable`, `EndFinal`, `StreamEnds`.

`dest` is Astoria's `dest_address`, set and cleared with the isolation fields.
`CircuitPath` adds a history variable, `builtFor`: the AS the path was chosen
for. The circuits have four hops (`DesiredPathLen`: `new_route_len` adds one because the
exit is always named), so `circuit_expire_building` gives them `fourhop_cutoff`
(`FourHopTimeout`), never counts them as opened (`AnyOpened`) and never keeps one for
measurement. Timestamps are ages that saturate above all timeouts they are compared with, so no behaviour
is cut off by a bound on time.

### EstablishCircuit
One call of `circuit_establish_circuit` after the other; `pc` is the place in
the function, what outlives a call is the list of guards. `Establish` and
`ListExits` (all good exits, the second of them is the exit *for the time
being*), `PickExit` (route length, twice), `ListGuards`/`ListEntries`,
`DrawPair` (any pair: PathSelection is about which), then the hops:
`ExtendEntry`, `ExtendMiddle`, `ExtendLast`, and `PopulateAgain` while no hop does
ntor. `FillGuards` to `GuardChosen` are `return_live_entry_guards` with its two
ways to start over. A relay is a number, a network the sets of relays with each
flag, the related pairs and what the pending streams need. `undefined` is where
the C code reads what is not there: the second of a list of one exit, the
uninitialized `entry` when an exit is given, a log file that did not open, the
name of an entry without descriptor (with debug messages on), the arrays of an
empty entry list.

### RoutingTree
`initDestination` for the destinations of `DestSeq`, one after the other over the
same graph. `Visit` takes one node off the queue of the current search: nodes not
seen get it as parent (`Fresh`), nodes at the same depth get it as a tie, which
replaces their parent if the hash says so (`Ties`, `NewRouteWins`). The three
searches follow customer and sibling, peer, provider and sibling edges.
`FinishDestination` is `UpdatePaths` with the exception of `sortByHashValue` when two
tied next hops have the same hash; `Answer` is `GetAllBestPaths`. The references are
separate definitions: `Offers` and `Prefers` for BGP policy, `ValleyFree` and
`BestPaths` for the paths.

### Scheduler, Channel, FlowControl, MCTransport
*Scheduler*: the four states of a channel, moved by `HasWaitingCells`,
`WantsWrites` and by the run (`RunStart`, `RunPick`, `RunChunk`, `RunCell`,
`RunPutAway`, `RunEnd`), against cells, DESTROY cells, the draining buffer and
the ageing of the heuristic. `NumCells` is `circuitmux_num_cells`, DESTROY cells
included. The subtraction of `size_t`s in
`channel_tls_num_cells_writeable_method` is kept with its wrap-around.

*Channel*: a channel is an address (`Slot`) that is used again once freed, so a
stale table entry would be an entry of another channel. Circuits find a channel,
wait for one or launch one (`FirstHopReady`, `FirstHopWait`, `FirstHopLaunch`);
channels open, turn bad, break, are closed and cleaned up; a closed circuit's ID
stays reserved until its DESTROY is written. `nCirc` is `num_n_circuits`, an unsigned
number below `UInt`.

*FlowControl*: the client end of a circuit with its streams, the network, and the
exit end, which is the same code; streams end at the exit. `CircSendme` starts
`circuit_resume_edge_reading_helper`, which then runs stream by stream
(`ResumeStream`, `ResumeRound`).

*MCScheduler* is the scheduler alone. *MCTransport* holds the three side by side: `part` says which of them a behaviour
is of. They share no variable; the interfaces are `AppendCell`/`FlushCell` and
`CloseChannel`/`StartClosing`, which each model leaves open.

### Proof modules
`PathSelectionProofs` (with AttackMatrix), `AsLookupProofs`, `PathQueryProofs`,
`CircuitUseProofs`, `EstablishCircuitProofs`, `RoutingTreeProofs`, `LinkProofs` (Scheduler
and Channel) and `FlowControlProofs`: each extends the modules it is about and
holds their inductive invariants and theorems (section 4).

MC modules hold the instances; `MCPairChoice` holds the choice of a pair and the address
map side by side, `part` says which of them a behaviour is of. Definitions marked "Mutant of X" are plausible
mistakes in X; with X replaced by them the property named in `PROJECT.json`
fails, which shows that the property is sensitive to that code.

## 3. Runs

| Run | Checks | Bounds |
|---|---|---|
| `selection` | AttackMatrix: `RowsFit`, `RowsSound`, `FreeExact`, `AttackedPairHasRow`; `ScanTerminates`. PathSelection: `AvoidsAttackers`, `ChosenHasBandwidth`; `SelectionTerminates`. AsLookup: `CacheCoherent`, `StoredIsLongest`, `CompareExact` | 1 entry, 2 exits, 3 ASes, entry lists up to 5, exit lists up to 2; alpha 0, 0.5, 1; 3-bit addresses, all files of up to 2 lines and the probe or 1 line without it |
| `query` | `CacheFresh`, `CompleteIfServed`; `QueryReturns`, refinement `ActsAsOracle` | 2 clients, backlog 1, 2 queries, faults |
| `establish` | `PathUnrelated`, `EntriesBounded`; `EstablishEnds` | 5 relays, 144 networks, 2 guards, 2 tries |
| `use` | `StreamsOnOpenCircuits`, `OneASPerCircuit`, `NoStaleReservation`, `PendingBounded`, `FailuresThrottled` | 2 circuits, 2 streams, 2 ASes |
| `use_live` | `StreamDecided`, `UnusableFreed`, `BuildingEnds` | 2 circuits, 1 stream, 1 AS |
| `transport` | Scheduler: `PendingExact`, `OutbufBounded`, `SchedNoLostWakeup`, `ParkedWithoutCells`, `CellsFlushed`; Channel: `NoDanglingChannel`, `ReservedWhileDestroyQueued`, `WaitEnds`; FlowControl: `NeverKilled`, `CircWindowConserved`, `AppDataRead` | 2 channels, 2 cells, 2 DESTROYs; 2 addresses, 2 circuits, 2 hops of one identity, 1 ID of each side; 2 streams of 3 cells, windows 2 to 4 |
| `routing` | `RoutesStable`, `AnswersExact`, `TreeConsistent` | all graphs of 4 ASes (5^6), 2 destinations |
| `matrix_incomplete` | violation of `MatrixComplete` | 2 ASes, lists up to 2 |
| `use_as` | violation of `PathMatchesDestination` | as `use` |
| `establish_family` | violation of `EntryApartFromExit` | as `establish` |
| `lookup_longest` | violation of `LongestMatch` | 3-bit addresses, files of one line |
| `sched_stall` | violation of `PendingServed` | 2 channels, 3 cells |

Why the bounds are enough. *selection*: in the scan a jump backwards needs a new
attacker behind position paths + 2, so lists of 5 with 2 pairs, and more attackers
than pairs needs 3 ASes; the scan asks an exit list only what is in it, so one order
per set of ASes will do. For the draw, free and attacked pairs, with and without
bandwidth and AS, in every combination over two pairs; one AS suffices because only
"attacked" matters after the scan. In the address map three bits give a full-length
prefix, one too short for the loop and two nested ones that it reaches. *query*: two clients to have one wait for
the other; queries that share pairs and an AS that is not in the graph.
*establish*: four hops (three and one for the named exit) and one relay to spare,
so that exclusions decide; three possible guards with two needed, one of them not
counted as live, so that the list outgrows the need. *use*: two circuits so that
one can be open while another is built, two streams, to the same AS or to
different ones, so that a circuit can be shared and a reservation can be wrong;
every timeout is 1 or 2 seconds, the four-hop timeout below the close time, so that
timeouts are relaxed (before build times are known the code has it above: then none
is), and retry below SOCKS. The number of circuit slots bounds how many exist at once: a launch that
finds no slot fails as one that finds no relays does. `FailureBound` caps the
failure counter above every value it is compared with. *transport*: a buffer for two
cells that can be a cell over its mark, so that a channel is full with and without
cells left, water marks that are reached and marks that are not; two addresses
so that one is freed and used again while the other is alive, one ID per side so
that it must be reused; two DESTROY cells so that one finds the other queued;
circuit windows below the sum of the stream windows and equal to it, a queue of two cells so that blocking, resuming and both at once
happen. *routing*: four ASes are the smallest graphs with two next hops of the
same length and a choice between classes above them; two destinations, because
the second finds what the first left; hashes that collide and hashes that do not;
`MaxPath` cuts off the longest paths.

Symmetry is used in `use` for circuits, streams and ASes, which are only compared
for equality; not in runs with liveness. CHECK_DEADLOCK is off where the modelled
function ends (the scan, the selection, the list of destinations), where the
process may die (`establish`), and in `transport`, whose cells and data are used up.

### Fairness
* `selection`: the loop runs in the main thread without waiting: weak
  fairness of its steps. For the draw, strong fairness of every pair with
  weight: `rand()` does not avoid an interval for ever.
* `query`: weak fairness of the predictor's loop and of the calls of a client,
  strong fairness of `Connect` (the kernel retries when the backlog is full).
  None for faults or `Restart`.
* `establish`: weak fairness of the steps of the call; it runs in the main thread
  and waits for nothing but the predictor (`QueryReturns`). None for being called.
* `transport`: libevent runs an active event (`RunStep`), time passes (`Age`), and
  the kernel takes bytes of an open connection (`Drain`). The
  once-a-second housekeeping closes a connection that does not get through, a
  connection marked for close is closed, a closed channel is freed by the cleanup
  of the main loop: weak fairness of those steps for every channel. No connection
  ever has to open. In FlowControl of both ends and of the delivery between them, as long as the
  circuit lives. `CellsFlushed` is stated for behaviours in which no run is refused at the
  low water mark or broken off above the high one: `sched_stall` and `ParkedWithoutCells`
  are about those.
* `use_live`: weak fairness of `Handler` (a handler runs to its end) and strong
  fairness of `RunScheduledEvents` (a libevent timer that fires every second
  between other events). Nothing is assumed of the network: no
  cell, no channel and no relay ever has to answer.

### What the violations show
* `matrix_incomplete`: because of the shared `j`, a pair with two attackers gets
  only the first new one into the matrix: the LP minimises over fewer attackers
  than there are. The count of attacker-free pairs is not affected
  (`FreeExact`).
* `use_as`: `dest_address` is forgotten when a circuit opens without its stream,
  and never set for predicted circuits: the circuit is then used for any AS,
  though its relays were chosen for another one.
* `establish_family`: the entries are listed apart from the family of the second
  good exit, the exit is replaced by the one of the drawn pair afterwards, and
  only the hops in the middle are compared with both. TLC finds a path whose
  entry and exit are the same relay.
* `lookup_longest`: the suffix loop starts with one bit cleared, so a line for a single
  address is loaded and never found; a shorter prefix answers, or -1. The map of the
  repository has 13 such lines. `StoredIsLongest` is what holds of the others.
* `sched_stall`: the event fires while the heuristic is at the low water mark, the
  callback does nothing, and the channel stays on the heap of pending channels although
  the heuristic falls below the mark later: no periodic call comes. Only a channel
  that becomes pending anew starts the next run.

### Remarks on the code
What modelling showed besides, at the place where a reader of the code would
meet it:

* Pair selection: alpha is committed as 1, which makes the draw bandwidth only;
  `AvoidsAttackers` is therefore about alpha 0.
* Address map: two addresses without an AS compare as equal ("-1"), which `CompareExact`
  leaves out. While the file cannot be opened every address is of AS "1".
* Circuit use: a launch that returns NULL is handed to `write_circuit_info`, which
  follows it if its log file opens (`LaunchReturnsNull`, `LogWritable`). Since only
  opened circuits of three hops count, timeouts are relaxed whether circuits are open or
  not, against the comment of `circuit_expire_building`; a circuit still ends at the close
  time (`BuildingEnds`). For the same reason `circuit_timeout_want_to_count_circ` holds for
  none of these circuits and the build timeout is never learned from them.
* Relay choice: every exit is named by the time of `new_route_len`, which adds a
  hop for a named exit: circuits have four hops. Without guards the launch flags
  are read as flags of `router_choose_random_node`: stable asks for fast, fast for
  a possible guard, nothing asks for a descriptor. `res[10000]` is bounded only
  by the number of exits times the guards needed (`EntriesBounded`), and not at
  all without guards.
* Scheduler: a loop that stops above the high water mark flushed fewer cells than there
  was room for, which is taken for "We ran out of cells to flush": the channel waits for
  cells although it has some, until another arrives (`ParkedWithoutCells`). DESTROY cells
  are not announced to the scheduler: behind a non-empty buffer, on a channel it holds
  for idle or without cells, they leave with the next cell of a circuit. The branch that re-adds a channel
  during a run is not reached with TLS channels.
* Channels: `circuit_get_all_pending_on_channel` goes by identity, so the end of one
  attempt ends all circuits that wait for that identity, also over another
  address. `num_n_circuits` is set to 0 by `channel_unlink_all_circuits` and then decreased for
  each circuit, so it wraps on a channel whose connection is gone; the choice of
  channels and the housekeeping look only at earlier ones. MAINT is not reached by TLS channels.
* Flow control: a SENDME that arrives while streams are blocked only enlarges the
  window, and unblocking turns reading on without packaging what is in the
  inbuf: the rest of an inbuf waits for more data. `AppDataRead` is about the data
  before the inbuf for that reason. The client's `max_to_package` is taken from the
  window of the circuit and not of its last hop, and the cell that empties the window
  of a stream is not counted against it (`Counted`).
* Routing trees: `UpdatePaths` chooses among ties by hash alone and so overrides the
  preference for routes that are not from siblings. Unreachable sources and paths
  beyond the bound give an empty or short answer, which the client takes for a path
  without attackers. `sortByHashValue` throws if two next hops have one hash.

## 4. Proofs

Every safety invariant and action property that a run checks, and the refinement,
is also a theorem: the run shows it on a small instance, the proof for every value
of the constants that satisfies the module's named assumption. In each proof module
an inductive invariant comes first, then what the operators return, then one lemma
per action (`XStep`: the action `X` keeps the invariant), then the theorems. All
inductive invariants were checked with TLC on the instances of section 3 before they
were proved.

| Module | Theorem | States |
|---|---|---|
| PathSelectionProofs | `TypeCorrect` | `[]TypeOK` |
| | `FreeCountIsExact` | `[]FreeExact` |
| | `MatrixIsSound` | `[](RowsSound /\ RowsDistinct /\ AttackedPairHasRow)` |
| | `AttackedPairsKeepTheirRow` | `[]AttackedPairHasRow` |
| | `RowsAlwaysFit` | `[]RowsFit` |
| | `UsesAttackerFreePair`, `UsesBandwidth` | `[]AvoidsAttackers`, `[]ChosenHasBandwidth` |
| AsLookupProofs | `StoredAnswersFresh`, `StoredAnswersLongest` | `[]CacheCoherent`, `[]StoredIsLongest` |
| | `ComparisonExact` | the action property `CompareExact` |
| PathQueryProofs | `CacheNeverStale`, `ServedIsComplete` | `[]CacheFresh`, `[]CompleteIfServed` |
| | `ImplementsOracle` | the refinement `ActsAsOracle` |
| CircuitUseProofs | `UseTypes` | `[]TypeOK` |
| | `StreamsAreOnOpenCircuits`, `CircuitsServeOneAS` | `[]StreamsOnOpenCircuits`, `[]OneASPerCircuit` |
| | `ReservationsNeverStale`, `ConstructionBounded`, `LaunchesThrottled` | `[]NoStaleReservation`, `[]PendingBounded`, `[]FailuresThrottled` |
| EstablishCircuitProofs | `HopsAreUnrelated`, `GuardEntriesBounded` | `[]PathUnrelated`, `[]EntriesBounded` |
| RoutingTreeProofs | `RoutesAlwaysStable`, `TreeAlwaysConsistent`, `AnswersAlwaysExact` | `[]RoutesStable`, `[]TreeConsistent`, `[]AnswersExact` |
| LinkProofs | `SchedTypes`, `PendingHeapExact`, `OutbufNeverOver`, `WakeupNeverLost` | `[]SchedTypeOK`, `[]PendingExact`, `[]OutbufBounded`, `[]SchedNoLostWakeup` |
| | `ParkedOnlyAboveMark` | the action property `ParkedWithoutCells` |
| | `ChannelTypes`, `TablesHoldLiveChannels`, `DestroyedIdsReserved` | `[]ChTypeOK`, `[]NoDanglingChannel`, `[]ReservedWhileDestroyQueued` |
| FlowControlProofs | `FlowTypes`, `CircuitWindowNeverLeaks`, `CircuitNeverKilled` | `[]FlowTypeOK`, `[]CircWindowConserved`, `[]NeverKilled` |
| | `StreamWindowNeverLeaks` | `[]StreamWindowConserved` (defined there) |

### PathSelectionProofs
For all numbers of relays, all sets of ASes and all lists (`MatrixAssumption`: at
least one entry and one exit, list bounds are numbers). `FreeExact` is not
inductive, since what happens at the end of a list depends on what was seen before.
`IInv` adds `ScanPrefix`: while no attacker of the pair was found, no position before
`j` holds one (the scan only skips after it found an attacker); once one was found,
the pair is attacked and has a 1 in its column. So the skipped positions cannot
change the verdict on the pair, although they do change the matrix. `RowsAlwaysFit`
needs `RowCount`: a pair adds at most one row, because after a new row `j` is past any
list of length paths + 1; on longer lists this fails, and so may the memory.
`SelIInv` carries this to the pair that is used, for any relays without AS or
bandwidth, any result of the linear program and every alpha (`AlphaAssumption`: 0, 0.5
or 1): nothing is drawn before the scan is over (`DrawnAfterScan`), and the pair used
passed the test of its ASes and came from the tuned distribution or fell through
(`ChosenDrawn`).

### AsLookupProofs
For addresses of `W` bits, any longest suffix the loop clears, any set of map files
(`LookupAssumption`: a file maps prefixes, whose low bits are zero, to ASes; all
525386 lines of `0315-ip-as-map.txt` are of that form, none twice). `PowerAssumption`
says that the powers of two up to `W` are positive: a fact of arithmetic that the
provers do not know and TLC evaluates. The invariant adds `TableOK`: the table holds
the whole file or nothing, so that an answer is stored only against the file that is
there: with that a stored answer is fresh (`CacheCoherent`). That it is the longest match is
proved for the addresses all of whose lines have a length the loop reaches
(`Searchable`): the loop stops at the least suffix that matches.

### PathQueryProofs
For any clients, graph, routes, queries and backlog (`QueryAssumption`: a query
prepares the destination of every pair it asks for, which `QueryForCovers` proves of
the query that `circuit_establish_circuit` builds). `CacheFresh` needs `ServedRight`
(all destinations of a query are prepared before its first pair is looked up) and
`TablesRight`. For the refinement `ClientsRight` says what has been read and what is on
the wire: the first `n` records are right, one more may be cut short, the rest of
`result[]` is as it was. `OracleStep` then maps every action to `Ask`, `Return` or a
stutter.

### CircuitUseProofs
For any finite set of circuits, any streams, limits and timeouts (`UseAssumption`;
the timeouts may be in any order).
`StreamsOnOpenCircuits` and `OneASPerCircuit` follow from `StreamsCarried`: a stream is
on a circuit that is open, used, dirty and remembers the stream's AS. That is not
inductive without the agenda: `AgendaOK` says which calls of a running handler are
still to come (only the first can attach streams, and these still wait), and
`ReservationsCleared` that a reserved circuit which opened unused has its `clear` call
on the agenda, so that between handlers, when the agenda is empty, no reservation is
stale.

### EstablishCircuitProofs
For any number of relays, guards and tries and any flags and relations
(`EstablishAssumption`: flags and relations are about relays of the network).
`HopsApart` relates the hops so far to each other and to the exit that is still to be
appended; `Stage` says how much of the path there is at each place of the function, and
`GivenExit` that with a given exit no list was made. `EntriesBounded` rests on the
counting of `populate_live_entry_guards`: the guards it lists have different positions
in `entry_guards`, and it stops at the number needed (`ListedBounded`).

### RoutingTreeProofs
For any finite set of ASes, any graphs whose edges have two ends, any hash (with or
without collisions), any destinations and any lengths (`RoutingAssumption`). `RouteInv`
describes a search in progress: the queue holds the waiting nodes once, by their depth,
and nobody is found more than one edge below its head (`QueueOK`); which search found
whom (`LevelsOK`); one tree (`TreeOK`); and `Handled(k, S)`: over the edges of the ASes
in `S` the `k`-th search has left out nobody, gave nobody a longer route, and `Best`
holds all next hops that tie. A finished search has handled all ASes that pass routes
on (`AllVisited`, by the node of least depth it would have missed). `FoundStable` then
compares what three finished searches hold with the BGP policies: what an AS offers is
what the search of that kind passes on, and a search passes on nothing better
(`OffersAreLeads`).

`AnswersAlwaysExact` is about what `GetAllBestPaths` computes level by level, a
recursive function. The provers cannot use the induction theorems of the library, so
every induction is an argument on the least counterexample (`LeastOf`, from the
well-foundedness of the naturals), and the recursion has a solution because the ends of
the paths of `n` edges are one (`EndsStep`, `FrontierEnds`). Along a path the depth falls by
one at each edge (`WalkDepth`): no loop, arrival after exactly `depth` edges
(`WalkArrives`). After a peer or a customer only customer routes follow
(`NoTransit`, `WalkValleyFree`).

### LinkProofs
*Scheduler*, for any channels, cell size, water marks, flush limit and width of
`size_t` (`SchedAssumption`: marks in order, the high water mark and two cells below the
range of `size_t`). `OutbufBounded` and `SchedNoLostWakeup` need `RunShape`: what
`scheduler_run` knows of the channel it holds, above all that the cells it may still
flush fit the room it computed before the loop. `ParkedWithoutCells` needs of the opening
channel that it has no cells (`OpeningAlwaysEmpty`). `RoomExact` shows that the unsigned
arithmetic yields that room.

*Channel*, for any addresses, hops, circuits and IDs (`ChanAssumption`: finitely many
circuits, fewer than `UInt`; the IDs of the two ends differ). The count of circuits is
exact until the connection is gone. `MapOK` has the circuit map exact in both
directions, `QueuesOK` the queued DESTROYs without duplicates and equal to the reserved
IDs; without the first a channel could be freed under a circuit, without the second
the DESTROY that is written could free an ID that another still reserves.

### FlowControlProofs
For any window sizes, increments and queue marks and any number of streams
(`FlowAssumption`: increments positive and at most the windows). `NeverKilled` is about
overflowing windows, so it needs equations and not bounds: every cell of the circuit's
window, and of each stream's, is in the window, queued, under way, not yet
acknowledged or in a SENDME (`CircWindowConserved`, `StreamWindowConserved`), and SENDMEs go
out as soon as they are due (`WindowsKept`). The lemmas on `Count` say how the cells of
a kind in a queue are counted under the operations on queues.

### Only model-checked
* Liveness: `ScanTerminates`, `SelectionTerminates`, `QueryReturns`, `EstablishEnds`,
  `StreamDecided`, `UnusableFreed`, `BuildingEnds`, `CellsFlushed`, `WaitEnds`, `AppDataRead`.
  Fairness and ENABLED are beyond this version of the prover.
* The five violations are refutations by example.

## 5. Not modelled

* lp_solve and `solve_lp`: numerical; the result is any set of weighted pairs. The
  vendored library is a quarter of the C code of the repository.
* Strings, buffers and their sizes (`as_src[10]`, query buffers).
* `cacheDestinations` of the predictor (a start-up option that fills `d` from a
  list before it listens).
* In EstablishCircuit: EntryNodes and bridges, ExcludeNodes, firewalls, test
  networks, the purposes of hidden services, and the state file of the
  guards with the retries of unreachable ones.
* In CircuitUse: hidden services, one-hop and internal circuits,
  cannibalization, controller-attached streams, exit policies, `TrackHostExits`,
  the statistics of build times and of path bias, missing directory information.
* In Channel: a connect that succeeds at once and then fails within the same call, which
  frees the channel of a connection that is only marked for close. In FlowControl: the end of a stream by the application
  (`connection_edge_end` at the client; `ExitEnds` is the same function at the exit).
* In Channel, Scheduler and FlowControl: handshakes and listeners, the EWMA
  policy (any pending channel may be next), the relay side of other commands, global
  token buckets.
* In RoutingTree: the enumeration of all paths (`BestNew`, `GetAllPaths`), the
  variants for non-stubs, the weights, and the reading of graph files beyond the
  relationship of a pair.
* The rest of Tor is parsing (directory, configuration, control port),
  cryptography, operating system wrappers and containers, where a state machine
  has little to say: most of the lines of this repository are of that kind or
  vendored, and so the models cover a small share of its lines. See
  `PROJECT.json` for the list.

## 6. Plan

1. Proofs: lemmas towards liveness that are safety (what decreases with each step of
   the scan, of a search and of a call), and a theorem that says when the path of a
   circuit does match the destination of its streams (`PathMatchesDestination` is
   violated without a condition).
2. *SecureDeployment*: rounds of `Worker.cs` and their monotonicity.
3. Guards across restarts (state file, unreachable guards), path bias counters,
   circuit build times.
4. Hidden-service circuits in CircuitUse.
5. `circuituse.c:2907`, where the code uses a circuit that may be NULL, is modelled
   (`LaunchReturnsNull`) but has no property: what it does depends on whether a log
   file opens.
