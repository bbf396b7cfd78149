----------------------------- MODULE PathQuery -----------------------------
(***************************************************************************)
(* The route query between the client and the path predictor: get_aspath   *)
(* (or/circuituse.c) on one side, StartListening and the caches it keeps   *)
(* (bgp_sim/TestingApplication/Program.cs) on the other.                   *)
(*                                                                         *)
(* The predictor is single threaded: it serves one connection at a time,   *)
(* others wait in the listen backlog.  A query names the destinations to   *)
(* prepare and the pairs to answer; the reply has one record per pair, in  *)
(* order, and "<EOFs>".  An exception leaves the accept loop for good, but *)
(* not the process: the port stays bound and the kernel goes on accepting. *)
(*                                                                         *)
(* A record is the set of ASes on the best routes; which ones those are    *)
(* is the matter of RoutingTree, here they are the constant Route.         *)
(***************************************************************************)
EXTENDS Integers, Sequences, FiniteSets

CONSTANTS
    Client,      \* Tor processes that use the predictor
    AS,          \* AS names a query can hold, also ones not in the graph
    Known,       \* the ASes of the topology graph
    Route,       \* Route[s, t]: the ASes on the best routes from s to t
    Queries,     \* the queries of circuit_establish_circuit (see QueryFor)
    Precomp,     \* the pairs of the precomputation file, in order
    Backlog,     \* connections the kernel holds for Accept (10)
    Garbage,     \* an element of result[] that was never written
    Faults       \* may the predictor throw, and may a client be killed

NoClient == "none"

\* A query holds names of ASes, and prepares the destination of every pair it
\* asks for; the precomputation file is one of the same graph; an element of
\* result[] that was never written is not taken for a record.
ASSUME QueryAssumption ==
    /\ Known \subseteq AS
    /\ Backlog \in Nat \ {0}
    /\ Faults \in BOOLEAN
    /\ NoClient \notin Client
    /\ \A q \in Queries :
          /\ q.dests \in Seq(AS)
          /\ q.pairs \in Seq(AS \X AS)
          /\ \A i \in DOMAIN q.pairs :
                \E j \in DOMAIN q.dests : q.dests[j] = q.pairs[i][2]
    /\ Precomp \in Seq(AS \X Known)
    /\ \A p \in AS \X AS : \A r \in SUBSET Route[p] : r # Garbage

\* The query circuit_establish_circuit builds: source, destination and all
\* relays are prepared; exit -> dst, dst -> exit for every exit, then
\* entry -> src, src -> entry for every entry.
QueryFor(src, dst, exits, entries) ==
    [dests |-> <<src, dst>> \o exits \o entries,
     pairs |-> [i \in 1 .. 2 * Len(exits) |->
                   IF i % 2 = 1 THEN <<exits[(i + 1) \div 2], dst>>
                                ELSE <<dst, exits[(i + 1) \div 2]>>]
               \o [i \in 1 .. 2 * Len(entries) |->
                   IF i % 2 = 1 THEN <<entries[(i + 1) \div 2], src>>
                                ELSE <<src, entries[(i + 1) \div 2]>>]]

VARIABLES
    cpc,         \* per client: idle, connecting, writing, reading, done, dead
    query,       \* per client: its query
    sent,        \* per client: how much of it reached the predictor
    reply,       \* per client: records sent by the predictor and not yet read
    conn,        \* per client: "open", "served" (shut down after the reply)
                 \* or "reset" (the predictor's process died)
    result,      \* per client: result[] of get_aspath
    backlog,     \* connections waiting for Accept
    spc,         \* predictor: load, accept, recv, init, answer, send,
                 \* stopped (out of the loop) or down (no process)
    cur,         \* the client being served
    pos,         \* index into Precomp, dests or pairs
    dests,       \* HashSet dests
    ready,       \* keys of the dictionary d: destinations with routing trees
    cache,       \* Dictionary cache: pair -> record
    out          \* StringBuilder res: the records of the reply so far

cvars == <<cpc, query, sent, result>>
wire == <<reply, conn, backlog>>
svars == <<spc, cur, pos, dests, ready, cache, out>>
vars == <<cvars, wire, svars>>

-----------------------------------------------------------------------------
Init ==
    /\ cpc = [c \in Client |-> "idle"]
    /\ query \in [Client -> Queries]
    /\ sent = [c \in Client |-> "none"]
    /\ reply = [c \in Client |-> << >>]
    /\ conn = [c \in Client |-> "open"]
    /\ result = [c \in Client |-> << >>]
    /\ backlog = << >>
    /\ spc = "load"
    /\ cur = NoClient
    /\ pos = 1
    /\ dests = {}
    /\ ready = {}
    /\ cache = << >>
    /\ out = << >>

\* initDestination succeeds for the ASes of the graph only.
Prepare(t) ==
    /\ dests' = dests \cup {t}
    /\ ready' = IF t \in dests \/ t \notin Known THEN ready ELSE ready \cup {t}

\* cache.Add of a pair that is not a key yet.
CacheAdd(p, r) ==
    cache' = [k \in DOMAIN cache \cup {p} |-> IF k = p THEN r ELSE cache[k]]

\* getBestPaths: a destination that was not prepared has an empty record.
Record(p) == IF p[2] \in ready THEN Route[p] ELSE {}

-----------------------------------------------------------------------------
(* The predictor *)

\* loadPrecomputation: a pair that is in the file twice makes cache.Add
\* throw, outside of any try block.
LoadPair ==
    /\ spc = "load"
    /\ pos <= Len(Precomp)
    /\ IF Precomp[pos] \in DOMAIN cache
       THEN spc' = "down" /\ UNCHANGED <<pos, dests, ready, cache>>
       ELSE /\ CacheAdd(Precomp[pos], Route[Precomp[pos]])
            /\ Prepare(Precomp[pos][2])
            /\ pos' = pos + 1
            /\ UNCHANGED spc
    /\ UNCHANGED <<cvars, wire, cur, out>>

\* Bind and listen.
StartListening ==
    /\ spc = "load"
    /\ pos > Len(Precomp)
    /\ spc' = "accept"
    /\ UNCHANGED <<cvars, wire, cur, pos, dests, ready, cache, out>>

Accept ==
    /\ spc = "accept"
    /\ backlog # << >>
    /\ cur' = Head(backlog)
    /\ backlog' = Tail(backlog)
    /\ spc' = "recv"
    /\ UNCHANGED <<cvars, reply, conn, pos, dests, ready, cache, out>>

\* Mutant of Receive: the StringBuilder of the last reply is kept.
ReceiveKeepsOut ==
    /\ spc = "recv"
    /\ sent[cur] = "all"
    /\ spc' = "init"
    /\ pos' = 1
    /\ UNCHANGED <<cvars, wire, cur, dests, ready, cache, out>>

\* Receive until "<EOFc>" is in the data.  From a connection the client has
\* closed Receive returns 0 bytes, at once and for ever.
Receive ==
    /\ spc = "recv"
    /\ sent[cur] = "all"
    /\ spc' = "init"
    /\ pos' = 1
    /\ out' = << >>
    /\ UNCHANGED <<cvars, wire, cur, dests, ready, cache>>

\* Mutant of InitDest: the last destination is not prepared.
InitDestOneShort ==
    /\ spc = "init"
    /\ IF pos < Len(query[cur].dests)
       THEN /\ Prepare(query[cur].dests[pos])
            /\ pos' = pos + 1
            /\ UNCHANGED spc
       ELSE spc' = "answer" /\ pos' = 1 /\ UNCHANGED <<dests, ready>>
    /\ UNCHANGED <<cvars, wire, cur, cache, out>>

\* Mutant of InitDest: a destination that is not in the graph is tried again.
InitDestRetries ==
    /\ spc = "init"
    /\ IF pos <= Len(query[cur].dests)
       THEN /\ Prepare(query[cur].dests[pos])
            /\ pos' = IF query[cur].dests[pos] \in Known THEN pos + 1 ELSE pos
            /\ UNCHANGED spc
       ELSE spc' = "answer" /\ pos' = 1 /\ UNCHANGED <<dests, ready>>
    /\ UNCHANGED <<cvars, wire, cur, cache, out>>

InitDest ==
    /\ spc = "init"
    /\ IF pos <= Len(query[cur].dests)
       THEN /\ Prepare(query[cur].dests[pos])
            /\ pos' = pos + 1
            /\ UNCHANGED spc
       ELSE spc' = "answer" /\ pos' = 1 /\ UNCHANGED <<dests, ready>>
    /\ UNCHANGED <<cvars, wire, cur, cache, out>>

AnswerPair ==
    /\ spc = "answer"
    /\ pos <= Len(query[cur].pairs)
    /\ LET p == query[cur].pairs[pos]
       IN  IF p \in DOMAIN cache
           THEN out' = Append(out, cache[p]) /\ UNCHANGED cache
           ELSE /\ out' = Append(out, Record(p))
                /\ CacheAdd(p, Record(p))
    /\ pos' = pos + 1
    /\ UNCHANGED <<cvars, wire, spc, cur, dests, ready>>

\* Send, shut down and close, back to Accept.
SendReply ==
    /\ spc = "answer"
    /\ pos > Len(query[cur].pairs)
    /\ reply' = [reply EXCEPT ![cur] = IF cpc[cur] = "dead" THEN @ ELSE out]
    /\ conn' = [conn EXCEPT ![cur] = "served"]
    /\ spc' = "accept"
    /\ cur' = NoClient
    /\ UNCHANGED <<cvars, backlog, pos, dests, ready, cache, out>>

\* An exception of Receive, of the routing code or of Send: the loop is left,
\* the connection being served stays open, the port stays bound.
Throw ==
    /\ Faults
    /\ spc \in {"recv", "init", "answer"}
    /\ spc' = "stopped"
    /\ UNCHANGED <<cvars, wire, cur, pos, dests, ready, cache, out>>

\* What can arrive of the reply if the process ends while it sends: some of
\* the records and a part of the next one.
CutShort ==
    IF spc = "answer" /\ pos > Len(query[cur].pairs)
    THEN {SubSeq(out, 1, n) : n \in 0 .. Len(out)}
         \cup UNION {{Append(SubSeq(out, 1, n), part) :
                        part \in SUBSET out[n + 1] \ {{}, out[n + 1]}} :
                     n \in 0 .. Len(out) - 1}
    ELSE {<< >>}

\* The process of the predictor ends: its open connections are reset.
Kill ==
    /\ Faults
    /\ spc \notin {"load", "down"}
    /\ spc' = "down"
    /\ conn' = [c \in Client |->
                  IF cpc[c] \in {"writing", "reading"} /\ conn[c] = "open"
                  THEN "reset" ELSE conn[c]]
    /\ \E some \in CutShort :
          reply' = [c \in Client |->
                      IF c = cur /\ cpc[c] # "dead" THEN some ELSE reply[c]]
    /\ backlog' = << >>
    /\ cur' = NoClient
    /\ UNCHANGED <<cvars, pos, dests, ready, cache, out>>

\* It is started again, with empty tables.
Restart ==
    /\ spc = "down"
    /\ spc' = "load"
    /\ pos' = 1
    /\ dests' = {}
    /\ ready' = {}
    /\ cache' = << >>
    /\ out' = << >>
    /\ UNCHANGED <<cvars, wire, cur>>

-----------------------------------------------------------------------------
(* get_aspath *)

CallGetAspath(c) ==
    /\ cpc[c] = "idle"
    /\ cpc' = [cpc EXCEPT ![c] = "connecting"]
    /\ result' = [result EXCEPT ![c] =
                     [i \in 1 .. Len(query[c].pairs) |-> Garbage]]
    /\ UNCHANGED <<query, sent, wire, svars>>

Listening == spc \notin {"load", "down"}

Connect(c) ==
    /\ cpc[c] = "connecting"
    /\ Listening
    /\ Len(backlog) < Backlog
    /\ backlog' = Append(backlog, c)
    /\ cpc' = [cpc EXCEPT ![c] = "writing"]
    /\ UNCHANGED <<query, sent, result, reply, conn, svars>>

\* connect fails, get_aspath returns -1; the caller goes on with result[].
ConnectRefused(c) ==
    /\ cpc[c] = "connecting"
    /\ ~ Listening
    /\ cpc' = [cpc EXCEPT ![c] = "done"]
    /\ UNCHANGED <<query, sent, result, wire, svars>>

\* The bytes of one write arrive in any number of pieces.
Write(c) ==
    /\ cpc[c] = "writing"
    /\ \/ sent[c] = "none" /\ sent' = [sent EXCEPT ![c] = "part"]
                           /\ UNCHANGED cpc
       \/ sent' = [sent EXCEPT ![c] = "all"]
          /\ cpc' = [cpc EXCEPT ![c] = "reading"]
    /\ UNCHANGED <<query, result, wire, svars>>

\* Elements of result[] written so far.
Records(c) ==
    Cardinality({i \in DOMAIN result[c] : result[c][i] # Garbage})

\* The next record is read; once the reading is over, the parser puts it
\* into the next element of result[].
ReadRecord(c) ==
    /\ cpc[c] = "reading"
    /\ reply[c] # << >>
    /\ result' = [result EXCEPT ![c][Records(c) + 1] = Head(reply[c])]
    /\ reply' = [reply EXCEPT ![c] = Tail(reply[c])]
    /\ UNCHANGED <<cpc, query, sent, conn, backlog, svars>>

\* Mutant of ReadEnd: the first read is taken for the whole reply.
ReadEndEarly(c) ==
    /\ cpc[c] = "reading"
    /\ conn[c] # "open"
    /\ cpc' = [cpc EXCEPT ![c] = "done"]
    /\ UNCHANGED <<query, sent, result, wire, svars>>

\* "<EOFs>" at the end of the buffer, or end of file: what was read is
\* parsed, complete or not.
ReadEnd(c) ==
    /\ cpc[c] = "reading"
    /\ reply[c] = << >>
    /\ conn[c] # "open"
    /\ cpc' = [cpc EXCEPT ![c] = "done"]
    /\ UNCHANGED <<query, sent, result, wire, svars>>

\* read fails on a connection that was reset: get_aspath returns -1 and has
\* parsed nothing of what it read.
ReadFails(c) ==
    /\ cpc[c] = "reading"
    /\ conn[c] = "reset"
    /\ cpc' = [cpc EXCEPT ![c] = "done"]
    /\ result' = [result EXCEPT ![c] = [i \in DOMAIN @ |-> Garbage]]
    /\ reply' = [reply EXCEPT ![c] = << >>]
    /\ UNCHANGED <<query, sent, conn, backlog, svars>>

\* The Tor process is killed.
Die(c) ==
    /\ Faults
    /\ cpc[c] \in {"connecting", "writing", "reading"}
    /\ cpc' = [cpc EXCEPT ![c] = "dead"]
    /\ result' = [result EXCEPT ![c] = << >>]
    /\ reply' = [reply EXCEPT ![c] = << >>]
    /\ UNCHANGED <<query, sent, conn, backlog, svars>>

\* The caller builds its circuit; the next one needs another query.
NextQuery(c) ==
    /\ cpc[c] = "done"
    /\ cpc' = [cpc EXCEPT ![c] = "idle"]
    /\ query' \in {[query EXCEPT ![c] = q] : q \in Queries}
    /\ sent' = [sent EXCEPT ![c] = "none"]
    /\ conn' = [conn EXCEPT ![c] = "open"]
    /\ result' = [result EXCEPT ![c] = << >>]
    /\ UNCHANGED <<reply, backlog, svars>>

-----------------------------------------------------------------------------
Server == LoadPair \/ StartListening \/ Accept \/ Receive \/ InitDest
             \/ AnswerPair \/ SendReply

Call(c) == Connect(c) \/ ConnectRefused(c) \/ Write(c) \/ ReadRecord(c)
             \/ ReadEnd(c) \/ ReadFails(c)

Next ==
    \/ LoadPair
    \/ StartListening
    \/ Accept
    \/ Receive
    \/ InitDest
    \/ AnswerPair
    \/ SendReply
    \/ Throw
    \/ Kill
    \/ Restart
    \/ \E c \in Client :
          \/ CallGetAspath(c)
          \/ Connect(c)
          \/ ConnectRefused(c)
          \/ Write(c)
          \/ ReadRecord(c)
          \/ ReadEnd(c)
          \/ ReadFails(c)
          \/ Die(c)
          \/ NextQuery(c)

Spec == Init /\ [][Next]_vars

\* Both processes run; a connect that finds the backlog full is retried by
\* the kernel and gets its turn.
FairSpec ==
    /\ Spec
    /\ WF_vars(Server)
    /\ \A c \in Client : WF_vars(Call(c)) /\ SF_vars(Connect(c))

-----------------------------------------------------------------------------
(* Properties *)

\* What a right answer for the pair is.
Truth(p) == IF p[2] \in Known THEN Route[p] ELSE {}

\* The second level cache never holds a record that was computed before the
\* routing tree of its destination was there: it would be served for ever.
CacheFresh == \A p \in DOMAIN cache : cache[p] = Truth(p)

\* A caller sees result[] when its call has returned.
QueryState ==
    [c \in Client |-> IF cpc[c] \in {"connecting", "writing", "reading"}
                     THEN "asking" ELSE cpc[c]]
Returned == [c \in Client |-> IF cpc[c] = "done" THEN result[c] ELSE << >>]

Oracle == INSTANCE RouteOracle
            WITH state <- QueryState, asked <- query, answer <- Returned

\* The two processes, their caches, crashes and the bytes between them look to
\* the caller like an oracle that is asked once and answers once: get_aspath
\* fills result[] with the right records for its own pairs, in order, or with
\* the first of them, whatever was served to others and whatever failed.
ActsAsOracle == Oracle!OracleSpec

\* A connection that was served was served in full: elements of result[] are
\* left unwritten only if the predictor was not there, or died.
CompleteIfServed ==
    \A c \in Client :
        cpc[c] = "done" /\ conn[c] = "served" =>
            \A i \in DOMAIN result[c] : result[c][i] # Garbage

\* The predictor waits for the rest of a query whose client is gone.
StuckOnDead == spc = "recv" /\ cpc[cur] = "dead"

\* Every call of get_aspath returns (the main loop of Tor waits in it), also
\* when the predictor dies and comes back, unless the predictor has left its
\* loop or waits for a client that died.
QueryReturns ==
    \A c \in Client :
        cpc[c] = "connecting" ~> \/ cpc[c] \in {"done", "dead"}
                                 \/ spc = "stopped"
                                 \/ StuckOnDead
=============================================================================
