-------------------------- MODULE PathQueryProofs --------------------------
(* Proofs about the route query, for any number of clients, any queries and *)
(* any graph: the predictor's cache is never stale, a served query is       *)
(* answered in full, and the two processes implement the oracle that        *)
(* circuit_establish_circuit takes them for.                                *)
EXTENDS PathQuery, FiniteSetTheorems, SequenceTheorems, TLAPS

Pairs(c) == query[c].pairs

\* What can be a record.
Rec == UNION {SUBSET Route[p] : p \in AS \X AS}

QueryTypeOK ==
    /\ cpc \in [Client -> {"idle", "connecting", "writing", "reading", "done",
                           "dead"}]
    /\ query \in [Client -> Queries]
    /\ sent \in [Client -> {"none", "part", "all"}]
    /\ reply \in [Client -> Seq(Rec)]
    /\ conn \in [Client -> {"open", "served", "reset"}]
    /\ result \in [Client -> Seq(Rec \cup {Garbage})]
    /\ backlog \in Seq(Client)
    /\ spc \in {"load", "accept", "recv", "init", "answer", "stopped", "down"}
    /\ cur \in Client \cup {NoClient}
    /\ pos \in Nat \ {0}
    /\ out \in Seq(Rec)

-----------------------------------------------------------------------------
\* The tables of the predictor: a destination has its routing trees if it was
\* asked for and is in the graph, and every cached record is right.
TablesRight ==
    /\ ready = dests \cap Known
    /\ DOMAIN cache \subseteq AS \X AS
    /\ CacheFresh

\* Connections wait once, are served one at a time, and nothing is sent to
\* one before it is shut down.
ConnectionsKept ==
    /\ spc \in {"recv", "init", "answer", "stopped"} <=> cur # NoClient
    /\ cur # NoClient => /\ cpc[cur] \in {"writing", "reading", "dead"}
                         /\ conn[cur] = "open"
    /\ \A i \in 1 .. Len(backlog) :
          /\ cpc[backlog[i]] \in {"writing", "reading", "dead"}
          /\ conn[backlog[i]] = "open"
          /\ backlog[i] # cur
          /\ \A j \in 1 .. Len(backlog) : backlog[i] = backlog[j] => i = j

\* The query being served: its destinations are prepared before the first
\* pair is looked up, and the records of the reply are right.
ServedRight ==
    /\ spc \in {"init", "answer"} => cpc[cur] \in {"reading", "dead"}
    /\ spc = "init" =>
          /\ out = << >>
          /\ \A i \in DOMAIN query[cur].dests :
                i < pos => query[cur].dests[i] \in dests
    /\ spc = "answer" =>
          /\ \A i \in DOMAIN query[cur].dests : query[cur].dests[i] \in dests
          /\ Len(out) = pos - 1
          /\ pos <= Len(Pairs(cur)) + 1
          /\ \A i \in 1 .. Len(out) : out[i] = Truth(Pairs(cur)[i])

\* Record r is the right one for pair i of the query, or, if the reply has n
\* complete records and i is the next one, a part of it.
RightRecord(c, i, r, n) ==
    \/ i <= n /\ r = Truth(Pairs(c)[i])
    \/ i = n + 1 /\ r # Garbage /\ r \subseteq Truth(Pairs(c)[i])

\* The client has read k records, the rest of the reply is on the wire; n of
\* all of them are complete.
InFlight(c, k, n) ==
    /\ n <= k + Len(reply[c]) /\ k + Len(reply[c]) <= n + 1
    /\ k + Len(reply[c]) <= Len(Pairs(c))
    /\ \A i \in 1 .. k : RightRecord(c, i, result[c][i], n)
    /\ \A i \in k + 1 .. Len(Pairs(c)) : result[c][i] = Garbage
    /\ \A j \in 1 .. Len(reply[c]) : RightRecord(c, k + j, reply[c][j], n)
    /\ conn[c] = "served" => n = Len(Pairs(c))
    /\ conn[c] = "open" => k + Len(reply[c]) = 0

ClientRight(c) ==
    /\ cpc[c] # "reading" => reply[c] = << >>
    /\ cpc[c] \in {"idle", "connecting"} => conn[c] = "open" /\ sent[c] = "none"
    /\ cpc[c] = "writing" => conn[c] # "served" /\ sent[c] # "all"
    /\ cpc[c] \in {"connecting", "writing", "reading", "done"} =>
          Len(result[c]) = Len(Pairs(c))
    /\ cpc[c] \in {"connecting", "writing"} =>
          \A i \in 1 .. Len(Pairs(c)) : result[c][i] = Garbage
    /\ cpc[c] \in {"reading", "done"} =>
          \E k, n \in 0 .. Len(Pairs(c)) : InFlight(c, k, n)

ClientsRight == \A c \in Client : ClientRight(c)

QueryInv ==
    /\ QueryTypeOK
    /\ TablesRight
    /\ ConnectionsKept
    /\ ServedRight
    /\ ClientsRight

-----------------------------------------------------------------------------
(* The operators *)

\* A query circuit_establish_circuit builds prepares the destination of every
\* pair it asks for, as QueryAssumption has it.
LEMMA QueryForCovers ==
    ASSUME NEW src \in AS, NEW dst \in AS,
           NEW exits \in Seq(AS), NEW entries \in Seq(AS)
    PROVE  \A i \in DOMAIN QueryFor(src, dst, exits, entries).pairs :
             \E j \in DOMAIN QueryFor(src, dst, exits, entries).dests :
                QueryFor(src, dst, exits, entries).dests[j]
                   = QueryFor(src, dst, exits, entries).pairs[i][2]
<1> DEFINE ds == <<src, dst>> \o exits \o entries
           px == [i \in 1 .. 2 * Len(exits) |->
                    IF i % 2 = 1 THEN <<exits[(i + 1) \div 2], dst>>
                                 ELSE <<dst, exits[(i + 1) \div 2]>>]
           pe == [i \in 1 .. 2 * Len(entries) |->
                    IF i % 2 = 1 THEN <<entries[(i + 1) \div 2], src>>
                                 ELSE <<src, entries[(i + 1) \div 2]>>]
<1>1. /\ QueryFor(src, dst, exits, entries).dests = ds
      /\ QueryFor(src, dst, exits, entries).pairs = px \o pe
  BY DEF QueryFor
<1>2. /\ Len(exits) \in Nat /\ Len(entries) \in Nat
      /\ DOMAIN exits = 1 .. Len(exits) /\ DOMAIN entries = 1 .. Len(entries)
      /\ \A i \in 1 .. Len(exits) : exits[i] \in AS
      /\ \A i \in 1 .. Len(entries) : entries[i] \in AS
  OBVIOUS
<1>3. /\ ds \in Seq(AS) /\ Len(ds) = 2 + Len(exits) + Len(entries)
      /\ ds[1] = src /\ ds[2] = dst
      /\ \A i \in 1 .. Len(exits) : ds[2 + i] = exits[i]
      /\ \A i \in 1 .. Len(entries) : ds[2 + Len(exits) + i] = entries[i]
  BY <1>2
<1>4. /\ DOMAIN ds = 1 .. Len(ds) /\ 1 \in DOMAIN ds /\ 2 \in DOMAIN ds
      /\ \A i \in 1 .. Len(exits) : 2 + i \in DOMAIN ds
      /\ \A i \in 1 .. Len(entries) : 2 + Len(exits) + i \in DOMAIN ds
  BY <1>2, <1>3
<1>5. \A n \in Nat : \A i \in 1 .. 2 * n : (i + 1) \div 2 \in 1 .. n
  OBVIOUS
<1>6. /\ px \in Seq(AS \X AS) /\ Len(px) = 2 * Len(exits)
      /\ pe \in Seq(AS \X AS) /\ Len(pe) = 2 * Len(entries)
  BY <1>2, <1>5
<1>7. ASSUME NEW i \in 1 .. 2 * Len(exits)
      PROVE  \E j \in DOMAIN ds : ds[j] = px[i][2]
  <2> DEFINE h == (i + 1) \div 2
  <2>1. h \in 1 .. Len(exits)
    BY <1>2, <1>5
  <2>2. px[i][2] = dst \/ px[i][2] = exits[h]
    OBVIOUS
  <2> HIDE DEF ds, px, h
  <2>3. 2 \in DOMAIN ds /\ ds[2] = dst
    BY <1>3, <1>4
  <2>4. 2 + h \in DOMAIN ds /\ ds[2 + h] = exits[h]
    BY <2>1, <1>3, <1>4
  <2> QED  BY <2>2, <2>3, <2>4
<1>8. ASSUME NEW i \in 1 .. 2 * Len(entries)
      PROVE  \E j \in DOMAIN ds : ds[j] = pe[i][2]
  <2> DEFINE h == (i + 1) \div 2
  <2>1. h \in 1 .. Len(entries)
    BY <1>2, <1>5
  <2>2. pe[i][2] = src \/ pe[i][2] = entries[h]
    OBVIOUS
  <2> HIDE DEF ds, pe, h
  <2>3. 1 \in DOMAIN ds /\ ds[1] = src
    BY <1>3, <1>4
  <2>4. 2 + Len(exits) + h \in DOMAIN ds /\ ds[2 + Len(exits) + h] = entries[h]
    BY <2>1, <1>3, <1>4
  <2> QED  BY <2>2, <2>3, <2>4
<1> HIDE DEF ds, px, pe
<1>9. /\ DOMAIN (px \o pe) = 1 .. Len(px) + Len(pe)
      /\ \A i \in 1 .. Len(px) : (px \o pe)[i] = px[i]
      /\ \A i \in Len(px) + 1 .. Len(px) + Len(pe) :
            (px \o pe)[i] = pe[i - Len(px)]
      /\ Len(px) \in Nat /\ Len(pe) \in Nat
  <2>1. Len(px) \in Nat /\ Len(pe) \in Nat
    BY <1>2, <1>6
  <2>2. px \o pe \in Seq(AS \X AS) /\ Len(px \o pe) = Len(px) + Len(pe)
    BY <1>6, ConcatProperties
  <2>3. DOMAIN (px \o pe) = 1 .. Len(px) + Len(pe)
    BY <2>2
  <2>4. \A i \in 1 .. Len(px) : (px \o pe)[i] = px[i]
    BY <1>6
  <2>5. \A i \in Len(px) + 1 .. Len(px) + Len(pe) :
           (px \o pe)[i] = pe[i - Len(px)]
    BY <1>6, ConcatProperties
  <2> QED  BY <2>1, <2>3, <2>4, <2>5
<1>10. ASSUME NEW i \in DOMAIN (px \o pe)
       PROVE  \E j \in DOMAIN ds : ds[j] = (px \o pe)[i][2]
  <2>1. CASE i \in 1 .. Len(px)
    <3>1. i \in 1 .. 2 * Len(exits)
      BY <2>1, <1>6
    <3> QED  BY <2>1, <3>1, <1>7, <1>9
  <2>2. CASE i \in Len(px) + 1 .. Len(px) + Len(pe)
    <3>1. i - Len(px) \in 1 .. Len(pe)
      BY <2>2, <1>9
    <3>2. i - Len(px) \in 1 .. 2 * Len(entries)
      BY <3>1, <1>6
    <3>3. (px \o pe)[i] = pe[i - Len(px)]
      BY <2>2, <1>9
    <3> DEFINE k == i - Len(px)
    <3> HIDE DEF k
    <3>4. \E j \in DOMAIN ds : ds[j] = pe[k][2]
      BY <3>2, <1>8 DEF k
    <3> QED  BY <3>3, <3>4 DEF k
  <2> QED  BY <2>1, <2>2, <1>9
<1> QED  BY <1>1, <1>10

\* The right record of a pair is a record, and no record is Garbage.
LEMMA RecordFacts ==
    /\ \A r \in Rec : r # Garbage
    /\ \A p \in AS \X AS : \A r \in SUBSET Truth(p) : r \in Rec
<1>1. \A r \in Rec : r # Garbage
  BY QueryAssumption DEF Rec
<1>2. \A p \in AS \X AS : Truth(p) \subseteq Route[p]
  BY DEF Truth
<1> QED  BY <1>1, <1>2 DEF Rec

\* The pairs of a query, in the order the client sends them.
LEMMA QueryFacts ==
    ASSUME QueryTypeOK, NEW c \in Client
    PROVE  /\ query[c] \in Queries
           /\ Pairs(c) \in Seq(AS \X AS)
           /\ Len(Pairs(c)) \in Nat
           /\ DOMAIN Pairs(c) = 1 .. Len(Pairs(c))
           /\ \A i \in 1 .. Len(Pairs(c)) :
                 /\ Pairs(c)[i] \in AS \X AS
                 /\ \E j \in DOMAIN query[c].dests :
                       query[c].dests[j] = Pairs(c)[i][2]
           /\ query[c].dests \in Seq(AS)
<1>1. query[c] \in Queries
  BY DEF QueryTypeOK
<1>2. Pairs(c) \in Seq(AS \X AS) /\ query[c].dests \in Seq(AS)
  BY <1>1, QueryAssumption DEF Pairs
<1>3. \A i \in DOMAIN Pairs(c) :
        \E j \in DOMAIN query[c].dests : query[c].dests[j] = Pairs(c)[i][2]
  BY <1>1, QueryAssumption DEF Pairs
<1> QED  BY <1>1, <1>2, <1>3

\* A client that a step does not touch.
LEMMA ClientSame ==
    ASSUME NEW c \in Client, ClientRight(c),
           cpc'[c] = cpc[c], query'[c] = query[c], sent'[c] = sent[c],
           result'[c] = result[c], reply'[c] = reply[c], conn'[c] = conn[c]
    PROVE  ClientRight(c)'
<1>1. Pairs(c)' = Pairs(c)
  BY DEF Pairs
<1>2. ASSUME NEW k, NEW n PROVE InFlight(c, k, n)' <=> InFlight(c, k, n)
  BY <1>1 DEF InFlight, RightRecord, Truth
<1> QED  BY <1>1, <1>2 DEF ClientRight

\* The predictor's own steps leave the clients alone.
LEMMA ClientsSame ==
    ASSUME ClientsRight, UNCHANGED <<cpc, query, sent, result, reply, conn>>
    PROVE  ClientsRight'
  BY ClientSame DEF ClientsRight

\* Marking a destination as prepared.
LEMMA PrepareStep ==
    ASSUME TablesRight, NEW t, Prepare(t)
    PROVE  ready' = dests' \cap Known /\ dests \subseteq dests' /\ t \in dests'
  BY DEF TablesRight, Prepare

\* Adding a right answer keeps the pair cache right.
LEMMA CacheAddStep ==
    ASSUME TablesRight, NEW p \in AS \X AS, CacheAdd(p, Truth(p))
    PROVE  DOMAIN cache' \subseteq AS \X AS /\ CacheFresh'
<1>1. cache' = [k \in DOMAIN cache \cup {p} |->
                  IF k = p THEN Truth(p) ELSE cache[k]]
  BY DEF CacheAdd
<1>2. DOMAIN cache' = DOMAIN cache \cup {p}
  BY <1>1
<1>3. \A k \in DOMAIN cache' : cache'[k] = Truth(k)
  BY <1>1, <1>2 DEF TablesRight, CacheFresh
<1> QED  BY <1>2, <1>3 DEF TablesRight, CacheFresh, Truth

-----------------------------------------------------------------------------
\* Client and predictor start in the invariant.
LEMMA QueryInitInv == Init => QueryInv
<1> SUFFICES ASSUME Init PROVE QueryInv
  OBVIOUS
<1> USE DEF Init
<1>1. QueryTypeOK
  BY DEF QueryTypeOK, NoClient
<1>2. TablesRight
  BY DEF TablesRight, CacheFresh
<1>3. ConnectionsKept /\ ServedRight
  BY DEF ConnectionsKept, ServedRight, NoClient
<1>4. ClientsRight
  BY DEF ClientsRight, ClientRight
<1> QED  BY <1>1, <1>2, <1>3, <1>4 DEF QueryInv

-----------------------------------------------------------------------------
(* The predictor *)

\* LoadPair keeps the invariant.
LEMMA LoadPairStep ==
    ASSUME QueryInv, LoadPair
    PROVE  QueryInv'
<1> USE DEF QueryInv
<1>1. /\ spc = "load" /\ pos <= Len(Precomp)
      /\ UNCHANGED <<cpc, query, sent, result, reply, conn, backlog, cur, out>>
  BY DEF LoadPair, cvars, wire
<1>2. ClientsRight'
  BY <1>1, ClientsSame
<1>3. CASE Precomp[pos] \in DOMAIN cache
  <2>1. spc' = "down" /\ UNCHANGED <<pos, dests, ready, cache>>
    BY <1>3 DEF LoadPair
  <2> QED  BY <1>1, <1>2, <2>1 DEF QueryTypeOK, TablesRight, CacheFresh, Truth,
              ConnectionsKept, ServedRight
<1>4. CASE Precomp[pos] \notin DOMAIN cache
  <2> DEFINE p == Precomp[pos]
  <2>1. /\ CacheAdd(p, Route[p]) /\ Prepare(p[2])
        /\ pos' = pos + 1 /\ spc' = spc
    BY <1>4 DEF LoadPair
  <2>2. pos \in Nat \ {0} /\ Precomp \in Seq(AS \X Known) /\ Known \subseteq AS
    BY QueryAssumption DEF QueryTypeOK
  <2>3. p \in AS \X Known
    BY <1>1, <2>2
  <2>4. p \in AS \X AS /\ Truth(p) = Route[p]
    BY <2>2, <2>3 DEF Truth
  <2>5. TablesRight'
    <3> HIDE DEF p
    <3>1. CacheAdd(p, Truth(p))
      BY <2>1, <2>4
    <3> QED  BY <2>1, <2>4, <3>1, PrepareStep, CacheAddStep DEF TablesRight
  <2>6. QueryTypeOK'
    BY <1>1, <2>1, <2>2 DEF QueryTypeOK
  <2>7. ConnectionsKept' /\ ServedRight'
    BY <1>1, <2>1 DEF ConnectionsKept, ServedRight
  <2> QED  BY <1>2, <2>5, <2>6, <2>7
<1> QED  BY <1>3, <1>4

\* StartListening keeps the invariant.
LEMMA StartListeningStep ==
    ASSUME QueryInv, StartListening \/ Throw
    PROVE  QueryInv'
<1> USE DEF QueryInv
<1>1. /\ \/ spc = "load" /\ spc' = "accept"
         \/ spc \in {"recv", "init", "answer"} /\ spc' = "stopped"
      /\ UNCHANGED <<cpc, query, sent, result, reply, conn, backlog, cur, pos,
                     dests, ready, cache, out>>
  BY DEF StartListening, Throw, cvars, wire
<1>2. ClientsRight'
  BY <1>1, ClientsSame
<1>3. TablesRight'
  BY <1>1 DEF TablesRight, CacheFresh, Truth
<1>4. QueryTypeOK' /\ ConnectionsKept' /\ ServedRight'
  BY <1>1 DEF QueryTypeOK, ConnectionsKept, ServedRight
<1> QED  BY <1>2, <1>3, <1>4

\* Accept keeps the invariant.
LEMMA AcceptStep ==
    ASSUME QueryInv, Accept
    PROVE  QueryInv'
<1> USE DEF QueryInv
<1>1. /\ spc = "accept" /\ spc' = "recv" /\ backlog # << >>
      /\ cur' = Head(backlog) /\ backlog' = Tail(backlog)
      /\ UNCHANGED <<cpc, query, sent, result, reply, conn, pos, dests, ready,
                     cache, out>>
  BY DEF Accept, cvars
<1>2. backlog \in Seq(Client)
  BY DEF QueryTypeOK
<1>3. /\ backlog' \in Seq(Client) /\ Len(backlog') = Len(backlog) - 1
      /\ Len(backlog) \in Nat \ {0}
      /\ cur' = backlog[1] /\ cur' \in Client
      /\ \A i \in 1 .. Len(backlog') : backlog'[i] = backlog[i + 1]
                                       /\ i + 1 \in 1 .. Len(backlog)
  BY <1>1, <1>2
<1>4. QueryTypeOK'
  BY <1>1, <1>3 DEF QueryTypeOK
<1>5. cur' # NoClient
  BY <1>3, QueryAssumption
<1>6. ConnectionsKept'
  <2>1. /\ cpc'[cur'] \in {"writing", "reading", "dead"}
        /\ conn'[cur'] = "open"
    BY <1>1, <1>3 DEF ConnectionsKept
  <2>2. ASSUME NEW i \in 1 .. Len(backlog')
        PROVE  /\ cpc'[backlog'[i]] \in {"writing", "reading", "dead"}
               /\ conn'[backlog'[i]] = "open"
               /\ backlog'[i] # cur'
               /\ \A j \in 1 .. Len(backlog') :
                     backlog'[i] = backlog'[j] => i = j
    <3>1. /\ cpc[backlog[i + 1]] \in {"writing", "reading", "dead"}
          /\ conn[backlog[i + 1]] = "open"
          /\ \A j \in 1 .. Len(backlog) :
                backlog[i + 1] = backlog[j] => i + 1 = j
      BY <1>3 DEF ConnectionsKept
    <3>2. backlog'[i] # cur'
      BY <1>3, <3>1
    <3>3. \A j \in 1 .. Len(backlog') : backlog'[i] = backlog'[j] => i = j
      BY <1>3, <3>1
    <3> QED  BY <1>1, <1>3, <3>1, <3>2, <3>3
  <2> QED  BY <1>1, <1>5, <2>1, <2>2 DEF ConnectionsKept
<1>7. TablesRight' /\ ServedRight'
  BY <1>1 DEF TablesRight, CacheFresh, Truth, ServedRight
<1>8. ClientsRight'
  BY <1>1, ClientsSame
<1> QED  BY <1>4, <1>6, <1>7, <1>8

\* Receive keeps the invariant.
LEMMA ReceiveStep ==
    ASSUME QueryInv, Receive
    PROVE  QueryInv'
<1> USE DEF QueryInv
<1>1. /\ spc = "recv" /\ sent[cur] = "all" /\ spc' = "init" /\ pos' = 1
      /\ out' = << >>
      /\ UNCHANGED <<cpc, query, sent, result, reply, conn, backlog, cur,
                     dests, ready, cache>>
  BY DEF Receive, cvars, wire
<1>2. cur \in Client /\ cpc[cur] \in {"writing", "reading", "dead"}
  BY <1>1 DEF ConnectionsKept, QueryTypeOK
<1>3. cpc[cur] \in {"reading", "dead"}
  BY <1>1, <1>2 DEF ClientsRight, ClientRight
<1>4. QueryTypeOK'
  BY <1>1 DEF QueryTypeOK
<1>5. ConnectionsKept'
  BY <1>1 DEF ConnectionsKept
<1>6. ServedRight'
  <2>1. query[cur].dests \in Seq(AS)
    BY <1>2, QueryFacts
  <2> QED  BY <1>1, <1>3, <2>1 DEF ServedRight
<1>7. TablesRight'
  BY <1>1 DEF TablesRight, CacheFresh, Truth
<1>8. ClientsRight'
  BY <1>1, ClientsSame
<1> QED  BY <1>4, <1>5, <1>6, <1>7, <1>8

\* InitDest keeps the invariant.
LEMMA InitDestStep ==
    ASSUME QueryInv, InitDest
    PROVE  QueryInv'
<1> USE DEF QueryInv
<1>1. /\ spc = "init"
      /\ UNCHANGED <<cpc, query, sent, result, reply, conn, backlog, cur,
                     cache, out>>
  BY DEF InitDest, cvars, wire
<1>2. cur \in Client
  BY <1>1 DEF ConnectionsKept, QueryTypeOK
<1>3. /\ query[cur].dests \in Seq(AS) /\ pos \in Nat \ {0} /\ out = << >>
      /\ Len(Pairs(cur)) \in Nat
  BY <1>1, <1>2, QueryFacts DEF QueryTypeOK, ServedRight
<1>4. ClientsRight'
  BY <1>1, ClientsSame
<1>5. CASE pos <= Len(query[cur].dests)
  <2> DEFINE t == query[cur].dests[pos]
  <2>1. Prepare(t) /\ pos' = pos + 1 /\ spc' = spc
    BY <1>5 DEF InitDest
  <2> HIDE DEF t
  <2>2. ready' = dests' \cap Known /\ dests \subseteq dests' /\ t \in dests'
    BY <2>1, PrepareStep
  <2>3. QueryTypeOK' /\ TablesRight' /\ ConnectionsKept'
    BY <1>1, <2>1, <2>2 DEF QueryTypeOK, TablesRight, CacheFresh, Truth,
           ConnectionsKept
  <2>4. ASSUME NEW i \in DOMAIN query[cur].dests, i < pos'
        PROVE  query[cur].dests[i] \in dests'
    <3>1. i \in Nat
      BY <1>3
    <3>2. CASE i < pos
      BY <1>1, <2>2, <3>2 DEF ServedRight
    <3>3. CASE i = pos
      BY <2>2, <3>3 DEF t
    <3> QED  BY <1>3, <2>1, <2>4, <3>1, <3>2, <3>3
  <2>5. ServedRight'
    BY <1>1, <2>1, <2>4 DEF ServedRight
  <2> QED  BY <1>4, <2>3, <2>5
<1>6. CASE ~(pos <= Len(query[cur].dests))
  <2>1. spc' = "answer" /\ pos' = 1 /\ UNCHANGED <<dests, ready>>
    BY <1>6 DEF InitDest
  <2>2. QueryTypeOK' /\ TablesRight' /\ ConnectionsKept'
    BY <1>1, <2>1 DEF QueryTypeOK, TablesRight, CacheFresh, Truth,
           ConnectionsKept
  <2>3. \A i \in DOMAIN query[cur].dests : query[cur].dests[i] \in dests
    BY <1>1, <1>3, <1>6 DEF ServedRight
  <2>4. ServedRight'
    BY <1>1, <1>3, <2>1, <2>3 DEF ServedRight, Pairs
  <2> QED  BY <1>4, <2>2, <2>4
<1> QED  BY <1>5, <1>6

\* AnswerPair keeps the invariant.
LEMMA AnswerPairStep ==
    ASSUME QueryInv, AnswerPair
    PROVE  QueryInv'
<1> USE DEF QueryInv
<1> DEFINE p == Pairs(cur)[pos]
<1>1. /\ spc = "answer" /\ pos <= Len(Pairs(cur)) /\ pos' = pos + 1
      /\ UNCHANGED <<cpc, query, sent, result, reply, conn, backlog, spc, cur,
                     dests, ready>>
  BY DEF AnswerPair, cvars, wire, Pairs
<1>2. cur \in Client /\ pos \in Nat \ {0} /\ out \in Seq(Rec)
  BY <1>1 DEF ConnectionsKept, QueryTypeOK
<1>3. /\ p \in AS \X AS /\ Len(Pairs(cur)) \in Nat
      /\ \E j \in DOMAIN query[cur].dests : query[cur].dests[j] = p[2]
  BY <1>1, <1>2, QueryFacts
<1>4. Record(p) = Truth(p) /\ Truth(p) \in Rec
  BY <1>1, <1>3, RecordFacts DEF Record, Truth, ServedRight, TablesRight
<1>5. out' = Append(out, Truth(p)) /\ DOMAIN cache' \subseteq AS \X AS /\ CacheFresh'
  <2>1. CASE p \in DOMAIN cache
    <3>1. out' = Append(out, cache[p]) /\ cache' = cache
      BY <2>1 DEF AnswerPair, Pairs
    <3> QED  BY <2>1, <3>1 DEF TablesRight, CacheFresh, Truth
  <2>2. CASE p \notin DOMAIN cache
    <3>1. out' = Append(out, Record(p)) /\ CacheAdd(p, Record(p))
      BY <2>2 DEF AnswerPair, Pairs
    <3> QED  BY <3>1, <1>3, <1>4, CacheAddStep
  <2> QED  BY <2>1, <2>2
<1> HIDE DEF p
<1>6. /\ out' \in Seq(Rec) /\ Len(out') = pos
      /\ \A i \in 1 .. Len(out') : out'[i] = Truth(Pairs(cur)[i])
  <2>1. /\ Len(out) = pos - 1
        /\ \A i \in 1 .. Len(out) : out[i] = Truth(Pairs(cur)[i])
    BY <1>1 DEF ServedRight
  <2>2. /\ out' \in Seq(Rec) /\ Len(out') = pos
        /\ \A i \in 1 .. pos - 1 : out'[i] = out[i]
        /\ out'[pos] = Truth(p)
    BY <1>2, <1>4, <1>5, <2>1
  <2> QED  BY <1>2, <2>1, <2>2 DEF p
<1>7. QueryTypeOK' /\ TablesRight' /\ ConnectionsKept'
  BY <1>1, <1>2, <1>5, <1>6 DEF QueryTypeOK, TablesRight, ConnectionsKept
<1>8. ServedRight'
  <2>1. Len(out') = pos' - 1 /\ pos' <= Len(Pairs(cur)) + 1
    BY <1>1, <1>2, <1>3, <1>6
  <2> QED  BY <1>1, <1>6, <2>1 DEF ServedRight, Pairs, Truth
<1>9. ClientsRight'
  BY <1>1, ClientsSame
<1> QED  BY <1>7, <1>8, <1>9

\* SendReply keeps the invariant.
LEMMA SendReplyStep ==
    ASSUME QueryInv, SendReply
    PROVE  QueryInv'
<1> USE DEF QueryInv
<1>1. /\ spc = "answer" /\ pos > Len(Pairs(cur))
      /\ reply' = [reply EXCEPT ![cur] = IF cpc[cur] = "dead" THEN @ ELSE out]
      /\ conn' = [conn EXCEPT ![cur] = "served"]
      /\ spc' = "accept" /\ cur' = NoClient
      /\ UNCHANGED <<cpc, query, sent, result, backlog, pos, dests, ready,
                     cache, out>>
  BY DEF SendReply, cvars, Pairs
<1>2. /\ cur \in Client /\ cur # NoClient /\ pos \in Nat /\ out \in Seq(Rec)
      /\ Len(Pairs(cur)) \in Nat
  BY <1>1, QueryFacts DEF ConnectionsKept, QueryTypeOK
<1>3. /\ cpc[cur] \in {"reading", "dead"} /\ conn[cur] = "open"
      /\ Len(out) = Len(Pairs(cur))
      /\ \A i \in 1 .. Len(out) : out[i] = Truth(Pairs(cur)[i])
  BY <1>1, <1>2 DEF ServedRight, ConnectionsKept
<1>4. /\ conn' \in [Client -> {"open", "served", "reset"}]
      /\ conn'[cur] = "served"
      /\ reply' \in [Client -> Seq(Rec)]
      /\ reply'[cur] = IF cpc[cur] = "dead" THEN reply[cur] ELSE out
      /\ \A c \in Client \ {cur} : reply'[c] = reply[c] /\ conn'[c] = conn[c]
  BY <1>1, <1>2 DEF QueryTypeOK
<1>5. QueryTypeOK'
  BY <1>1, <1>4 DEF QueryTypeOK
<1>6. TablesRight' /\ ServedRight'
  BY <1>1 DEF TablesRight, CacheFresh, Truth, ServedRight
<1>7. ConnectionsKept'
  <2>1. \A i \in 1 .. Len(backlog) : backlog[i] \in Client /\ backlog[i] # cur
    BY DEF ConnectionsKept, QueryTypeOK
  <2>2. \A i \in 1 .. Len(backlog) : backlog[i] # NoClient
    BY <2>1, QueryAssumption
  <2> QED  BY <1>1, <1>4, <2>1, <2>2 DEF ConnectionsKept
<1>8. ASSUME NEW c \in Client PROVE ClientRight(c)'
  <2>0. ClientRight(c)
    BY DEF ClientsRight
  <2>1. CASE c # cur
    BY <1>1, <1>4, <2>0, <2>1, ClientSame
  <2>2. CASE c = cur /\ cpc[c] = "dead"
    BY <1>1, <1>4, <2>0, <2>2 DEF ClientRight
  <2>3. CASE c = cur /\ cpc[c] = "reading"
    <3>1. PICK k, n \in 0 .. Len(Pairs(c)) : InFlight(c, k, n)
      BY <2>0, <2>3 DEF ClientRight
    <3>2. k = 0 /\ Len(Pairs(c)) \in Nat /\ Pairs(c)' = Pairs(c)
      <4>1. k + Len(reply[c]) = 0 /\ k \in Nat /\ Len(reply[c]) \in Nat
        BY <1>2, <1>3, <2>3, <3>1 DEF InFlight, QueryTypeOK
      <4> QED  BY <4>1, <1>1, <1>2, <2>3 DEF Pairs
    <3>3. PICK m \in 0 .. Len(Pairs(c)) : m = Len(Pairs(c))
      BY <3>2
    <3>4. InFlight(c, 0, m)'
      <4>1. \A i \in 0 + 1 .. Len(Pairs(c)') : result'[c][i] = Garbage
        BY <1>1, <3>1, <3>2 DEF InFlight
      <4>2. /\ reply'[c] = out /\ conn'[c] = "served"
            /\ Len(out) = m /\ 0 + Len(out) = m /\ Len(Pairs(c)') = m
        BY <1>2, <1>3, <1>4, <2>3, <3>2, <3>3
      <4>3. ASSUME NEW j \in 1 .. Len(out)
            PROVE  RightRecord(c, 0 + j, reply[c][j], m)'
        <5>1. 0 + j = j /\ j <= m
          BY <3>3, <4>2, <3>2
        <5>2. reply'[c][j] = Truth(Pairs(c)[j])
          BY <1>3, <2>3, <4>2
        <5>3. Truth(Pairs(c)[j])' = Truth(Pairs(c)[j])
          BY <3>2 DEF Truth
        <5> QED  BY <3>2, <5>1, <5>2, <5>3 DEF RightRecord, Truth
      <4> QED  BY <3>3, <4>1, <4>2, <4>3, <3>2 DEF InFlight
    <3>5. \E a, b \in 0 .. Len(Pairs(c)') : InFlight(c, a, b)'
      BY <3>2, <3>3, <3>4
    <3> QED  BY <1>1, <2>0, <2>3, <3>2, <3>5 DEF ClientRight
  <2> QED  BY <1>3, <2>1, <2>2, <2>3
<1> QED  BY <1>5, <1>6, <1>7, <1>8 DEF ClientsRight

\* What arrives of a reply that is cut short: n complete records, or n and a
\* part of the next one.
LEMMA CutShortFacts ==
    ASSUME QueryInv, NEW some \in CutShort
    PROVE  /\ some \in Seq(Rec)
           /\ \/ some = << >>
              \/ /\ cur \in Client /\ cpc[cur] \in {"reading", "dead"}
                 /\ \E n \in 0 .. Len(Pairs(cur)) :
                       /\ n <= Len(some) /\ Len(some) <= n + 1
                       /\ Len(some) <= Len(Pairs(cur))
                       /\ \A j \in 1 .. Len(some) :
                             RightRecord(cur, j, some[j], n)
<1> USE DEF QueryInv
<1>1. CASE ~(spc = "answer" /\ pos > Len(query[cur].pairs))
  <2>1. some = << >>
    BY <1>1 DEF CutShort
  <2> QED  BY <2>1
<1>2. CASE spc = "answer" /\ pos > Len(query[cur].pairs)
  <2>1. /\ cur \in Client /\ pos \in Nat /\ out \in Seq(Rec)
        /\ Len(Pairs(cur)) \in Nat
    BY <1>2, QueryFacts DEF ConnectionsKept, QueryTypeOK
  <2>2. /\ cpc[cur] \in {"reading", "dead"}
        /\ Len(out) = Len(Pairs(cur))
        /\ \A i \in 1 .. Len(out) : out[i] = Truth(Pairs(cur)[i])
                                    /\ Pairs(cur)[i] \in AS \X AS
    BY <1>2, <2>1, QueryFacts DEF ServedRight, Pairs
  <2>3. ASSUME NEW n \in 0 .. Len(out)
        PROVE  /\ SubSeq(out, 1, n) \in Seq(Rec) /\ Len(SubSeq(out, 1, n)) = n
               /\ \A j \in 1 .. n : SubSeq(out, 1, n)[j] = out[j]
    BY <2>1, SubSeqProperties
  <2>4. CASE \E n \in 0 .. Len(out) : some = SubSeq(out, 1, n)
    <3>1. PICK n \in 0 .. Len(out) : some = SubSeq(out, 1, n)
      BY <2>4
    <3>2. /\ some \in Seq(Rec) /\ Len(some) = n
          /\ \A j \in 1 .. n : some[j] = out[j]
      BY <2>3, <3>1
    <3>3. \A j \in 1 .. Len(some) : RightRecord(cur, j, some[j], n)
      BY <2>1, <2>2, <3>2 DEF RightRecord
    <3> QED  BY <2>1, <2>2, <3>2, <3>3
  <2>5. CASE \E n \in 0 .. Len(out) - 1 :
               \E part \in SUBSET out[n + 1] : some = Append(SubSeq(out, 1, n), part)
    <3>0. PICK n \in 0 .. Len(out) - 1 :
            \E part \in SUBSET out[n + 1] :
               some = Append(SubSeq(out, 1, n), part)
      BY <2>5
    <3>1. PICK part \in SUBSET out[n + 1] :
            some = Append(SubSeq(out, 1, n), part)
      BY <3>0
    <3>2. n \in Nat /\ n + 1 \in 1 .. Len(out) /\ n \in 0 .. Len(out)
      BY <2>1
    <3>3. /\ part \in Rec /\ part # Garbage
          /\ part \subseteq Truth(Pairs(cur)[n + 1])
      BY <2>2, <3>2, RecordFacts
    <3>4. /\ SubSeq(out, 1, n) \in Seq(Rec) /\ Len(SubSeq(out, 1, n)) = n
          /\ \A j \in 1 .. n : SubSeq(out, 1, n)[j] = out[j]
      BY <2>3, <3>2
    <3>5. /\ some \in Seq(Rec) /\ Len(some) = n + 1 /\ some[n + 1] = part
          /\ \A j \in 1 .. n : some[j] = out[j]
      BY <3>1, <3>2, <3>3, <3>4, AppendProperties
    <3>6. ASSUME NEW j \in 1 .. Len(some)
          PROVE  RightRecord(cur, j, some[j], n)
      <4>1. CASE j = n + 1
        BY <3>3, <3>5, <4>1 DEF RightRecord
      <4>2. CASE j \in 1 .. n
        BY <2>1, <2>2, <3>2, <3>5, <4>2 DEF RightRecord
      <4> QED  BY <3>2, <3>5, <4>1, <4>2
    <3>7. n \in 0 .. Len(Pairs(cur)) /\ Len(some) <= Len(Pairs(cur))
      BY <2>1, <2>2, <3>2, <3>5
    <3> QED  BY <2>1, <2>2, <3>2, <3>5, <3>6, <3>7
  <2>6. some \in {SubSeq(out, 1, n) : n \in 0 .. Len(out)}
           \cup UNION {{Append(SubSeq(out, 1, n), part) :
                          part \in SUBSET out[n + 1] \ {{}, out[n + 1]}} :
                       n \in 0 .. Len(out) - 1}
    BY <1>2 DEF CutShort
  <2> QED  BY <2>4, <2>5, <2>6
<1> QED  BY <1>1, <1>2

\* Kill keeps the invariant.
LEMMA KillStep ==
    ASSUME QueryInv, Kill
    PROVE  QueryInv'
<1> USE DEF QueryInv
<1>1. /\ spc' = "down"
      /\ conn' = [c \in Client |->
                    IF cpc[c] \in {"writing", "reading"} /\ conn[c] = "open"
                    THEN "reset" ELSE conn[c]]
      /\ backlog' = << >> /\ cur' = NoClient
      /\ UNCHANGED <<cpc, query, sent, result, pos, dests, ready, cache, out>>
  BY DEF Kill, cvars
<1>2. PICK some \in CutShort :
        reply' = [c \in Client |->
                    IF c = cur /\ cpc[c] # "dead" THEN some ELSE reply[c]]
  BY DEF Kill
<1>3. /\ some \in Seq(Rec)
      /\ \/ some = << >>
         \/ /\ cur \in Client /\ cpc[cur] \in {"reading", "dead"}
            /\ \E n \in 0 .. Len(Pairs(cur)) :
                  /\ n <= Len(some) /\ Len(some) <= n + 1
                  /\ Len(some) <= Len(Pairs(cur))
                  /\ \A j \in 1 .. Len(some) : RightRecord(cur, j, some[j], n)
  BY CutShortFacts
<1>4. QueryTypeOK'
  BY <1>1, <1>2, <1>3 DEF QueryTypeOK
<1>5. TablesRight' /\ ServedRight' /\ ConnectionsKept'
  BY <1>1 DEF TablesRight, CacheFresh, Truth, ServedRight, ConnectionsKept
<1>6. ASSUME NEW c \in Client PROVE ClientRight(c)'
  <2>0. /\ ClientRight(c) /\ Pairs(c)' = Pairs(c) /\ Len(Pairs(c)) \in Nat
        /\ Len(reply[c]) \in Nat
    BY <1>1, QueryFacts DEF ClientsRight, Pairs, QueryTypeOK
  <2>1. /\ conn'[c] \in {conn[c], "reset"}
        /\ cpc[c] \in {"idle", "connecting"} => conn'[c] = conn[c]
        /\ cpc[c] = "reading" => conn'[c] # "open"
    BY <1>1 DEF QueryTypeOK
  <2>2. CASE c # cur \/ cpc[c] = "dead"
    <3>1. reply'[c] = reply[c]
      BY <1>2, <2>2
    <3>2. ASSUME NEW k, NEW n, InFlight(c, k, n),
                 conn'[c] = "open" => conn[c] = "open"
          PROVE  InFlight(c, k, n)'
      BY <1>1, <2>0, <2>1, <3>1, <3>2 DEF InFlight, RightRecord, Truth
    <3>3. conn'[c] = "open" => conn[c] = "open"
      BY <2>1
    <3> QED  BY <1>1, <2>0, <2>1, <3>1, <3>2, <3>3 DEF ClientRight
  <2>3. CASE c = cur /\ cpc[c] # "dead"
    <3>1. reply'[c] = some /\ cpc[c] \in {"writing", "reading"}
          /\ conn[c] = "open" /\ conn'[c] = "reset"
      <4>1. cpc[c] \in {"writing", "reading"} /\ conn[c] = "open"
        BY <2>3, QueryAssumption DEF ConnectionsKept
      <4> QED  BY <1>1, <1>2, <2>3, <4>1
    <3>2. CASE cpc[c] = "writing"
      <4>1. some = << >>
        BY <1>3, <2>3, <3>2
      <4> QED  BY <1>1, <2>0, <3>1, <3>2, <4>1 DEF ClientRight
    <3>3. CASE cpc[c] = "reading"
      <4>1. PICK k0, n0 \in 0 .. Len(Pairs(c)) : InFlight(c, k0, n0)
        BY <2>0, <3>3 DEF ClientRight
      <4>2. \A i \in 1 .. Len(Pairs(c)) : result'[c][i] = Garbage
        <5>1. k0 + Len(reply[c]) = 0 /\ k0 \in Nat
          BY <2>0, <3>1, <4>1 DEF InFlight
        <5>2. k0 = 0
          BY <2>0, <5>1
        <5> QED  BY <1>1, <4>1, <5>2 DEF InFlight
      <4>3. \E n \in 0 .. Len(Pairs(c)) :
              /\ n <= Len(some) /\ Len(some) <= n + 1
              /\ Len(some) <= Len(Pairs(c))
              /\ \A j \in 1 .. Len(some) : RightRecord(c, j, some[j], n)
        <5>1. CASE some = << >>
          <6>1. 0 \in 0 .. Len(Pairs(c)) /\ Len(some) = 0 /\ 1 .. Len(some) = {}
            BY <2>0, <5>1
          <6> QED  BY <2>0, <6>1
        <5> QED  BY <1>3, <2>3, <5>1
      <4>4. PICK n \in 0 .. Len(Pairs(c)) :
              /\ n <= Len(some) /\ Len(some) <= n + 1
              /\ Len(some) <= Len(Pairs(c))
              /\ \A j \in 1 .. Len(some) : RightRecord(c, j, some[j], n)
        BY <4>3
      <4>5. InFlight(c, 0, n)'
        <5>1. Len(some) \in Nat /\ 0 + Len(some) = Len(some)
          BY <1>3
        <5>2. \A j \in 1 .. Len(some) : RightRecord(c, 0 + j, some[j], n)'
          BY <1>1, <2>0, <4>4, <5>1 DEF RightRecord, Truth
        <5> QED  BY <2>0, <3>1, <4>2, <4>4, <5>1, <5>2 DEF InFlight
      <4>6. \E a, b \in 0 .. Len(Pairs(c)') : InFlight(c, a, b)'
        BY <2>0, <4>5
      <4> QED  BY <1>1, <2>0, <3>1, <3>3, <4>6 DEF ClientRight
    <3> QED  BY <3>1, <3>2, <3>3
  <2> QED  BY <2>2, <2>3
<1> QED  BY <1>4, <1>5, <1>6 DEF ClientsRight

\* Restart keeps the invariant.
LEMMA RestartStep ==
    ASSUME QueryInv, Restart
    PROVE  QueryInv'
<1> USE DEF QueryInv
<1>1. /\ spc = "down" /\ spc' = "load" /\ pos' = 1 /\ dests' = {} /\ ready' = {}
      /\ cache' = << >> /\ out' = << >>
      /\ UNCHANGED <<cpc, query, sent, result, reply, conn, backlog, cur>>
  BY DEF Restart, cvars, wire
<1>2. QueryTypeOK'
  BY <1>1 DEF QueryTypeOK
<1>3. TablesRight'
  BY <1>1 DEF TablesRight, CacheFresh
<1>4. ConnectionsKept' /\ ServedRight'
  BY <1>1 DEF ConnectionsKept, ServedRight
<1>5. ClientsRight'
  BY <1>1, ClientsSame
<1> QED  BY <1>2, <1>3, <1>4, <1>5

-----------------------------------------------------------------------------
(* get_aspath *)

\* A step of a client leaves the predictor alone, and does not take away a
\* connection it serves or will serve.
LEMMA PredictorSame ==
    ASSUME QueryInv, UNCHANGED <<svars, backlog>>,
           \A d \in Client :
              cpc[d] \in {"writing", "reading", "dead"} /\ conn[d] = "open" =>
                 /\ cpc'[d] \in {"writing", "reading", "dead"}
                 /\ cpc[d] \in {"reading", "dead"} =>
                       cpc'[d] \in {"reading", "dead"}
                 /\ conn'[d] = "open"
                 /\ query'[d] = query[d]
    PROVE  TablesRight' /\ ConnectionsKept' /\ ServedRight'
<1> USE DEF QueryInv
<1>1. UNCHANGED <<spc, cur, pos, dests, ready, cache, out, backlog>>
  BY DEF svars
<1>2. TablesRight'
  BY <1>1 DEF TablesRight, CacheFresh, Truth
<1>3. /\ \A i \in 1 .. Len(backlog) : backlog[i] \in Client
      /\ cur # NoClient => cur \in Client
  BY DEF QueryTypeOK
<1>4. ConnectionsKept'
  BY <1>1, <1>3 DEF ConnectionsKept
<1>5. ServedRight'
  <2>1. CASE spc \notin {"init", "answer"}
    BY <1>1, <2>1 DEF ServedRight
  <2>2. CASE spc \in {"init", "answer"}
    <3>1. /\ cur \in Client /\ cpc[cur] \in {"reading", "dead"}
          /\ conn[cur] = "open"
      BY <1>3, <2>2 DEF ConnectionsKept, ServedRight
    <3>2. /\ query'[cur'] = query[cur] /\ cpc'[cur'] \in {"reading", "dead"}
          /\ Pairs(cur)' = Pairs(cur)
      BY <1>1, <3>1 DEF Pairs
    <3> QED  BY <1>1, <3>2 DEF ServedRight, Truth, Pairs
  <2> QED  BY <2>1, <2>2
<1> QED  BY <1>2, <1>4, <1>5

\* The parser is at the record after the ones it has read.
LEMMA RecordsCount ==
    ASSUME QueryInv, NEW c \in Client, cpc[c] = "reading",
           NEW k \in 0 .. Len(Pairs(c)), NEW n \in 0 .. Len(Pairs(c)),
           InFlight(c, k, n)
    PROVE  Records(c) = k
<1> USE DEF QueryInv
<1>1. /\ Len(Pairs(c)) \in Nat /\ k \in Nat
      /\ \A i \in 1 .. Len(Pairs(c)) : Pairs(c)[i] \in AS \X AS
  BY QueryFacts
<1>2. DOMAIN result[c] = 1 .. Len(Pairs(c))
  BY DEF QueryTypeOK, ClientsRight, ClientRight
<1>3. \A i \in 1 .. k : result[c][i] # Garbage
  <2> SUFFICES ASSUME NEW i \in 1 .. k PROVE result[c][i] # Garbage
    OBVIOUS
  <2>1. RightRecord(c, i, result[c][i], n) /\ i \in 1 .. Len(Pairs(c))
    BY <1>1 DEF InFlight
  <2>2. Truth(Pairs(c)[i]) # Garbage
    BY <1>1, <2>1, RecordFacts
  <2> QED  BY <2>1, <2>2 DEF RightRecord
<1>4. \A i \in k + 1 .. Len(Pairs(c)) : result[c][i] = Garbage
  BY DEF InFlight
<1>5. {i \in DOMAIN result[c] : result[c][i] # Garbage} = 1 .. k
  BY <1>1, <1>2, <1>3, <1>4
<1>6. Cardinality(1 .. k) = k
  BY <1>1, FS_Interval
<1> QED  BY <1>5, <1>6 DEF Records

\* All of result[] unwritten and nothing received: InFlight with no records.
LEMMA NothingRead ==
    ASSUME NEW c \in Client, QueryTypeOK', reply'[c] = << >>,
           conn'[c] # "served",
           \A i \in 1 .. Len(Pairs(c)') : result'[c][i] = Garbage
    PROVE  \E k, n \in 0 .. Len(Pairs(c)') : InFlight(c, k, n)'
<1>1. Len(Pairs(c)') \in Nat
  <2>1. query'[c] \in Queries
    BY DEF QueryTypeOK
  <2>2. query'[c].pairs \in Seq(AS \X AS)
    BY <2>1, QueryAssumption
  <2> QED  BY <2>2 DEF Pairs
<1>2. Len(reply'[c]) = 0 /\ 0 + Len(reply'[c]) = 0 /\ 1 .. Len(reply'[c]) = {}
  OBVIOUS
<1>3. 0 \in 0 .. Len(Pairs(c)') /\ 0 + 1 .. Len(Pairs(c)') = 1 .. Len(Pairs(c)')
      /\ 1 .. 0 = {}
  BY <1>1
<1>4. InFlight(c, 0, 0)'
  BY <1>1, <1>2, <1>3 DEF InFlight
<1> QED  BY <1>3, <1>4

\* Call keeps the invariant.
LEMMA CallStep ==
    ASSUME QueryInv, NEW c \in Client, CallGetAspath(c)
    PROVE  QueryInv'
<1> USE DEF QueryInv
<1>1. /\ cpc[c] = "idle" /\ cpc' = [cpc EXCEPT ![c] = "connecting"]
      /\ result' = [result EXCEPT ![c] =
                      [i \in 1 .. Len(Pairs(c)) |-> Garbage]]
      /\ UNCHANGED <<query, sent, reply, conn, backlog, svars>>
  BY DEF CallGetAspath, wire, Pairs
<1>2. Len(Pairs(c)) \in Nat
  BY QueryFacts
<1>3. /\ [i \in 1 .. Len(Pairs(c)) |-> Garbage] \in Seq(Rec \cup {Garbage})
      /\ Len([i \in 1 .. Len(Pairs(c)) |-> Garbage]) = Len(Pairs(c))
  BY <1>2
<1>4. QueryTypeOK'
  BY <1>1, <1>3 DEF QueryTypeOK, svars
<1>5. TablesRight' /\ ConnectionsKept' /\ ServedRight'
  BY <1>1, PredictorSame DEF QueryTypeOK
<1>6. ASSUME NEW d \in Client PROVE ClientRight(d)'
  <2>0. ClientRight(d)
    BY DEF ClientsRight
  <2>1. CASE d # c
    BY <1>1, <2>0, <2>1, ClientSame DEF QueryTypeOK
  <2>2. CASE d = c
    <3>1. /\ cpc'[d] = "connecting" /\ Pairs(d)' = Pairs(d)
          /\ result'[d] = [i \in 1 .. Len(Pairs(d)) |-> Garbage]
      BY <1>1, <2>2 DEF QueryTypeOK, Pairs
    <3> QED  BY <1>1, <1>3, <2>0, <2>2, <3>1 DEF ClientRight
  <2> QED  BY <2>1, <2>2
<1> QED  BY <1>4, <1>5, <1>6 DEF ClientsRight

\* Connect keeps the invariant.
LEMMA ConnectStep ==
    ASSUME QueryInv, NEW c \in Client, Connect(c)
    PROVE  QueryInv'
<1> USE DEF QueryInv
<1>1. /\ cpc[c] = "connecting" /\ Listening
      /\ backlog' = Append(backlog, c)
      /\ cpc' = [cpc EXCEPT ![c] = "writing"]
      /\ UNCHANGED <<query, sent, result, reply, conn, spc, cur, pos, dests,
                     ready, cache, out>>
  BY DEF Connect, svars
<1>2. /\ cpc' \in [Client -> {"idle", "connecting", "writing", "reading",
                              "done", "dead"}]
      /\ cpc'[c] = "writing" /\ \A d \in Client \ {c} : cpc'[d] = cpc[d]
  BY <1>1 DEF QueryTypeOK
<1>3. /\ backlog' \in Seq(Client) /\ Len(backlog') = Len(backlog) + 1
      /\ Len(backlog) \in Nat /\ backlog'[Len(backlog) + 1] = c
      /\ \A i \in 1 .. Len(backlog) : backlog'[i] = backlog[i]
                                      /\ backlog[i] \in Client
  BY <1>1, AppendProperties DEF QueryTypeOK
<1>4. QueryTypeOK'
  BY <1>1, <1>2, <1>3 DEF QueryTypeOK
<1>5. TablesRight' /\ ServedRight'
  <2>1. spc \in {"init", "answer"} => cur # c /\ cur \in Client
    BY <1>1 DEF ServedRight, ConnectionsKept, QueryTypeOK
  <2> QED  BY <1>1, <1>2, <2>1 DEF TablesRight, CacheFresh, Truth, ServedRight,
              Pairs
<1>6. ConnectionsKept'
  <2>1. /\ c # cur /\ conn[c] = "open"
        /\ \A i \in 1 .. Len(backlog) : backlog[i] # c
    BY <1>1, QueryAssumption DEF ConnectionsKept, ClientsRight, ClientRight
  <2>2. /\ spc' \in {"recv", "init", "answer", "stopped"} <=> cur' # NoClient
        /\ cur' # NoClient => /\ cpc'[cur'] \in {"writing", "reading", "dead"}
                              /\ conn'[cur'] = "open"
    BY <1>1, <1>2, <2>1 DEF ConnectionsKept, QueryTypeOK
  <2>3. ASSUME NEW i \in 1 .. Len(backlog')
        PROVE  /\ cpc'[backlog'[i]] \in {"writing", "reading", "dead"}
               /\ conn'[backlog'[i]] = "open"
               /\ backlog'[i] # cur'
               /\ \A j \in 1 .. Len(backlog') :
                     backlog'[i] = backlog'[j] => i = j
    <3>1. CASE i \in 1 .. Len(backlog)
      <4>1. /\ backlog'[i] = backlog[i] /\ backlog[i] # c
            /\ backlog[i] \in Client
        BY <1>3, <2>1, <3>1
      <4>2. \A j \in 1 .. Len(backlog') : backlog'[i] = backlog'[j] => i = j
        BY <1>3, <2>1, <3>1, <4>1 DEF ConnectionsKept
      <4> QED  BY <1>1, <1>2, <3>1, <4>1, <4>2 DEF ConnectionsKept
    <3>2. CASE i = Len(backlog) + 1
      BY <1>1, <1>2, <1>3, <2>1, <3>2
    <3> QED  BY <1>3, <3>1, <3>2
  <2> QED  BY <2>2, <2>3 DEF ConnectionsKept
<1>7. ASSUME NEW d \in Client PROVE ClientRight(d)'
  <2>0. ClientRight(d)
    BY DEF ClientsRight
  <2>1. CASE d # c
    BY <1>1, <1>2, <2>0, <2>1, ClientSame
  <2>2. CASE d = c
    <3>1. sent[c] # "all"
      BY <1>1, <2>0, <2>2 DEF ClientRight
    <3> QED  BY <1>1, <1>2, <2>0, <2>2, <3>1 DEF ClientRight, Pairs
  <2> QED  BY <2>1, <2>2
<1> QED  BY <1>4, <1>5, <1>6, <1>7 DEF ClientsRight

\* Refused keeps the invariant.
LEMMA RefusedStep ==
    ASSUME QueryInv, NEW c \in Client, ConnectRefused(c)
    PROVE  QueryInv'
<1> USE DEF QueryInv
<1>1. /\ cpc[c] = "connecting" /\ cpc' = [cpc EXCEPT ![c] = "done"]
      /\ UNCHANGED <<query, sent, result, reply, conn, backlog, svars>>
  BY DEF ConnectRefused, wire
<1>2. QueryTypeOK'
  BY <1>1 DEF QueryTypeOK, svars
<1>3. TablesRight' /\ ConnectionsKept' /\ ServedRight'
  BY <1>1, PredictorSame DEF QueryTypeOK
<1>4. ASSUME NEW d \in Client PROVE ClientRight(d)'
  <2>0. ClientRight(d)
    BY DEF ClientsRight
  <2>1. CASE d # c
    BY <1>1, <2>0, <2>1, ClientSame DEF QueryTypeOK
  <2>2. CASE d = c
    <3>1. /\ cpc'[d] = "done" /\ Pairs(d)' = Pairs(d) /\ reply'[d] = << >>
          /\ conn'[d] = "open" /\ Len(result'[d]) = Len(Pairs(d)')
          /\ \A i \in 1 .. Len(Pairs(d)') : result'[d][i] = Garbage
      BY <1>1, <2>0, <2>2 DEF QueryTypeOK, Pairs, ClientRight
    <3>2. \E k, n \in 0 .. Len(Pairs(d)') : InFlight(d, k, n)'
      BY <1>2, <3>1, NothingRead
    <3> QED  BY <3>1, <3>2 DEF ClientRight
  <2> QED  BY <2>1, <2>2
<1> QED  BY <1>2, <1>3, <1>4 DEF ClientsRight

\* Write keeps the invariant.
LEMMA WriteStep ==
    ASSUME QueryInv, NEW c \in Client, Write(c)
    PROVE  QueryInv'
<1> USE DEF QueryInv
<1>1. /\ cpc[c] = "writing"
      /\ UNCHANGED <<query, result, reply, conn, backlog, svars>>
      /\ \/ cpc' = cpc /\ sent' = [sent EXCEPT ![c] = "part"]
         \/ /\ sent' = [sent EXCEPT ![c] = "all"]
            /\ cpc' = [cpc EXCEPT ![c] = "reading"]
  BY DEF Write, wire
<1>2. /\ cpc' \in [Client -> {"idle", "connecting", "writing", "reading",
                              "done", "dead"}]
      /\ sent' \in [Client -> {"none", "part", "all"}]
      /\ \/ cpc'[c] = "writing" /\ sent'[c] = "part"
         \/ cpc'[c] = "reading"
      /\ \A d \in Client \ {c} : cpc'[d] = cpc[d] /\ sent'[d] = sent[d]
  BY <1>1 DEF QueryTypeOK
<1>3. QueryTypeOK'
  BY <1>1, <1>2 DEF QueryTypeOK, svars
<1>4. TablesRight' /\ ConnectionsKept' /\ ServedRight'
  BY <1>1, <1>2, PredictorSame
<1>5. ASSUME NEW d \in Client PROVE ClientRight(d)'
  <2>0. ClientRight(d)
    BY DEF ClientsRight
  <2>1. CASE d # c
    BY <1>1, <1>2, <2>0, <2>1, ClientSame
  <2>2. CASE d = c
    <3>1. /\ Pairs(d)' = Pairs(d) /\ reply'[d] = << >>
          /\ conn'[d] # "served" /\ Len(result'[d]) = Len(Pairs(d)')
          /\ \A i \in 1 .. Len(Pairs(d)') : result'[d][i] = Garbage
      BY <1>1, <2>0, <2>2 DEF Pairs, ClientRight
    <3>2. \E k, n \in 0 .. Len(Pairs(d)') : InFlight(d, k, n)'
      BY <1>3, <3>1, NothingRead
    <3> QED  BY <1>2, <2>2, <3>1, <3>2 DEF ClientRight
  <2> QED  BY <2>1, <2>2
<1> QED  BY <1>3, <1>4, <1>5 DEF ClientsRight

\* ReadRecord keeps the invariant.
LEMMA ReadRecordStep ==
    ASSUME QueryInv, NEW c \in Client, ReadRecord(c)
    PROVE  QueryInv'
<1> USE DEF QueryInv
<1>1. /\ cpc[c] = "reading" /\ reply[c] # << >>
      /\ result' = [result EXCEPT ![c] =
                      [result[c] EXCEPT ![Records(c) + 1] = Head(reply[c])]]
      /\ reply' = [reply EXCEPT ![c] = Tail(reply[c])]
      /\ UNCHANGED <<cpc, query, sent, conn, backlog, svars>>
  BY DEF ReadRecord
<1>2. /\ Len(Pairs(c)) \in Nat /\ Len(result[c]) = Len(Pairs(c))
      /\ result[c] \in Seq(Rec \cup {Garbage}) /\ reply[c] \in Seq(Rec)
      /\ Pairs(c)' = Pairs(c)
  BY <1>1, QueryFacts DEF ClientsRight, ClientRight, QueryTypeOK, Pairs
<1>3. PICK k, n \in 0 .. Len(Pairs(c)) : InFlight(c, k, n)
  BY <1>1 DEF ClientsRight, ClientRight
<1>4. Records(c) = k
  BY <1>1, <1>3, RecordsCount
<1>5. /\ Len(reply[c]) \in Nat \ {0} /\ Head(reply[c]) = reply[c][1]
      /\ Head(reply[c]) \in Rec /\ Tail(reply[c]) \in Seq(Rec)
      /\ Len(Tail(reply[c])) = Len(reply[c]) - 1
      /\ \A j \in 1 .. Len(reply[c]) - 1 : Tail(reply[c])[j] = reply[c][j + 1]
  BY <1>1, <1>2
<1>6. /\ k \in Nat /\ k + 1 \in 1 .. Len(Pairs(c))
      /\ k + Len(reply[c]) <= Len(Pairs(c)) /\ k + Len(reply[c]) # 0
  BY <1>2, <1>3, <1>5 DEF InFlight
<1> DEFINE r == [result[c] EXCEPT ![k + 1] = Head(reply[c])]
<1>7. /\ r \in Seq(Rec \cup {Garbage}) /\ Len(r) = Len(Pairs(c))
      /\ r[k + 1] = Head(reply[c])
      /\ \A i \in 1 .. Len(Pairs(c)) : i # k + 1 => r[i] = result[c][i]
  BY <1>2, <1>5, <1>6
<1>8. /\ result'[c] = r /\ \A d \in Client \ {c} : result'[d] = result[d]
      /\ reply'[c] = Tail(reply[c])
      /\ \A d \in Client \ {c} : reply'[d] = reply[d]
      /\ result' \in [Client -> Seq(Rec \cup {Garbage})]
      /\ reply' \in [Client -> Seq(Rec)]
  BY <1>1, <1>4, <1>5, <1>7 DEF QueryTypeOK
<1> HIDE DEF r
<1>9. QueryTypeOK'
  BY <1>1, <1>8 DEF QueryTypeOK, svars
<1>10. TablesRight' /\ ConnectionsKept' /\ ServedRight'
  BY <1>1, PredictorSame
<1>11. InFlight(c, k + 1, n)'
  <2>1. /\ (k + 1) + Len(reply'[c]) = k + Len(reply[c])
        /\ conn'[c] = conn[c] /\ conn[c] # "open"
    <3>1. Len(reply'[c]) = Len(reply[c]) - 1
      BY <1>5, <1>8
    <3>2. (k + 1) + Len(reply'[c]) = k + Len(reply[c])
      <4>1. Len(reply[c]) \in Int /\ k \in Int
        BY <1>5, <1>6
      <4> DEFINE before == Len(reply[c])
                 after == Len(reply'[c])
      <4>2. after = before - 1 /\ before \in Int
        BY <3>1, <4>1
      <4> HIDE DEF before, after
      <4>3. (k + 1) + after = k + before
        BY <4>1, <4>2
      <4> QED  BY <4>3 DEF before, after
    <3> QED  BY <1>1, <1>3, <1>6, <3>2 DEF InFlight
  <2>2. \A i, x, m : RightRecord(c, i, x, m)' <=> RightRecord(c, i, x, m)
    BY <1>2 DEF RightRecord, Truth
  <2>3. ASSUME NEW i \in 1 .. k + 1 PROVE RightRecord(c, i, result'[c][i], n)
    <3>1. CASE i \in 1 .. k
      <4>1. result'[c][i] = result[c][i]
        BY <1>6, <1>7, <1>8, <3>1
      <4> QED  BY <1>3, <3>1, <4>1 DEF InFlight
    <3>2. CASE i = k + 1
      <4>1. RightRecord(c, k + 1, reply[c][1], n)
        BY <1>3, <1>5 DEF InFlight
      <4> QED  BY <1>5, <1>7, <1>8, <3>2, <4>1
    <3> QED  BY <1>6, <3>1, <3>2
  <2>4. ASSUME NEW i \in (k + 1) + 1 .. Len(Pairs(c)) PROVE result'[c][i] = Garbage
    <3>1. i \in k + 1 .. Len(Pairs(c)) /\ i \in 1 .. Len(Pairs(c)) /\ i # k + 1
      BY <1>2, <1>6
    <3> QED  BY <1>3, <1>7, <1>8, <3>1 DEF InFlight
  <2>5. ASSUME NEW j \in 1 .. Len(reply'[c])
        PROVE  RightRecord(c, (k + 1) + j, reply'[c][j], n)
    <3>1. j + 1 \in 1 .. Len(reply[c]) /\ (k + 1) + j = k + (j + 1)
          /\ reply'[c][j] = reply[c][j + 1]
      BY <1>5, <1>6, <1>8
    <3>2. RightRecord(c, k + (j + 1), reply[c][j + 1], n)
      BY <1>3, <3>1 DEF InFlight
    <3> QED  BY <3>1, <3>2
  <2>6. /\ n <= k + Len(reply[c]) /\ k + Len(reply[c]) <= n + 1
        /\ conn[c] = "served" => n = Len(Pairs(c))
    BY <1>3 DEF InFlight
  <2>7. /\ \A i \in 1 .. k + 1 : RightRecord(c, i, result[c][i], n)'
        /\ \A j \in 1 .. Len(reply'[c]) :
              RightRecord(c, (k + 1) + j, reply[c][j], n)'
    BY <1>2, <2>3, <2>5 DEF RightRecord, Truth
  <2> QED  BY <1>2, <1>6, <2>1, <2>4, <2>6, <2>7 DEF InFlight
<1>12. ASSUME NEW d \in Client PROVE ClientRight(d)'
  <2>0. ClientRight(d)
    BY DEF ClientsRight
  <2>1. CASE d # c
    BY <1>1, <1>8, <2>0, <2>1, ClientSame
  <2>2. CASE d = c
    <3>1. \E a, b \in 0 .. Len(Pairs(d)') : InFlight(d, a, b)'
      BY <1>2, <1>6, <1>11, <2>2
    <3> QED  BY <1>1, <1>2, <1>7, <1>8, <2>2, <3>1 DEF ClientRight
  <2> QED  BY <2>1, <2>2
<1> QED  BY <1>9, <1>10, <1>12 DEF ClientsRight

\* ReadEnd keeps the invariant.
LEMMA ReadEndStep ==
    ASSUME QueryInv, NEW c \in Client, ReadEnd(c)
    PROVE  QueryInv'
<1> USE DEF QueryInv
<1>1. /\ cpc[c] = "reading" /\ reply[c] = << >> /\ conn[c] # "open"
      /\ cpc' = [cpc EXCEPT ![c] = "done"]
      /\ UNCHANGED <<query, sent, result, reply, conn, backlog, svars>>
  BY DEF ReadEnd, wire
<1>2. QueryTypeOK'
  BY <1>1 DEF QueryTypeOK, svars
<1>3. TablesRight' /\ ConnectionsKept' /\ ServedRight'
  BY <1>1, PredictorSame DEF QueryTypeOK
<1>4. ASSUME NEW d \in Client PROVE ClientRight(d)'
  <2>0. ClientRight(d)
    BY DEF ClientsRight
  <2>1. CASE d # c
    BY <1>1, <2>0, <2>1, ClientSame DEF QueryTypeOK
  <2>2. CASE d = c
    <3>1. cpc'[d] = "done" /\ Pairs(d)' = Pairs(d)
      BY <1>1, <2>2 DEF QueryTypeOK, Pairs
    <3>2. \A k, n : InFlight(d, k, n)' <=> InFlight(d, k, n)
      BY <1>1, <3>1 DEF InFlight, RightRecord, Truth
    <3> QED  BY <1>1, <2>0, <2>2, <3>1, <3>2 DEF ClientRight
  <2> QED  BY <2>1, <2>2
<1> QED  BY <1>2, <1>3, <1>4 DEF ClientsRight

\* ReadFails keeps the invariant.
LEMMA ReadFailsStep ==
    ASSUME QueryInv, NEW c \in Client, ReadFails(c)
    PROVE  QueryInv'
<1> USE DEF QueryInv
<1> DEFINE r == [i \in DOMAIN result[c] |-> Garbage]
<1>1. /\ cpc[c] = "reading" /\ conn[c] = "reset"
      /\ cpc' = [cpc EXCEPT ![c] = "done"]
      /\ result' = [result EXCEPT ![c] = r]
      /\ reply' = [reply EXCEPT ![c] = << >>]
      /\ UNCHANGED <<query, sent, conn, backlog, svars>>
  BY DEF ReadFails
<1>2. /\ Len(Pairs(c)) \in Nat /\ Len(result[c]) = Len(Pairs(c))
      /\ result[c] \in Seq(Rec \cup {Garbage}) /\ Pairs(c)' = Pairs(c)
  BY <1>1, QueryFacts DEF ClientsRight, ClientRight, QueryTypeOK, Pairs
<1>3. /\ r \in Seq(Rec \cup {Garbage}) /\ Len(r) = Len(Pairs(c))
      /\ \A i \in 1 .. Len(Pairs(c)) : r[i] = Garbage
  <2>1. r = [i \in 1 .. Len(Pairs(c)) |-> Garbage]
    BY <1>2
  <2> QED  BY <1>2, <2>1
<1> HIDE DEF r
<1>4. /\ cpc'[c] = "done" /\ result'[c] = r /\ reply'[c] = << >>
      /\ \A d \in Client \ {c} : /\ cpc'[d] = cpc[d] /\ result'[d] = result[d]
                                 /\ reply'[d] = reply[d]
  BY <1>1 DEF QueryTypeOK
<1>5. QueryTypeOK'
  BY <1>1, <1>3 DEF QueryTypeOK, svars
<1>6. TablesRight' /\ ConnectionsKept' /\ ServedRight'
  BY <1>1, <1>4, PredictorSame
<1>7. ASSUME NEW d \in Client PROVE ClientRight(d)'
  <2>0. ClientRight(d)
    BY DEF ClientsRight
  <2>1. CASE d # c
    BY <1>1, <1>4, <2>0, <2>1, ClientSame
  <2>2. CASE d = c
    <3>1. \E k, n \in 0 .. Len(Pairs(d)') : InFlight(d, k, n)'
      BY <1>1, <1>2, <1>3, <1>4, <1>5, <2>2, NothingRead
    <3> QED  BY <1>1, <1>2, <1>3, <1>4, <2>2, <3>1 DEF ClientRight
  <2> QED  BY <2>1, <2>2
<1> QED  BY <1>5, <1>6, <1>7 DEF ClientsRight

\* Die keeps the invariant.
LEMMA DieStep ==
    ASSUME QueryInv, NEW c \in Client, Die(c)
    PROVE  QueryInv'
<1> USE DEF QueryInv
<1>1. /\ cpc[c] \in {"connecting", "writing", "reading"}
      /\ cpc' = [cpc EXCEPT ![c] = "dead"]
      /\ result' = [result EXCEPT ![c] = << >>]
      /\ reply' = [reply EXCEPT ![c] = << >>]
      /\ UNCHANGED <<query, sent, conn, backlog, svars>>
  BY DEF Die
<1>2. /\ cpc'[c] = "dead" /\ reply'[c] = << >>
      /\ \A d \in Client \ {c} : /\ cpc'[d] = cpc[d] /\ result'[d] = result[d]
                                 /\ reply'[d] = reply[d]
  BY <1>1 DEF QueryTypeOK
<1>3. QueryTypeOK'
  BY <1>1 DEF QueryTypeOK, svars
<1>4. TablesRight' /\ ConnectionsKept' /\ ServedRight'
  BY <1>1, <1>2, PredictorSame
<1>5. ASSUME NEW d \in Client PROVE ClientRight(d)'
  <2>0. ClientRight(d)
    BY DEF ClientsRight
  <2>1. CASE d # c
    BY <1>1, <1>2, <2>0, <2>1, ClientSame
  <2>2. CASE d = c
    BY <1>2, <2>2 DEF ClientRight
  <2> QED  BY <2>1, <2>2
<1> QED  BY <1>3, <1>4, <1>5 DEF ClientsRight

\* NextQuery keeps the invariant.
LEMMA NextQueryStep ==
    ASSUME QueryInv, NEW c \in Client, NextQuery(c)
    PROVE  QueryInv'
<1> USE DEF QueryInv
<1>1. /\ cpc[c] = "done" /\ cpc' = [cpc EXCEPT ![c] = "idle"]
      /\ sent' = [sent EXCEPT ![c] = "none"]
      /\ conn' = [conn EXCEPT ![c] = "open"]
      /\ result' = [result EXCEPT ![c] = << >>]
      /\ UNCHANGED <<reply, backlog, svars>>
  BY DEF NextQuery
<1>2. PICK q \in Queries : query' = [query EXCEPT ![c] = q]
  BY DEF NextQuery
<1>3. /\ cpc'[c] = "idle" /\ conn'[c] = "open" /\ sent'[c] = "none"
      /\ \A d \in Client \ {c} : /\ cpc'[d] = cpc[d] /\ result'[d] = result[d]
                                 /\ conn'[d] = conn[d] /\ sent'[d] = sent[d]
                                 /\ query'[d] = query[d]
  BY <1>1, <1>2 DEF QueryTypeOK
<1>4. QueryTypeOK'
  BY <1>1, <1>2 DEF QueryTypeOK, svars
<1>5. TablesRight' /\ ConnectionsKept' /\ ServedRight'
  BY <1>1, <1>3, PredictorSame
<1>6. ASSUME NEW d \in Client PROVE ClientRight(d)'
  <2>0. ClientRight(d)
    BY DEF ClientsRight
  <2>1. CASE d # c
    BY <1>1, <1>3, <2>0, <2>1, ClientSame
  <2>2. CASE d = c
    BY <1>1, <1>3, <2>0, <2>2 DEF ClientRight
  <2> QED  BY <2>1, <2>2
<1> QED  BY <1>4, <1>5, <1>6 DEF ClientsRight

-----------------------------------------------------------------------------
\* Every step keeps the invariant.
LEMMA QueryNextInv == QueryInv /\ [Next]_vars => QueryInv'
<1> SUFFICES ASSUME QueryInv, [Next]_vars PROVE QueryInv'
  OBVIOUS
<1>1. CASE \/ LoadPair \/ StartListening \/ Accept \/ Receive \/ InitDest
           \/ AnswerPair \/ SendReply \/ Throw \/ Kill \/ Restart
  BY <1>1, LoadPairStep, StartListeningStep, AcceptStep, ReceiveStep,
     InitDestStep, AnswerPairStep, SendReplyStep, KillStep, RestartStep
<1>2. ASSUME NEW c \in Client,
             \/ CallGetAspath(c) \/ Connect(c) \/ ConnectRefused(c) \/ Write(c)
             \/ ReadRecord(c) \/ ReadEnd(c) \/ ReadFails(c) \/ Die(c)
             \/ NextQuery(c)
      PROVE  QueryInv'
  BY <1>2, CallStep, ConnectStep, RefusedStep, WriteStep, ReadRecordStep,
     ReadEndStep, ReadFailsStep, DieStep, NextQueryStep
<1>3. CASE UNCHANGED vars
  <2>1. UNCHANGED <<cpc, query, sent, result, reply, conn, backlog, spc, cur,
                    pos, dests, ready, cache, out>>
    BY <1>3 DEF vars, cvars, wire, svars
  <2>2. ClientsRight'
    BY <2>1, ClientsSame DEF QueryInv
  <2> QED  BY <2>1, <2>2 DEF QueryInv, QueryTypeOK, TablesRight, CacheFresh,
              Truth, ConnectionsKept, ServedRight, Pairs
<1> QED  BY <1>1, <1>2, <1>3 DEF Next

\* QueryInv holds in every reachable state of the two processes.
THEOREM QueryInvHolds == Spec => []QueryInv
  BY QueryInitInv, QueryNextInv, PTL DEF Spec

\* No record of the predictor's second level cache is older than the routing
\* tree it needs: StartListening prepares all destinations of a query before
\* it looks up the first pair, and a restart empties both tables.
THEOREM CacheNeverStale == Spec => []CacheFresh
<1>1. QueryInv => CacheFresh
  BY DEF QueryInv, TablesRight
<1> QED  BY <1>1, QueryInvHolds, PTL

\* get_aspath leaves elements of result[] unwritten only if the connection was
\* refused or reset: the reply of a connection that was shut down in order is
\* complete.
THEOREM ServedIsComplete == Spec => []CompleteIfServed
<1>1. QueryInv => CompleteIfServed
  <2> SUFFICES ASSUME QueryInv, NEW c \in Client, cpc[c] = "done",
                      conn[c] = "served", NEW i \in DOMAIN result[c]
               PROVE  result[c][i] # Garbage
    BY DEF CompleteIfServed
  <2> USE DEF QueryInv
  <2>1. PICK k, n \in 0 .. Len(Pairs(c)) : InFlight(c, k, n)
    BY DEF ClientsRight, ClientRight
  <2>2. /\ reply[c] = << >> /\ Len(Pairs(c)) \in Nat
        /\ i \in 1 .. Len(Pairs(c))
    <3>1. reply[c] = << >> /\ Len(result[c]) = Len(Pairs(c))
      BY DEF ClientsRight, ClientRight
    <3>2. Len(Pairs(c)) \in Nat
      BY QueryFacts
    <3>3. result[c] \in Seq(Rec \cup {Garbage})
      BY DEF QueryTypeOK
    <3>4. DOMAIN result[c] = 1 .. Len(result[c])
      BY <3>3, LenProperties
    <3> QED  BY <3>1, <3>2, <3>4
  <2>3. k = Len(Pairs(c)) /\ n = Len(Pairs(c))
    BY <2>1, <2>2 DEF InFlight
  <2>4. RightRecord(c, i, result[c][i], n) /\ Pairs(c)[i] \in AS \X AS
    BY <2>1, <2>2, <2>3, QueryFacts DEF InFlight
  <2> QED  BY <2>4, RecordFacts DEF RightRecord
<1> QED  BY <1>1, QueryInvHolds, PTL

-----------------------------------------------------------------------------
(* The refinement of RouteOracle *)

\* The initial states are those of the oracle.
LEMMA InitOracle == Init => Oracle!OracleInit
  BY DEF Init, Oracle!OracleInit, QueryState, Returned

\* What the caller sees of client c.
LEMMA SeenOf ==
    /\ \A c \in Client :
          /\ QueryState[c] = IF cpc[c] \in {"connecting", "writing", "reading"}
                             THEN "asking" ELSE cpc[c]
          /\ Returned[c] = IF cpc[c] = "done" THEN result[c] ELSE << >>
          /\ QueryState'[c] = IF cpc'[c] \in {"connecting", "writing", "reading"}
                              THEN "asking" ELSE cpc'[c]
          /\ Returned'[c] = IF cpc'[c] = "done" THEN result'[c] ELSE << >>
    /\ DOMAIN QueryState = Client /\ DOMAIN Returned = Client
    /\ DOMAIN QueryState' = Client /\ DOMAIN Returned' = Client
    /\ QueryState = [c \in Client |-> QueryState[c]]
    /\ Returned = [c \in Client |-> Returned[c]]
    /\ QueryState' = [c \in Client |-> QueryState'[c]]
    /\ Returned' = [c \in Client |-> Returned'[c]]
  BY DEF QueryState, Returned

\* A step the caller does not see.
LEMMA SeesNothing ==
    ASSUME UNCHANGED query,
           \A d \in Client :
              /\ cpc'[d] = cpc[d]
                 \/ {cpc[d], cpc'[d]} \subseteq {"connecting", "writing", "reading"}
              /\ cpc[d] = "done" => result'[d] = result[d]
    PROVE  UNCHANGED Oracle!oracleVars
<1>1. \A d \in Client : QueryState'[d] = QueryState[d] /\ Returned'[d] = Returned[d]
  BY SeenOf
<1>2. QueryState' = QueryState /\ Returned' = Returned
  BY <1>1, SeenOf
<1> QED  BY <1>2 DEF Oracle!oracleVars

\* One client moves, the caller of another sees nothing.
LEMMA SeesOne ==
    ASSUME NEW c \in Client,
           \A d \in Client \ {c} : cpc'[d] = cpc[d] /\ result'[d] = result[d]
    PROVE  /\ QueryState' = [QueryState EXCEPT ![c] = QueryState'[c]]
           /\ Returned' = [Returned EXCEPT ![c] = Returned'[c]]
<1>1. \A d \in Client \ {c} : QueryState'[d] = QueryState[d]
                              /\ Returned'[d] = Returned[d]
  BY SeenOf
<1> QED  BY <1>1, SeenOf

\* get_aspath returns: result[] is what the oracle may answer.
LEMMA ReturnSeen ==
    ASSUME QueryInv, QueryInv', NEW c \in Client, UNCHANGED query,
           cpc[c] \in {"connecting", "reading"}, cpc'[c] = "done",
           \A d \in Client \ {c} : cpc'[d] = cpc[d] /\ result'[d] = result[d]
    PROVE  Oracle!Return(c)
<1> DEFINE pairs == query[c].pairs
           r == result'[c]
<1>1. /\ QueryState[c] = "asking" /\ QueryState'[c] = "done"
      /\ Returned'[c] = r
  BY SeenOf
<1>2. /\ QueryState' = [QueryState EXCEPT ![c] = "done"]
      /\ Returned' = [Returned EXCEPT ![c] = Returned'[c]]
  BY <1>1, SeesOne
<1>3. /\ Pairs(c)' = pairs /\ Pairs(c) = pairs /\ Len(pairs) \in Nat
      /\ DOMAIN pairs = 1 .. Len(pairs)
  BY QueryFacts DEF Pairs, QueryInv
<1>4. PICK k, n \in 0 .. Len(pairs) : InFlight(c, k, n)'
  <2>1. ClientRight(c)'
    BY DEF QueryInv, ClientsRight
  <2> QED  BY <1>3, <2>1 DEF ClientRight
<1>5. /\ reply'[c] = << >> /\ DOMAIN r = 1 .. Len(pairs)
  <2>1. ClientRight(c)' /\ QueryTypeOK'
    BY DEF QueryInv, ClientsRight
  <2>2. reply'[c] = << >> /\ Len(r) = Len(pairs)
    BY <1>3, <2>1 DEF ClientRight
  <2>3. r \in Seq(Rec \cup {Garbage})
    BY <2>1 DEF QueryTypeOK
  <2> QED  BY <2>2, <2>3
<1>6. /\ n <= k /\ k <= n + 1
      /\ \A i \in 1 .. k : \/ i <= n /\ r[i] = Truth(pairs[i])
                           \/ i = n + 1 /\ r[i] # Garbage
                              /\ r[i] \subseteq Truth(pairs[i])
      /\ \A i \in k + 1 .. Len(pairs) : r[i] = Garbage
  <2>1. Len(reply'[c]) = 0 /\ k + Len(reply'[c]) = k
    BY <1>3, <1>5
  <2> QED  BY <1>3, <1>4, <2>1 DEF InFlight, RightRecord, Truth
<1>7. ASSUME NEW i \in DOMAIN pairs
      PROVE  \/ i <= n /\ r[i] = Truth(pairs[i])
             \/ i = n + 1 /\ r[i] # Garbage /\ r[i] \subseteq Truth(pairs[i])
             \/ i > n /\ r[i] = Garbage
  <2>1. CASE i \in 1 .. k
    BY <1>6, <2>1
  <2>2. CASE i \in k + 1 .. Len(pairs)
    BY <1>3, <1>6, <2>2
  <2> QED  BY <1>3, <2>1, <2>2
<1>8. Oracle!FirstRecords(pairs, Returned'[c], n)
  BY <1>1, <1>3, <1>5, <1>7 DEF Oracle!FirstRecords
<1> QED  BY <1>1, <1>2, <1>3, <1>8 DEF Oracle!Return

\* Every step is a step of the oracle or leaves it alone.
LEMMA OracleStep ==
    QueryInv /\ QueryInv' /\ [Next]_vars
        => [Oracle!OracleNext]_(Oracle!oracleVars)
<1> SUFFICES ASSUME QueryInv, QueryInv', [Next]_vars
             PROVE  Oracle!OracleNext \/ UNCHANGED Oracle!oracleVars
  OBVIOUS
<1>1. CASE UNCHANGED <<cpc, query, result>>
  BY <1>1, SeesNothing
<1>2. CASE \/ LoadPair \/ StartListening \/ Accept \/ Receive \/ InitDest
           \/ AnswerPair \/ SendReply \/ Throw \/ Kill \/ Restart
           \/ UNCHANGED vars
  <2>1. UNCHANGED <<cpc, query, result>>
    BY <1>2 DEF LoadPair, StartListening, Accept, Receive, InitDest,
           AnswerPair, SendReply, Throw, Kill, Restart, vars, cvars
  <2> QED  BY <1>1, <2>1
<1>3. ASSUME NEW c \in Client,
             \/ CallGetAspath(c) \/ Connect(c) \/ ConnectRefused(c) \/ Write(c)
             \/ ReadRecord(c) \/ ReadEnd(c) \/ ReadFails(c) \/ Die(c)
             \/ NextQuery(c)
      PROVE  Oracle!OracleNext \/ UNCHANGED Oracle!oracleVars
  <2>0. /\ DOMAIN cpc = Client /\ DOMAIN result = Client
        /\ cpc \in [Client -> {"idle", "connecting", "writing", "reading",
                               "done", "dead"}]
    BY DEF QueryInv, QueryTypeOK
  <2>1. CASE Connect(c) \/ Write(c) \/ ReadRecord(c)
    BY <2>0, <2>1, SeesNothing DEF Connect, Write, ReadRecord
  <2>2. CASE CallGetAspath(c)
    <3>1. /\ cpc[c] = "idle" /\ cpc'[c] = "connecting" /\ UNCHANGED query
          /\ \A d \in Client \ {c} : cpc'[d] = cpc[d] /\ result'[d] = result[d]
      BY <2>0, <2>2 DEF CallGetAspath
    <3>2. /\ QueryState[c] = "idle" /\ QueryState'[c] = "asking"
          /\ Returned'[c] = Returned[c]
      BY <3>1, SeenOf
    <3>3. /\ QueryState' = [QueryState EXCEPT ![c] = "asking"]
          /\ Returned' = Returned
      BY <3>1, <3>2, SeesOne, SeenOf
    <3> QED  BY <3>1, <3>2, <3>3 DEF Oracle!OracleNext, Oracle!Ask
  <2>3. CASE ConnectRefused(c) \/ ReadEnd(c) \/ ReadFails(c)
    <3>1. /\ cpc[c] \in {"connecting", "reading"} /\ cpc'[c] = "done"
          /\ UNCHANGED query
          /\ \A d \in Client \ {c} : cpc'[d] = cpc[d] /\ result'[d] = result[d]
      BY <2>0, <2>3 DEF ConnectRefused, ReadEnd, ReadFails
    <3> QED  BY <3>1, ReturnSeen DEF Oracle!OracleNext
  <2>4. CASE Die(c)
    <3>1. /\ cpc[c] \in {"connecting", "writing", "reading"}
          /\ cpc'[c] = "dead" /\ UNCHANGED query
          /\ \A d \in Client \ {c} : cpc'[d] = cpc[d] /\ result'[d] = result[d]
      BY <2>0, <2>4 DEF Die
    <3>2. /\ QueryState[c] = "asking" /\ QueryState'[c] = "dead"
          /\ Returned'[c] = Returned[c]
      BY <3>1, SeenOf
    <3>3. /\ QueryState' = [QueryState EXCEPT ![c] = "dead"]
          /\ Returned' = Returned
      BY <3>1, <3>2, SeesOne, SeenOf
    <3> QED  BY <3>1, <3>2, <3>3 DEF Oracle!OracleNext, Oracle!Die
  <2>5. CASE NextQuery(c)
    <3>1. /\ cpc[c] = "done" /\ cpc'[c] = "idle"
          /\ query' \in {[query EXCEPT ![c] = q] : q \in Queries}
          /\ \A d \in Client \ {c} : cpc'[d] = cpc[d] /\ result'[d] = result[d]
      BY <2>0, <2>5 DEF NextQuery
    <3>2. /\ QueryState[c] = "done" /\ QueryState'[c] = "idle"
          /\ Returned'[c] = << >>
      BY <3>1, SeenOf
    <3>3. /\ QueryState' = [QueryState EXCEPT ![c] = "idle"]
          /\ Returned' = [Returned EXCEPT ![c] = << >>]
      BY <3>1, <3>2, SeesOne
    <3> QED  BY <3>1, <3>2, <3>3 DEF Oracle!OracleNext, Oracle!Forget
  <2> QED  BY <1>3, <2>1, <2>2, <2>3, <2>4, <2>5
<1> QED  BY <1>2, <1>3 DEF Next

\* get_aspath with the predictor behind it, its caches, its crashes and the
\* bytes between them implement the oracle: a call returns the right records
\* of its own pairs, in order, or the first of them, whatever other clients
\* asked and whatever failed.
THEOREM ImplementsOracle == Spec => ActsAsOracle
<1>1. Spec => []QueryInv
  BY QueryInvHolds
<1>2. Init => Oracle!OracleInit
  BY InitOracle
<1>3. QueryInv /\ QueryInv' /\ [Next]_vars
        => [Oracle!OracleNext]_(Oracle!oracleVars)
  BY OracleStep
<1> QED  BY <1>1, <1>2, <1>3, PTL DEF Spec, ActsAsOracle, Oracle!OracleSpec

=============================================================================
