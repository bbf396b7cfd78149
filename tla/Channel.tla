------------------------------ MODULE Channel ------------------------------
(***************************************************************************)
(* Channels to first hops and the circuits on them, on a client: the       *)
(* channel's life (or/channel.c, channeltls.c, connection_or.c), the       *)
(* circuits that wait for it or use it (circuitbuild.c, circuitlist.c) and *)
(* the reservation of circuit IDs whose DESTROY has not been sent          *)
(* (circuitlist.c, circuitmux.c).                                          *)
(*                                                                         *)
(* A channel is an address in memory (Slot): once freed the address may be *)
(* that of the next channel, so a table entry that outlives its channel is *)
(* an entry of another one.  A circuit that is marked for close has left   *)
(* every table here and is "none" again.                                   *)
(***************************************************************************)
EXTENDS Integers, Sequences, FiniteSets, SequencesExt

CONSTANTS
    Slot,       \* addresses of channels
    Circ,       \* origin circuits
    Hop,        \* first hops: records with an identity dig and an address
    OwnId,      \* circuit IDs we choose on a channel
    PeerId,     \* circuit IDs the peer chooses
    UInt        \* values of an unsigned int

ASSUME ChanAssumption ==
    /\ OwnId # {} /\ OwnId \cap PeerId = {} /\ 0 \notin OwnId \cup PeerId
    /\ IsFiniteSet(Circ) /\ "unusable" \notin Circ
    /\ UInt \in Nat /\ Cardinality(Circ) < UInt

Unusable == "unusable"      \* a map entry without a circuit
NoSlot == "noslot"
NoHop == [dig |-> "none", addr |-> 0]

VARIABLES
    chst,       \* per slot: none, opening, open, closing, closed
    chhop,      \* per slot: the hop it was launched to
    idMap,      \* channel_identity_map: channels by identity
    beenOpen,   \* per slot: has_been_open
    badForNew,  \* per slot: is_bad_for_new_circs
    canon,      \* per slot: is_canonical, known once it is open
    nCirc,      \* per slot: num_n_circuits
    obuf,       \* per slot: are there bytes in the output buffer
    destroyQ,   \* per slot: destroy_cell_queue, as circuit IDs
    circMap,    \* chan_circid_map: (slot, ID) -> circuit or Unusable
    cst,        \* per circuit: none, wait (CHAN_WAIT), live
    chop,       \* per circuit: n_hop while it waits
    nchan,      \* per circuit: n_chan
    nid         \* per circuit: n_circ_id

chanVars == <<chst, chhop, idMap, beenOpen, badForNew, canon, nCirc, obuf,
              destroyQ, circMap, cst, chop, nchan, nid>>

Condemned(ch) == chst[ch] \in {"closing", "closed"}
InMap(ch, id) == <<ch, id>> \in DOMAIN circMap
OnChan(ch) == {k \in Circ : cst[k] = "live" /\ nchan[k] = ch}

\* circMap without the entries of D.
Drop(D) == [e \in DOMAIN circMap \ D |-> circMap[e]]

-----------------------------------------------------------------------------
ChInit ==
    /\ chst = [ch \in Slot |-> "none"]
    /\ chhop = [ch \in Slot |-> NoHop]
    /\ idMap = {}
    /\ beenOpen = [ch \in Slot |-> FALSE]
    /\ badForNew = [ch \in Slot |-> FALSE]
    /\ canon = [ch \in Slot |-> FALSE]
    /\ nCirc = [ch \in Slot |-> 0]
    /\ obuf = [ch \in Slot |-> FALSE]
    /\ destroyQ = [ch \in Slot |-> << >>]
    /\ circMap = << >>
    /\ cst = [k \in Circ |-> "none"]
    /\ chop = [k \in Circ |-> NoHop]
    /\ nchan = [k \in Circ |-> NoSlot]
    /\ nid = [k \in Circ |-> 0]

\* The channels channel_get_for_extend may return; which of them it takes is
\* the matter of channel_is_better.
Usable(ch, hop) ==
    /\ <<hop.dig, ch>> \in idMap
    /\ chst[ch] = "open"
    /\ ~badForNew[ch]
    /\ canon[ch] \/ chhop[ch].addr = hop.addr

\* A connection in progress to the same address: wait for it.
InProgress(hop) ==
    \E ch \in Slot : /\ <<hop.dig, ch>> \in idMap
                     /\ chst[ch] = "opening"
                     /\ chhop[ch].addr = hop.addr

\* circuit_id_in_use_on_channel, for an ID get_unique_circ_id_by_chan draws.
FreeIds(ch) == {id \in OwnId : ~InMap(ch, id)}

\* The circuits of J are set up on the open channel ch with the IDs of ids,
\* a function from J that gives 0 where 64 draws all found an ID in use:
\* circuit_deliver_create_cell, circuit_set_circid_chan_helper.  The others
\* are marked for close with n_chan NULL again.
Deliver(ch, J, ids) ==
    LET ok == {k \in J : ids[k] # 0}
    IN  /\ cst' = [k \in Circ |-> IF k \in ok THEN "live"
                                  ELSE IF k \in J THEN "none" ELSE cst[k]]
        /\ chop' = [k \in Circ |-> IF k \in J THEN NoHop ELSE chop[k]]
        /\ nchan' = [k \in Circ |-> IF k \in ok THEN ch ELSE nchan[k]]
        /\ nid' = [k \in Circ |-> IF k \in ok THEN ids[k] ELSE nid[k]]
        /\ circMap' = [e \in DOMAIN circMap \cup {<<ch, ids[k]>> : k \in ok} |->
                         IF e \in DOMAIN circMap THEN circMap[e]
                         ELSE CHOOSE k \in ok : ids[k] = e[2]]
        /\ nCirc' = [nCirc EXCEPT ![ch] = @ + Cardinality(ok)]

\* Outcomes of get_unique_circ_id_by_chan for the circuits of J: distinct
\* free IDs, or 0 when there is an ID to collide with.
IdChoices(ch, J) ==
    {ids \in [J -> FreeIds(ch) \cup {0}] :
        /\ \A j, k \in J : j # k /\ ids[j] # 0 => ids[j] # ids[k]
        /\ \A k \in J : ids[k] = 0 =>
              FreeIds(ch) # OwnId \/ \E j \in J : ids[j] # 0}

-----------------------------------------------------------------------------
(* Circuits *)

\* circuit_handle_first_hop with a usable channel.
FirstHopReady(k, hop, ch) ==
    /\ cst[k] = "none"
    /\ Usable(ch, hop)
    /\ \E ids \in IdChoices(ch, {k}) : Deliver(ch, {k}, ids)
    /\ UNCHANGED <<chst, chhop, idMap, beenOpen, badForNew, canon, obuf,
                   destroyQ>>

\* ... with a connection in progress.
FirstHopWait(k, hop) ==
    /\ cst[k] = "none"
    /\ \A ch \in Slot : ~Usable(ch, hop)
    /\ InProgress(hop)
    /\ cst' = [cst EXCEPT ![k] = "wait"]
    /\ chop' = [chop EXCEPT ![k] = hop]
    /\ UNCHANGED <<chst, chhop, idMap, beenOpen, badForNew, canon, nCirc, obuf,
                   destroyQ, circMap, nchan, nid>>

\* ... with neither: channel_tls_connect and channel_register.  (If connect
\* fails at once the channel is freed, the circuit is marked for close, and
\* nothing has changed.  Left out: a connect that succeeds at once and then
\* fails in connection_or_finished_connecting, where the channel is freed
\* while the connection marked for close still points to it.)
FirstHopLaunch(k, hop, ch) ==
    /\ cst[k] = "none"
    /\ \A d \in Slot : ~Usable(d, hop)
    /\ ~InProgress(hop)
    /\ chst[ch] = "none"
    /\ chst' = [chst EXCEPT ![ch] = "opening"]
    /\ chhop' = [chhop EXCEPT ![ch] = hop]
    /\ idMap' = idMap \cup {<<hop.dig, ch>>}
    /\ cst' = [cst EXCEPT ![k] = "wait"]
    /\ chop' = [chop EXCEPT ![k] = hop]
    /\ UNCHANGED <<beenOpen, badForNew, canon, nCirc, obuf, destroyQ, circMap,
                   nchan, nid>>

\* channel_write_packed_cell for the first DESTROY of q, m the circuit map:
\* channel_note_destroy_not_pending.
SentMap(ch, q, m) == [e \in DOMAIN m \ {<<ch, Head(q)>>} |-> m[e]]

\* Mutant of CloseAttached: the ID is free as soon as the circuit is.
CloseAttachedForget(k) ==
    LET ch == nchan[k]
    IN  /\ circMap' = Drop({<<ch, nid[k]>>})
        /\ destroyQ' = [destroyQ EXCEPT ![ch] = IF Condemned(ch) THEN @
                                                ELSE Append(@, nid[k])]
        /\ UNCHANGED obuf

\* circuit_mark_for_close with an n_chan: unless the channel is closing
\* anyway a DESTROY is queued, and with an empty output buffer one cell is
\* written at once: the first DESTROY, or a cell of another circuit.  The ID
\* stays reserved until its DESTROY has been written.
CloseAttached(k) ==
    LET ch == nchan[k]
        id == nid[k]
        q == Append(destroyQ[ch], id)
        reserved == [circMap EXCEPT ![<<ch, id>>] = Unusable]
    IN  IF Condemned(ch)
        THEN circMap' = Drop({<<ch, id>>}) /\ UNCHANGED <<destroyQ, obuf>>
        ELSE /\ obuf' = [obuf EXCEPT ![ch] = TRUE]
             /\ \/ /\ obuf[ch] \/ OnChan(ch) # {k}
                   /\ destroyQ' = [destroyQ EXCEPT ![ch] = q]
                   /\ circMap' = reserved
                \/ /\ ~obuf[ch]
                   /\ destroyQ' = [destroyQ EXCEPT ![ch] = Tail(q)]
                   /\ circMap' = SentMap(ch, q, reserved)

\* circuit_mark_for_close, for whatever reason.
CloseCircuit(k) ==
    /\ cst[k] # "none"
    /\ cst' = [cst EXCEPT ![k] = "none"]
    /\ chop' = [chop EXCEPT ![k] = NoHop]
    /\ IF cst[k] = "live"
       THEN /\ CloseAttached(k)
            /\ nCirc' = [nCirc EXCEPT ![nchan[k]] = @ - 1]
            /\ nchan' = [nchan EXCEPT ![k] = NoSlot]
            /\ nid' = [nid EXCEPT ![k] = 0]
       ELSE UNCHANGED <<destroyQ, circMap, obuf, nCirc, nchan, nid>>
    /\ UNCHANGED <<chst, chhop, idMap, beenOpen, badForNew, canon>>

\* command_process_destroy_cell for one of our circuits: no DESTROY goes
\* back and the ID is free at once.
PeerDestroy(k) ==
    /\ cst[k] = "live"
    /\ chst[nchan[k]] = "open"
    /\ cst' = [cst EXCEPT ![k] = "none"]
    /\ circMap' = Drop({<<nchan[k], nid[k]>>})
    /\ nCirc' = [nCirc EXCEPT ![nchan[k]] = @ - 1]
    /\ nchan' = [nchan EXCEPT ![k] = NoSlot]
    /\ nid' = [nid EXCEPT ![k] = 0]
    /\ UNCHANGED <<chst, chhop, idMap, beenOpen, badForNew, canon, obuf,
                   destroyQ, chop>>

\* command_process_create_cell on a client: the CREATE is dropped if the ID
\* is in use or reserved, otherwise a DESTROY is queued, and written at once
\* when it is first and the buffer is empty.  Whose half the ID is of is not
\* looked at before.
PeerCreate(ch, id) ==
    /\ chst[ch] = "open"
    /\ ~InMap(ch, id)
    /\ LET q == Append(destroyQ[ch], id)
           m == [e \in DOMAIN circMap \cup {<<ch, id>>} |->
                   IF e = <<ch, id>> THEN Unusable ELSE circMap[e]]
       IN  /\ obuf' = [obuf EXCEPT ![ch] = TRUE]
           /\ \/ /\ obuf[ch] \/ OnChan(ch) # {}
                 /\ destroyQ' = [destroyQ EXCEPT ![ch] = q]
                 /\ circMap' = m
              \/ /\ ~obuf[ch]
                 /\ destroyQ' = [destroyQ EXCEPT ![ch] = Tail(q)]
                 /\ circMap' = SentMap(ch, q, m)
    /\ UNCHANGED <<chst, chhop, idMap, beenOpen, badForNew, canon, nCirc, cst,
                   chop, nchan, nid>>

\* The scheduler writes the next DESTROY.
WriteDestroy(ch) ==
    /\ chst[ch] = "open"
    /\ destroyQ[ch] # << >>
    /\ destroyQ' = [destroyQ EXCEPT ![ch] = Tail(@)]
    /\ circMap' = SentMap(ch, destroyQ[ch], circMap)
    /\ obuf' = [obuf EXCEPT ![ch] = TRUE]
    /\ UNCHANGED <<chst, chhop, idMap, beenOpen, badForNew, canon, nCirc, cst,
                   chop, nchan, nid>>

\* The buffer is empty, or filled by a cell of a circuit.
BufferChange(ch) ==
    /\ chst[ch] = "open"
    /\ obuf[ch] \/ OnChan(ch) # {}
    /\ obuf' = [obuf EXCEPT ![ch] = ~@]
    /\ UNCHANGED <<chst, chhop, idMap, beenOpen, badForNew, canon, nCirc,
                   destroyQ, circMap, cst, chop, nchan, nid>>

-----------------------------------------------------------------------------
(* Channels *)

\* circuit_get_all_pending_on_channel: by identity, not by address.
WaitingFor(ch) == {k \in Circ : cst[k] = "wait" /\ chop[k].dig = chhop[ch].dig}

\* channel_tls_handle_state_change_on_orconn, channel_do_open_actions and
\* circuit_n_chan_done: every waiting circuit gets an ID, or is closed when
\* the guard is not to be used after all.
ChannelOpens(ch, isCanon, refused) ==
    /\ chst[ch] = "opening"
    /\ chst' = [chst EXCEPT ![ch] = "open"]
    /\ beenOpen' = [beenOpen EXCEPT ![ch] = TRUE]
    /\ canon' = [canon EXCEPT ![ch] = isCanon]
    /\ LET J == WaitingFor(ch)
       IN  IF refused
           THEN Deliver(ch, J, [k \in J |-> 0])
           ELSE \E ids \in IdChoices(ch, J) : Deliver(ch, J, ids)
    /\ UNCHANGED <<chhop, idMap, badForNew, obuf, destroyQ>>

\* connection_or_set_bad_connections.
MarkBad(ch) ==
    /\ chst[ch] \in {"opening", "open"}
    /\ ~badForNew[ch]
    /\ badForNew' = [badForNew EXCEPT ![ch] = TRUE]
    /\ UNCHANGED <<chst, chhop, idMap, beenOpen, canon, nCirc, obuf, destroyQ,
                   circMap, cst, chop, nchan, nid>>

\* channel_mark_for_close, channel_close_from_lower_layer,
\* channel_close_for_error: all go to CLOSING, with the connection marked.
StartClosing(ch) ==
    /\ chst' = [chst EXCEPT ![ch] = "closing"]
    /\ idMap' = idMap \ {<<chhop[ch].dig, ch>>}
    /\ UNCHANGED <<chhop, beenOpen, badForNew, canon, nCirc, obuf, destroyQ,
                   circMap, cst, chop, nchan, nid>>

\* An error, the peer's close or a protocol violation.
Breaks(ch) ==
    /\ chst[ch] \in {"opening", "open"}
    /\ StartClosing(ch)

\* run_connection_housekeeping: bad or idle without circuits, or still not
\* open after the keepalive period.
Housekeeping(ch) ==
    /\ \/ chst[ch] = "opening"
       \/ chst[ch] = "open" /\ nCirc[ch] = 0
    /\ StartClosing(ch)

\* Mutant of ConnGone: the circuits that wait are not told.
ConnGoneQuiet(ch) ==
    /\ chst[ch] = "closing"
    /\ chst' = [chst EXCEPT ![ch] = "closed"]
    /\ LET J == OnChan(ch)
       IN  /\ cst' = [k \in Circ |-> IF k \in J THEN "none" ELSE cst[k]]
           /\ nchan' = [k \in Circ |-> IF k \in J THEN NoSlot ELSE nchan[k]]
           /\ nid' = [k \in Circ |-> IF k \in J THEN 0 ELSE nid[k]]
           /\ circMap' = Drop({<<ch, nid[k]>> : k \in J})
           /\ nCirc' = [nCirc EXCEPT ![ch] = (0 - Cardinality(J)) % UInt]
    /\ UNCHANGED <<chhop, idMap, beenOpen, badForNew, canon, obuf, destroyQ,
                   chop>>

\* The connection is unlinked: connection_or_about_to_close, channel_closed.
\* If it was never open the circuits that wait for this identity are closed;
\* then every circuit on it is (circuit_unlink_all_from_channel).  The count
\* of circuits is set to 0 by channel_unlink_all_circuits and then decreased
\* for every circuit all the same.
ConnGone(ch) ==
    /\ chst[ch] = "closing"
    /\ chst' = [chst EXCEPT ![ch] = "closed"]
    /\ LET J == OnChan(ch)
           W == IF beenOpen[ch] THEN {} ELSE WaitingFor(ch)
       IN  /\ cst' = [k \in Circ |-> IF k \in J \cup W THEN "none" ELSE cst[k]]
           /\ chop' = [k \in Circ |-> IF k \in W THEN NoHop ELSE chop[k]]
           /\ nchan' = [k \in Circ |-> IF k \in J THEN NoSlot ELSE nchan[k]]
           /\ nid' = [k \in Circ |-> IF k \in J THEN 0 ELSE nid[k]]
           /\ circMap' = Drop({<<ch, nid[k]>> : k \in J})
           /\ nCirc' = [nCirc EXCEPT ![ch] = (0 - Cardinality(J)) % UInt]
    /\ UNCHANGED <<chhop, idMap, beenOpen, badForNew, canon, obuf, destroyQ>>

\* Mutant of CleanUp: the reserved IDs of the channel are not released.
CleanUpKeepIds(ch) ==
    /\ chst[ch] = "closed"
    /\ chst' = [chst EXCEPT ![ch] = "none"]
    /\ chhop' = [chhop EXCEPT ![ch] = NoHop]
    /\ beenOpen' = [beenOpen EXCEPT ![ch] = FALSE]
    /\ badForNew' = [badForNew EXCEPT ![ch] = FALSE]
    /\ canon' = [canon EXCEPT ![ch] = FALSE]
    /\ obuf' = [obuf EXCEPT ![ch] = FALSE]
    /\ destroyQ' = [destroyQ EXCEPT ![ch] = << >>]
    /\ nCirc' = [nCirc EXCEPT ![ch] = 0]
    /\ UNCHANGED <<idMap, circMap, cst, chop, nchan, nid>>

\* channel_run_cleanup, channel_unregister and channel_free, which releases
\* the IDs of the DESTROY cells that were never sent
\* (circuitmux_mark_destroyed_circids_usable).
CleanUp(ch) ==
    /\ chst[ch] = "closed"
    /\ chst' = [chst EXCEPT ![ch] = "none"]
    /\ chhop' = [chhop EXCEPT ![ch] = NoHop]
    /\ beenOpen' = [beenOpen EXCEPT ![ch] = FALSE]
    /\ badForNew' = [badForNew EXCEPT ![ch] = FALSE]
    /\ canon' = [canon EXCEPT ![ch] = FALSE]
    /\ obuf' = [obuf EXCEPT ![ch] = FALSE]
    /\ destroyQ' = [destroyQ EXCEPT ![ch] = << >>]
    /\ circMap' = Drop({<<ch, id>> : id \in ToSet(destroyQ[ch])})
    /\ nCirc' = [nCirc EXCEPT ![ch] = 0]
    /\ UNCHANGED <<idMap, cst, chop, nchan, nid>>

\* What the main loop does with a channel by itself.
ChDue(ch) == Housekeeping(ch) \/ ConnGone(ch) \/ CleanUp(ch)

ChNext ==
    \/ \E k \in Circ, hop \in Hop :
          \/ FirstHopWait(k, hop)
          \/ \E ch \in Slot : FirstHopReady(k, hop, ch)
          \/ \E ch \in Slot : FirstHopLaunch(k, hop, ch)
    \/ \E k \in Circ : CloseCircuit(k) \/ PeerDestroy(k)
    \/ \E ch \in Slot :
          \/ \E id \in OwnId \cup PeerId : PeerCreate(ch, id)
          \/ WriteDestroy(ch)
          \/ BufferChange(ch)
          \/ \E isCanon, refused \in BOOLEAN :
                ChannelOpens(ch, isCanon, refused)
          \/ MarkBad(ch)
          \/ Breaks(ch)
          \/ ChDue(ch)

\* run_scheduled_events looks at every connection once a second, and the
\* main loop unlinks every marked connection and frees finished channels:
\* whatever of the three is due is done.
ChFairness == \A ch \in Slot : WF_chanVars(ChDue(ch))

ChSpec == ChInit /\ [][ChNext]_chanVars /\ ChFairness

-----------------------------------------------------------------------------
(* Properties *)

\* Types of the variables.
ChTypeOK ==
    /\ chst \in [Slot -> {"none", "opening", "open", "closing", "closed"}]
    /\ chhop \in [Slot -> Hop \cup {NoHop}]
    /\ idMap \subseteq {h.dig : h \in Hop} \X Slot
    /\ beenOpen \in [Slot -> BOOLEAN]
    /\ badForNew \in [Slot -> BOOLEAN]
    /\ canon \in [Slot -> BOOLEAN]
    /\ nCirc \in [Slot -> 0 .. UInt - 1]
    /\ obuf \in [Slot -> BOOLEAN]
    /\ destroyQ \in [Slot -> Seq(OwnId \cup PeerId)]
    /\ DOMAIN circMap \subseteq Slot \X (OwnId \cup PeerId)
    /\ \A e \in DOMAIN circMap : circMap[e] \in Circ \cup {Unusable}
    /\ cst \in [Circ -> {"none", "wait", "live"}]
    /\ chop \in [Circ -> Hop \cup {NoHop}]
    /\ nchan \in [Circ -> Slot \cup {NoSlot}]
    /\ nid \in [Circ -> OwnId \cup {0}]

\* The tables hold live channels only: the identity map lists exactly the
\* channels that are neither closing nor closed, no circuit or ID refers to an
\* address whose channel was freed, and as long as a channel has a connection
\* its num_n_circuits, by which the housekeeping takes it for unused, is the
\* number of its circuits.
NoDanglingChannel ==
    /\ idMap = {<<chhop[ch].dig, ch>> :
                   ch \in {s \in Slot : chst[s] \in {"opening", "open"}}}
    /\ \A e \in DOMAIN circMap : chst[e[1]] # "none"
    /\ \A k \in Circ : cst[k] = "live" =>
          /\ chst[nchan[k]] \in {"open", "closing"}
          /\ InMap(nchan[k], nid[k]) /\ circMap[<<nchan[k], nid[k]>>] = k
    /\ \A ch \in Slot :
          chst[ch] # "closed" => nCirc[ch] = Cardinality(OnChan(ch))

\* A circuit ID is reserved exactly as long as its DESTROY is queued, and no
\* circuit uses a reserved ID: IDs neither leak nor get a second circuit whose
\* cells the first one's DESTROY would end (circuitlist.c, ticket 12184).
ReservedWhileDestroyQueued ==
    \A ch \in Slot :
        /\ IsInjective(destroyQ[ch])
        /\ ToSet(destroyQ[ch]) =
              {id \in OwnId \cup PeerId :
                  InMap(ch, id) /\ circMap[<<ch, id>>] = Unusable}

\* A circuit does not wait for its channel for ever: circuit_expire_building
\* leaves circuits in CHAN_WAIT alone, so only the channel can end the wait.
WaitEnds == \A k \in Circ : cst[k] = "wait" ~> cst[k] # "wait"
=============================================================================
