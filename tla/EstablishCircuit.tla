-------------------------- MODULE EstablishCircuit --------------------------
(***************************************************************************)
(* circuit_establish_circuit from its call to its return: the candidate    *)
(* exits and entries, the temporary exit, the pair that is used, and the   *)
(* path that is built from it.  Which pair is drawn is left open here: see *)
(* AttackMatrix, PathSelection and PathQuery.                              *)
(*                                                                         *)
(* The consensus does not change while the function runs: no event is      *)
(* handled in between.  What outlives a call is the list of entry guards.  *)
(***************************************************************************)
EXTENDS Naturals, Sequences, FiniteSets

CONSTANTS
    NumRelays,   \* relays are numbered in the order of the node list
    NumGuards,   \* decide_num_guards
    MaxTries,    \* MAX_POPULATE_ATTEMPTS
    Networks     \* what the relays may be like: a set of records, see Network

RouteLen == 3    \* DEFAULT_ROUTE_LEN

Relays == 1 .. NumRelays
None == 0                    \* a NULL extend_info
Garbage == NumRelays + 1     \* an uninitialized pointer

\* What the code asks of a relay: running (and valid), described (it has a
\* descriptor), stable, fast, a possible guard, an exit (every other test of
\* an exit), handling a predicted port, with an ntor key, down (as a guard).
\* related holds the pairs of relays of one family or subnet, supports the
\* number of the pending streams that a relay would carry.
Network(n) ==
    /\ \A f \in {"running", "described", "stable", "fast", "guard", "exits",
                 "ports", "ntor", "down"} : n[f] \subseteq Relays
    /\ \A q \in n.related : q \subseteq Relays
    /\ n.pending \in Nat /\ n.supports \in [Relays -> 0 .. n.pending]
    /\ {n.useGuards, n.usingNtor} \subseteq BOOLEAN

ASSUME EstablishAssumption ==
    /\ NumRelays \in Nat
    /\ NumGuards \in Nat \ {0}
    /\ MaxTries \in Nat \ {0}
    /\ \A n \in Networks : Network(n)

VARIABLES
    net,        \* the consensus and the options
    guards,     \* entry_guards: the relays, in order
    contacted,  \* those of them with made_contact
    call,       \* the arguments: exit (or None), testing, onehop, uptime, capacity
    pc,         \* what the call does next; "idle" between calls
    needs,      \* need_uptime, need_capacity of the list being made
    goodExits,  \* good_exits
    entries,    \* entry_nodes
    exit,       \* chosen_exit of the build state
    entry,      \* the local variable entry
    len,        \* desired_path_len
    path,       \* cpath
    tries       \* n_tries

locals == <<call, needs, goodExits, entries, exit, entry, len, path, tries>>
estVars == <<net, guards, contacted, pc, locals>>

-----------------------------------------------------------------------------
(* Choosing among relays *)

\* A relay with all that share a family or a subnet with it.
Family(r) == {r} \cup {s \in Relays : {r, s} \in net.related}

Families(S) == UNION {Family(r) : r \in S}

Requirement(u, c, g, d) == [uptime |-> u, capacity |-> c, guard |-> g, desc |-> d]

Reliable(r, f) ==
    /\ f.uptime => r \in net.stable
    /\ f.capacity => r \in net.fast
    /\ f.guard => r \in net.guard

Running(f) ==
    {r \in net.running :
        /\ f.desc => r \in net.described
        /\ Reliable(r, f)}

\* The running relays that are not excluded, with fewer demands if none are
\* left.
AllBut(excluded, f) ==
    LET all == Running(f) \ excluded
    IN IF all # {} THEN all
       ELSE Running(Requirement(FALSE, FALSE, FALSE, f.desc)) \ excluded

\* The exits n_supported does not rule out, and those of them to count.
UsableExits(f) ==
    {r \in net.exits \cap net.described \cap net.running : Reliable(r, f)}

Supporting(f) ==
    {r \in UsableExits(f) : net.pending > 0 => net.supports[r] > 0}

\* The exits that carry the most pending streams; without such a stream, or
\* without such an exit, those for a predicted port, or else all.
GoodExits(f) ==
    LET g == IF Supporting(f) # {} THEN f
             ELSE Requirement(FALSE, FALSE, FALSE, FALSE)
        ported == UsableExits(g) \cap net.ports
    IN IF net.pending > 0 /\ Supporting(g) # {}
       THEN {r \in Supporting(g) :
                \A s \in Supporting(g) : net.supports[s] <= net.supports[r]}
       ELSE IF ported # {} THEN ported ELSE UsableExits(g)

\* good_exits[1]: the second of the list.
Second(S) ==
    CHOOSE r \in S : \E s \in S : s < r /\ \A t \in S : t < r => t = s

-----------------------------------------------------------------------------
(* Entry guards *)

GuardSet == {guards[i] : i \in 1 .. Len(guards)}

LiveGuard(r, f) == r \notin net.down /\ r \in net.described /\ Reliable(r, f)

NumLive ==
    Cardinality({i \in 1 .. Len(guards) :
        LiveGuard(guards[i], Requirement(FALSE, TRUE, FALSE, TRUE))})

\* What add_an_entry_guard picks from: no relative of a guard.
NewGuards ==
    AllBut(Families(GuardSet), Requirement(FALSE, FALSE, TRUE, TRUE))

\* Where in entry_guards the live guards unrelated to the exit are.
LiveAt ==
    {i \in 1 .. Len(guards) :
        LiveGuard(guards[i], needs) /\ guards[i] \notin Family(exit)}

\* How many of them the walk has added by the i-th guard.
AddedBy(i) == Cardinality({j \in LiveAt : j <= i})

\* Mutant of Enough: the walk does not stop at num_needed.
EnoughAll == {i \in LiveAt : guards[i] \notin contacted}

\* The walk stops at the first guard never contacted, and when it has added
\* the number needed.
Enough ==
    {i \in LiveAt : guards[i] \notin contacted \/ AddedBy(i) >= NumGuards}

\* populate_live_entry_guards: the live guards unrelated to the exit, up to
\* where the walk stops.
Populated ==
    [list |-> {guards[i] : i \in {k \in LiveAt : \A s \in Enough : k <= s}},
     enough |-> Enough # {}]

UsesGuards == net.useGuards /\ ~ call.testing

AddGuard(r) == guards' = Append(guards, r)

\* The lists for the linear program are made, and not the hop of a path.
Listing == goodExits # {} /\ entries = {}

\* onion_append_hop.
AppendHop(r) == path' = Append(path, r) /\ pc' = "populate"

\* A random one of the candidates is the hop; without any it fails.
ChooseHop(candidates, otherwise) ==
    IF candidates = {}
    THEN pc' = otherwise /\ UNCHANGED path
    ELSE \E r \in candidates : AppendHop(r)

\* return_live_entry_guards begins by filling up the list of guards.
FillGuards ==
    /\ pc = "guards"
    /\ IF Len(guards) < NumGuards THEN pc' = "fill" ELSE pc' = "live"
    /\ UNCHANGED <<net, guards, contacted, locals>>

PickGuard(r) ==
    /\ pc = "fill" /\ NumLive < NumGuards /\ r \in NewGuards
    /\ AddGuard(r)
    /\ contacted' = contacted \cup {r}
    /\ UNCHANGED <<net, pc, locals>>

PickedGuards ==
    /\ pc = "fill" /\ (NumLive >= NumGuards \/ NewGuards = {})
    /\ pc' = "live"
    /\ UNCHANGED <<net, guards, contacted, locals>>

TooFew == ~ Populated.enough /\ Cardinality(Populated.list) < 2

\* retry, with one more guard ...
RetryWithGuard(r) ==
    /\ pc = "live" /\ TooFew /\ r \in NewGuards
    /\ AddGuard(r)
    /\ UNCHANGED <<net, contacted, pc, locals>>

\* Mutant of Relaxed: the requirement is not given up.
RelaxedNever == needs

\* ... or with one requirement less.
Relaxed ==
    IF needs.uptime THEN [needs EXCEPT !.uptime = FALSE]
    ELSE [needs EXCEPT !.capacity = FALSE]

RetryRelaxed ==
    /\ pc = "live" /\ TooFew /\ NewGuards = {}
    /\ needs.uptime \/ needs.capacity
    /\ needs' = Relaxed
    /\ UNCHANGED <<net, guards, contacted, pc, call, goodExits, entries, exit, entry,
                   len, path, tries>>

GuardsFinal ==
    TooFew => NewGuards = {} /\ ~ needs.uptime /\ ~ needs.capacity

\* The list of live guards is the list of entries; or, when the hop is chosen
\* the standard way, one of them is the hop, and extend_info_from_node
\* follows the NULL of an empty list.
GuardsListed ==
    /\ pc = "live" /\ GuardsFinal /\ Listing
    /\ entries' = Populated.list
    /\ pc' = "draw"
    /\ UNCHANGED <<net, guards, contacted, call, needs, goodExits, exit, entry, len,
                   path, tries>>

GuardChosen ==
    /\ pc = "live" /\ GuardsFinal /\ ~ Listing
    /\ ChooseHop(Populated.list, "undefined")
    /\ UNCHANGED <<net, guards, contacted, call, needs, goodExits, entries, exit,
                   entry, len, tries>>

-----------------------------------------------------------------------------
(* The call *)

Idle == [exit |-> None, testing |-> FALSE, onehop |-> FALSE,
         uptime |-> FALSE, capacity |-> FALSE]

NoNeeds == Requirement(FALSE, FALSE, FALSE, TRUE)

EstInit ==
    /\ net \in Networks
    /\ guards = <<>> /\ contacted = {}
    /\ pc = "idle" /\ call = Idle /\ needs = NoNeeds
    /\ goodExits = {} /\ entries = {} /\ exit = None /\ entry = None
    /\ len = 0 /\ path = <<>> /\ tries = 0

CallNeeds == Requirement(call.uptime, call.capacity, FALSE, TRUE)

\* The call, with origin_circuit_init.  One-hop circuits and tests of one's
\* own reachability have a given exit.
\* entry is not initialized.
Establish(c) ==
    /\ pc = "idle"
    /\ c.onehop \/ c.testing => c.exit # None
    /\ call' = c
    /\ entry' \in {None, Garbage}
    /\ pc' = IF c.exit = None THEN "exits" ELSE "exit"
    /\ exit' = c.exit
    /\ needs' = Requirement(c.uptime, c.capacity, FALSE, TRUE)
    /\ goodExits' = {} /\ entries' = {} /\ len' = 0 /\ path' = <<>> /\ tries' = 0
    /\ UNCHANGED <<net, guards, contacted>>

\* A log file that cannot be opened is written to all the same.
NoLogFile ==
    /\ pc = "idle"
    /\ pc' = "undefined"
    /\ UNCHANGED <<net, guards, contacted, locals>>

\* No exit given: list them all, take the second for the time being.  A list
\* without a second element is read all the same.
ListExits ==
    /\ pc = "exits"
    /\ goodExits' = GoodExits(CallNeeds)
    /\ IF Cardinality(goodExits') < 2
       THEN pc' = "undefined" /\ UNCHANGED exit
       ELSE pc' = "exit" /\ exit' = Second(goodExits')
    /\ UNCHANGED <<net, guards, contacted, call, needs, entries, entry, len, path, tries>>

\* new_route_len counts an extra hop for an exit that the caller names, and
\* every exit is named by now.
NewRouteLen == IF call.testing THEN RouteLen ELSE RouteLen + 1

\* Mark the circuit for close and return NULL.
Fail == pc' = "failed"

\* onion_pick_cpath_exit, for the given exit, for the temporary one, and
\* again for the exit of the pair.
PickExit ==
    /\ pc = "exit"
    /\ len' = IF call.onehop THEN 1 ELSE NewRouteLen
    /\ IF ~ call.onehop /\ Cardinality(net.running \cap net.described) < NewRouteLen
       THEN Fail
       ELSE pc' = IF Listing THEN "entries" ELSE "populate"
    /\ UNCHANGED <<net, guards, contacted, call, needs, goodExits, entries, exit,
                   entry, path, tries>>

\* The candidate entries: the guards, or all running relays outside the
\* family of the temporary exit.  The flags of the launch are read there as
\* flags of router_choose_random_node, which have other values: stable asks for
\* fast, fast for a possible guard, and nothing asks for a descriptor.
ListGuards ==
    /\ pc = "entries" /\ UsesGuards
    /\ pc' = "guards"
    /\ UNCHANGED <<net, guards, contacted, locals>>

ListEntries ==
    /\ pc = "entries" /\ ~ UsesGuards
    /\ entries' = AllBut(Family(exit),
                         Requirement(call.uptime, call.capacity \/ call.uptime,
                                     call.capacity, FALSE))
    /\ pc' = "draw"
    /\ UNCHANGED <<net, guards, contacted, call, needs, goodExits, exit, entry, len,
                   path, tries>>

\* A pair is drawn and its relays are taken; an entry without a descriptor
\* has no extend_info.
DrawPair(e, x) ==
    /\ pc = "draw"
    /\ e \in entries /\ x \in goodExits
    /\ entry' = IF e \in net.described THEN e ELSE None
    /\ exit' = x
    /\ pc' = "exit"
    /\ UNCHANGED <<net, guards, contacted, call, needs, goodExits, entries, len, path,
                   tries>>

\* Without entries the arrays of the selection have no elements and are read.
DrawNothing ==
    /\ pc = "draw" /\ entries = {}
    /\ pc' = "undefined"
    /\ UNCHANGED <<net, guards, contacted, locals>>

\* The names of the pair are logged, with debug messages on: also the name of
\* an entry that is NULL.
LogsNullEntry ==
    /\ pc = "populate" /\ path = <<>> /\ tries = 0
    /\ goodExits # {} /\ entry = None
    /\ pc' = "undefined"
    /\ UNCHANGED <<net, guards, contacted, locals>>

-----------------------------------------------------------------------------
(* as_onion_populate_cpath *)

Last == Len(path) = len - 1

ExtendLast ==
    /\ pc = "populate" /\ Last
    /\ AppendHop(exit)
    /\ UNCHANGED <<net, guards, contacted, call, needs, goodExits, entries, exit,
                   entry, len, tries>>

ExtendEntry ==
    /\ pc = "populate" /\ path = <<>> /\ ~ Last /\ entry \in Relays
    /\ AppendHop(entry)
    /\ UNCHANGED <<net, guards, contacted, call, needs, goodExits, entries, exit,
                   entry, len, tries>>

\* entry was never set: whatever the stack held is followed ...
ExtendGarbage ==
    /\ pc = "populate" /\ path = <<>> /\ ~ Last /\ entry = Garbage
    /\ pc' = "undefined"
    /\ UNCHANGED <<net, guards, contacted, locals>>

\* ... or it is NULL, and the entry is chosen the standard way: from the
\* guards, with the requirements of the call, or from all relays.
StandardGuard ==
    /\ pc = "populate" /\ path = <<>> /\ ~ Last /\ entry = None /\ UsesGuards
    /\ needs' = CallNeeds
    /\ pc' = "guards"
    /\ UNCHANGED <<net, guards, contacted, call, goodExits, entries, exit, entry, len,
                   path, tries>>

StandardEntry ==
    /\ pc = "populate" /\ path = <<>> /\ ~ Last /\ entry = None /\ ~ UsesGuards
    /\ ChooseHop(AllBut(Family(exit) \cup
                            IF net.useGuards THEN Families(GuardSet) ELSE {},
                        Requirement(call.uptime, call.capacity, TRUE, TRUE)),
                 "undefined")
    /\ UNCHANGED <<net, guards, contacted, call, needs, goodExits, entries, exit,
                   entry, len, tries>>

\* Mutant of MiddleExcluded: only the exit and the entry are looked at.
MiddleExcludedEnds == Families({exit, path[1]})

\* choose_good_middle_server: no relative of the exit or of a hop so far.
MiddleExcluded == Families({exit} \cup {path[i] : i \in 1 .. Len(path)})

ExtendMiddle ==
    /\ pc = "populate" /\ path # <<>> /\ Len(path) < len - 1
    /\ ChooseHop(AllBut(MiddleExcluded, CallNeeds), "failed")
    /\ UNCHANGED <<net, guards, contacted, call, needs, goodExits, entries, exit,
                   entry, len, tries>>

HasNtor == \E i \in 1 .. Len(path) : path[i] \in net.ntor

Populate ==
    /\ pc = "populate" /\ Len(path) >= len
    /\ len <= 1 \/ ~ net.usingNtor \/ HasNtor
    /\ pc' = "firsthop"
    /\ UNCHANGED <<net, guards, contacted, locals>>

\* No hop does ntor: start over, a bounded number of times.
PopulateAgain ==
    /\ pc = "populate" /\ Len(path) >= len
    /\ len > 1 /\ net.usingNtor /\ ~ HasNtor
    /\ IF tries + 1 >= MaxTries
       THEN Fail /\ UNCHANGED <<path, tries>>
       ELSE tries' = tries + 1 /\ path' = <<>> /\ UNCHANGED pc
    /\ UNCHANGED <<net, guards, contacted, call, needs, goodExits, entries, exit,
                   entry, len>>

\* circuit_handle_first_hop finds, waits for or launches a channel, or fails.
HandleFirstHop ==
    /\ pc = "firsthop"
    /\ pc' = "done" \/ Fail
    /\ UNCHANGED <<net, guards, contacted, locals>>

Return ==
    /\ pc \in {"done", "failed"}
    /\ pc' = "idle"
    /\ call' = Idle /\ needs' = NoNeeds
    /\ goodExits' = {} /\ entries' = {} /\ exit' = None /\ entry' = None
    /\ len' = 0 /\ path' = <<>> /\ tries' = 0
    /\ UNCHANGED <<net, guards, contacted>>

Calls == [exit : Relays \cup {None}, testing : BOOLEAN, onehop : BOOLEAN,
          uptime : BOOLEAN, capacity : BOOLEAN]

EstSteps ==
    \/ FillGuards
    \/ \E r \in Relays : PickGuard(r)
    \/ PickedGuards
    \/ \E r \in Relays : RetryWithGuard(r)
    \/ RetryRelaxed
    \/ GuardsListed
    \/ GuardChosen
    \/ ListExits
    \/ PickExit
    \/ ListGuards
    \/ ListEntries
    \/ \E e, x \in Relays : DrawPair(e, x)
    \/ DrawNothing
    \/ LogsNullEntry
    \/ ExtendLast
    \/ ExtendEntry
    \/ ExtendGarbage
    \/ StandardGuard
    \/ StandardEntry
    \/ ExtendMiddle
    \/ Populate
    \/ PopulateAgain
    \/ HandleFirstHop
    \/ Return

EstNext ==
    \/ \E c \in Calls : Establish(c)
    \/ NoLogFile
    \/ EstSteps

\* The function runs in the main thread and waits only for the predictor
\* (PathQuery).
EstSpec == EstInit /\ [][EstNext]_estVars /\ WF_estVars(EstSteps)

-----------------------------------------------------------------------------
(* Properties *)

Unrelated(i, j) == path[j] \notin Family(path[i])

\* choose_good_middle_server: "make sure we don't pick the exit node or its
\* family, and make sure we don't duplicate any previous nodes or their
\* families".  Whatever is retried, relaxed or started over, the relays of a
\* path to a given exit are pairwise unrelated, and in a path around a drawn
\* pair only its two ends may be related.
PathUnrelated ==
    pc \in {"firsthop", "done"} =>
        \A i, j \in 1 .. Len(path) :
            i < j => \/ Unrelated(i, j)
                     \/ call.exit = None /\ i = 1 /\ j = Len(path)

\* The entry list is made "with different families from already selected
\* nodes", so that the entry and the exit of a path are unrelated.
EntryApartFromExit ==
    pc = "done" /\ Len(path) > 1 => Unrelated(1, Len(path))

\* res[] has room for 10000 pairs of an entry and an exit.  With entry guards
\* the entries are no more than the guards needed, however many guards the
\* calls before have collected, so that only the number of exits counts.
EntriesBounded == UsesGuards => Cardinality(entries) <= NumGuards

\* A call ends, in spite of the retries for guards and for ntor.
EstablishEnds == (pc # "idle") ~> (pc \in {"idle", "undefined"})
=============================================================================
