--------------------------- MODULE PathSelection ---------------------------
(***************************************************************************)
(* The rest of the pair selection of circuit_establish_circuit: after the  *)
(* scan (AttackMatrix) the pairs get weights, from the linear program if   *)
(* every pair is attacked, else from the bandwidth of the attacker-free    *)
(* ones; the weights are mixed with plain bandwidth by alpha; pairs are    *)
(* drawn until both relays have a known AS.                                *)
(*                                                                         *)
(* A weight is abstracted to whether it is non-zero: that decides which    *)
(* pairs a draw can return.                                                *)
(***************************************************************************)
EXTENDS AttackMatrix

CONSTANT Alphas   \* 2 * alpha, for the alphas to look at; the code is
                  \* compiled with one of 0, 0.5 and 1, as committed with 1

ASSUME AlphaAssumption == Alphas \subseteq {0, 1, 2}

VARIABLES
    twiceAlpha,  \* twice the alpha of this build
    unknown,     \* relays whose AS is "-1" in the address map
    weighted,    \* relays with a non-zero consensus bandwidth weight
    lp,          \* pairs with a non-zero res[] of solve_lp
    phase,       \* "scan", "pick" or "chosen"
    chosen,      \* the pair last drawn, 0 before the first draw
    boundary     \* did the last draw fall through pick_from_dist's loop

relays == <<unknown, weighted, lp>>
selVars == <<vars, twiceAlpha, relays, phase, chosen, boundary>>

RelaySets == [entry : SUBSET (1 .. NumEntry), exit : SUBSET (1 .. NumExit)]

-----------------------------------------------------------------------------
KnownPair(p) ==
    /\ EntryOf(p) \notin unknown.entry
    /\ ExitOf(p) \notin unknown.exit

\* Pairs with a non-zero bandwidth product (lp_bw_mins).
BwSupport ==
    {p \in Pairs :
        EntryOf(p) \in weighted.entry /\ ExitOf(p) \in weighted.exit}

\* Mutant of LpSupport: the attacker-free list is not used.
LpIgnoresFree == IF free = {} THEN lp ELSE BwSupport

\* Mutant of LpSupport: the bandwidth is not multiplied in.
LpIgnoresBandwidth == IF free = {} THEN lp ELSE free

\* Pairs with a non-zero lp_sec_prob.
LpSupport == IF free = {} THEN lp ELSE free \cap BwSupport

\* A distribution with total 0 is all NaN (0/0).  NaN times 0 is NaN, so one
\* such distribution spoils the mix for every alpha, and no comparison with
\* NaN holds: pick_from_dist then finds no pair.
TunedSupport ==
    IF BwSupport = {} \/ LpSupport = {}
    THEN {}
    ELSE (IF twiceAlpha > 0 THEN BwSupport ELSE {})
            \cup (IF twiceAlpha < 2 THEN LpSupport ELSE {})

SelInit ==
    /\ Init
    /\ twiceAlpha \in Alphas
    /\ unknown = [entry |-> {}, exit |-> {}]
    /\ weighted = [entry |-> {}, exit |-> {}]
    /\ lp = {}
    /\ phase = "scan"
    /\ chosen = 0
    /\ boundary = FALSE

ScanStep == Scan /\ UNCHANGED <<twiceAlpha, relays, phase, chosen, boundary>>

\* Weights.  Which relays have an AS and a bandwidth is up to the address
\* map and the consensus (neither is read before).  solve_lp runs only if no
\* pair is free; its return value is ignored, on failure res[] keeps what
\* the stack held: any set of pairs may end up with a weight.
Solve ==
    /\ phase = "scan"
    /\ Scanned
    /\ unknown' \in RelaySets
    /\ weighted' \in RelaySets
    /\ lp' \in IF free = {} THEN SUBSET Pairs ELSE {{}}
    /\ phase' = "pick"
    /\ UNCHANGED <<vars, twiceAlpha, chosen, boundary>>

\* Mutant of Drawn: the first index is taken for no result.
DrawnSkipsFirst(p) ==
    /\ chosen' = p
    /\ phase' = IF KnownPair(p) /\ p # 1 THEN "chosen" ELSE "pick"
    /\ UNCHANGED <<vars, twiceAlpha, relays>>

\* One turn of the do-while loop, with the index pick_from_dist returned.
Drawn(p) ==
    /\ chosen' = p
    /\ phase' = IF KnownPair(p) THEN "chosen" ELSE "pick"
    /\ UNCHANGED <<vars, twiceAlpha, relays>>

\* The random number falls into the interval of pair p.
DrawWeighted(p) ==
    /\ phase = "pick"
    /\ p \in TunedSupport
    /\ boundary' = FALSE
    /\ Drawn(p)

\* It falls into none (rand() = RAND_MAX, or the distribution is NaN): the
\* initial value of ret_index, the first pair, is returned.
DrawBoundary ==
    /\ phase = "pick"
    /\ boundary' = TRUE
    /\ Drawn(1)

SelNext ==
    \/ ScanStep
    \/ Solve
    \/ \E p \in Pairs : DrawWeighted(p)
    \/ DrawBoundary

SelSpec == SelInit /\ [][SelNext]_selVars

\* The function runs to its end in the main thread, and rand() keeps
\* returning every value: a pair that can be drawn for ever is drawn.
FairSelSpec ==
    /\ SelSpec
    /\ WF_selVars(ScanStep)
    /\ WF_selVars(Solve)
    /\ \A p \in Pairs : SF_selVars(DrawWeighted(p))

-----------------------------------------------------------------------------
(* Properties *)

\* Types of the variables of the draw.
SelTypeOK ==
    /\ TypeOK
    /\ twiceAlpha \in Alphas
    /\ unknown \in RelaySets
    /\ weighted \in RelaySets
    /\ lp \in SUBSET Pairs
    /\ phase \in {"scan", "pick", "chosen"}
    /\ chosen \in 0 .. Paths
    /\ boundary \in BOOLEAN

\* "Otherwise use one of the attacker free paths at random": with an
\* attacker-free pair at hand, no attacked pair is used, unless alpha mixes
\* plain bandwidth in or the draw fell through to the first pair.
AvoidsAttackers ==
    phase = "chosen" /\ free # {} /\ twiceAlpha = 0 /\ ~ boundary
        => ~ Attacked(chosen)

\* A pair without bandwidth is never used, whatever alpha mixes in, unless
\* the linear program gave it its weight or the draw fell through.
ChosenHasBandwidth ==
    phase = "chosen" /\ free # {} /\ ~ boundary => chosen \in BwSupport

\* The do-while loop ends if some pair it can draw has two known ASes.
SelectionTerminates ==
    (phase = "pick" /\ \E p \in TunedSupport : KnownPair(p))
        ~> phase = "chosen"
=============================================================================
