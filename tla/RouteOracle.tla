---------------------------- MODULE RouteOracle ----------------------------
(***************************************************************************)
(* What the route query promises its caller, circuit_establish_circuit: a  *)
(* call of get_aspath is one step that fills result[] with the true        *)
(* records of its pairs, in their order, or, when the predictor fails,     *)
(* with the first of them, the last one perhaps cut short.  The rest stays *)
(* as it was.  Calls of other clients do not show.                         *)
(***************************************************************************)
EXTENDS Integers, Sequences

CONSTANTS
    Client,         \* Tor processes
    Queries,        \* the queries they make
    Garbage,        \* an element of result[] that was never written
    Truth(_)        \* the record of a pair

VARIABLES
    state,          \* per client: idle, asking, done or dead
    asked,          \* per client: its query
    answer          \* per client: result[] once the call has returned

oracleVars == <<state, asked, answer>>

OracleInit ==
    /\ state = [c \in Client |-> "idle"]
    /\ asked \in [Client -> Queries]
    /\ answer = [c \in Client |-> << >>]

Ask(c) ==
    /\ state[c] = "idle"
    /\ state' = [state EXCEPT ![c] = "asking"]
    /\ UNCHANGED <<asked, answer>>

\* r holds the first n records, and of the next one at most a part.
FirstRecords(pairs, r, n) ==
    /\ DOMAIN r = DOMAIN pairs
    /\ \A i \in DOMAIN pairs :
          \/ i <= n /\ r[i] = Truth(pairs[i])
          \/ i = n + 1 /\ r[i] # Garbage /\ r[i] \subseteq Truth(pairs[i])
          \/ i > n /\ r[i] = Garbage

Return(c) ==
    /\ state[c] = "asking"
    /\ state' = [state EXCEPT ![c] = "done"]
    /\ UNCHANGED asked
    /\ answer' = [answer EXCEPT ![c] = answer'[c]]
    /\ \E n \in 0 .. Len(asked[c].pairs) :
          FirstRecords(asked[c].pairs, answer'[c], n)

Die(c) ==
    /\ state[c] = "asking"
    /\ state' = [state EXCEPT ![c] = "dead"]
    /\ UNCHANGED <<asked, answer>>

\* The caller has used the answer and will ask something else.
Forget(c) ==
    /\ state[c] = "done"
    /\ state' = [state EXCEPT ![c] = "idle"]
    /\ asked' \in {[asked EXCEPT ![c] = q] : q \in Queries}
    /\ answer' = [answer EXCEPT ![c] = << >>]

OracleNext == \E c \in Client : Ask(c) \/ Return(c) \/ Die(c) \/ Forget(c)

OracleSpec == OracleInit /\ [][OracleNext]_oracleVars
=============================================================================
