---------------------------- MODULE CircuitPath ----------------------------
(***************************************************************************)
(* CircuitUse with a history: which destination the relays of a circuit    *)
(* were chosen for.  circuit_establish_circuit gets the stream's           *)
(* destination AS and picks the pair of relays for it (PathSelection); a   *)
(* predicted circuit is built for none.                                    *)
(***************************************************************************)
EXTENDS CircuitUse

VARIABLE builtFor  \* the AS given to circuit_establish_circuit, or None

pathVars == <<vars, builtFor>>

PathInit == Init /\ builtFor = [c \in Circ |-> None]

\* A new circuit was built for the stream it is reserved for, if for any.
PathNext ==
  /\ Next
  /\ builtFor' = [c \in Circ |->
       IF circ[c].state = "free" /\ circ'[c].state # "free" THEN circ'[c].dest
       ELSE builtFor[c]]

PathSpec == PathInit /\ [][PathNext]_pathVars

-----------------------------------------------------------------------------
\* circuit_get_best: "If the connection is for a different range of IPs than the
\* circuit destination, we keep looking for another circuit": a stream is only
\* carried by a circuit whose path was chosen for its destination.
PathMatchesDestination ==
  \A s \in Stream : stream[s].on # None => builtFor[stream[s].on] = stream[s].dest
=============================================================================
