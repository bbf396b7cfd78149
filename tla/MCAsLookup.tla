----------------------------- MODULE MCAsLookup -----------------------------
(* Files of one line besides the probe, of a length the shipped map has:   *)
(* the full one included, no default route.                                *)
EXTENDS AsLookup

MCProbe == [addr |-> 6, len |-> 2]

OneLine == UNION {[{p, Probe} -> AS] : p \in {q \in Prefix : q.len > 0}}
=============================================================================
