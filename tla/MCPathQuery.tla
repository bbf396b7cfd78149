---------------------------- MODULE MCPathQuery ----------------------------
(* Instances of PathQuery for TLC. *)
EXTENDS PathQuery

\* Four ASes of the graph and the "-1" of relays without an AS.
MCAS == {"src", "dst", "x", "e", "-1"}
MCKnown == MCAS \ {"-1"}

\* Records are only compared: an opaque element for every pair, two for one
\* so that a record can be cut short.
MCRoute == [p \in MCAS \X MCAS |->
              IF p = <<"dst", "x">> THEN {p, <<"via", "x">>} ELSE {p}]

MCQueries ==
    {QueryFor("src", "dst", <<"x">>, <<"e">>),
     QueryFor("src", "dst", <<"-1">>, <<"x">>)}

MCPrecomp == <<<<"x", "dst">>, <<"dst", "x">>>>
=============================================================================
