--------------------------- MODULE MCRoutingTree ---------------------------
EXTENDS RoutingTree

\* All graphs with one relationship per pair of ASes, seen from the lower
\* numbered one.
MCGraphs ==
    {[x \in AS |->
        [y \in AS |-> IF x = y THEN NoEdge
                     ELSE IF x < y THEN e[{x, y}] ELSE Opposite(e[{x, y}])]] :
      e \in [{{x, y} : x, y \in AS} \ {{x} : x \in AS} ->
               {CustomerOf, PeerOf, ProviderTo, SiblingOf, NoEdge}]}

\* ASes 1 and 4 collide.
MCHash(u, v) == (v + 1) % 3
MCDestSeq == <<1, 2>>
=============================================================================
