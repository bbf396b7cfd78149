------------------------ MODULE MCEstablishCircuit ------------------------
EXTENDS EstablishCircuit

All == 1 .. NumRelays

\* Five relays, three of them exits, three of them possible guards.  Some may
\* lack a descriptor, be down or not run, or be related; the pending stream may
\* have no exit.
MCNetworks ==
    [running : {All, All \ {1}}, described : {All, All \ {2}},
     stable : {{2, 3}}, fast : {{1, 4}}, guard : {{1, 2, 4}},
     exits : {{1, 3, 4}}, ports : {{3}}, ntor : {{5}}, down : {{}, All},
     related : {{}, {{1, 4}}, {{2, 4}, {4, 5}}},
     pending : {1}, supports : {[r \in All |-> 0],
                                [r \in All |-> IF r \in {1, 3} THEN 1 ELSE 0],
                                [r \in All |-> IF r \in {1, 4} THEN 1 ELSE 0]},
     useGuards : BOOLEAN, usingNtor : {TRUE}]
=============================================================================
