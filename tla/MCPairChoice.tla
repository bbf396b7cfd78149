---------------------------- MODULE MCPairChoice ----------------------------
(***************************************************************************)
(* The choice of an entry-exit pair and the address map it asks, side by   *)
(* side: a behaviour is a scan of long lists, a whole selection from short *)
(* ones, or calls of the lookup after a scan of empty lists.               *)
(***************************************************************************)
EXTENDS PathSelection, AsLookup

MCProbe == [addr |-> 6, len |-> 2]

\* The files with at most two lines besides the probe, or one line and no
\* probe (then the file is read again at every call); no line is a default
\* route.
MCFiles ==
    LET lines == {p \in Prefix : p.len > 0}
        Few(n) == {d \in SUBSET lines : Cardinality(d) <= n}
    IN  UNION {[d -> AS] : d \in {e \cup {Probe} : e \in Few(2)} \cup Few(1)}

\* The scan asks an exit list only what is in it: one list per set will do.
Ascending == {l \in Lists(MaxExitPath) : \A k \in 2 .. Len(l) : l[k - 1] < l[k]}

\* Lists that are empty, or that hold one AS.
OneList == {<< >>, <<CHOOSE a \in ASN : TRUE>>}

VARIABLE part       \* the model whose behaviour this is

mcVars == <<part, selVars, lookupVars>>

MCInit ==
    /\ LookupInit
    /\ \/ /\ part = "scan" /\ twiceAlpha = 0 /\ file = Missing
          /\ exitAll \in [1 .. NumExit -> Ascending]
       \/ /\ part = "select" /\ file = Missing
          /\ entryAll \in [1 .. NumEntry -> OneList]
          /\ exitAll \in [1 .. NumExit -> OneList]
       \/ /\ part = "lookup" /\ twiceAlpha = 0
          /\ entryAll = [x \in 1 .. NumEntry |-> << >>]
          /\ exitAll = [y \in 1 .. NumExit |-> << >>]
    /\ SelInit

MCNext ==
    \/ ScanStep /\ UNCHANGED <<part, lookupVars>>
    \/ part = "select" /\ SelNext /\ UNCHANGED <<part, lookupVars>>
    \/ part = "lookup" /\ Scanned /\ LookupNext /\ UNCHANGED <<part, selVars>>

\* The fairness of FairSelSpec; the parts "scan" and "lookup" end their
\* selection with the scan.
MCSpec ==
    /\ MCInit /\ [][MCNext]_mcVars
    /\ WF_selVars(ScanStep)
    /\ WF_selVars(part = "select" /\ Solve)
    /\ \A p \in Pairs : SF_selVars(part = "select" /\ DrawWeighted(p))
=============================================================================
