------------------------------- MODULE MCBtt -------------------------------
(***************************************************************************)
(* Bounds for model checking Btt: which address sets the platform reports  *)
(* as bad.                                                                 *)
(***************************************************************************)
EXTENDS BttInv

CONSTANTS
  v1,        \* a block content
  MaxBad     \* most ranges in the ARS list: 0 or 1

MCValues == {Zero, v1}

Locations ==
  {InfoLoc(a) : a \in Arenas} \cup {BackupLoc(a) : a \in Arenas}
  \cup {MapLoc(a, p) : a \in Arenas, p \in Lbas}
  \cup {FlogLoc(a, i) : a \in Arenas, i \in Lanes}
  \cup {DataLoc(a, b) : a \in Arenas, b \in Blocks}

MCBadSets == {{}} \cup (IF MaxBad = 0 THEN {} ELSE {{l} : l \in Locations})

\* State constraint of the runs with foreign writes: one namespace per
\* behaviour, on media that was never used.  The other runs delete the
\* namespace and create it again on stale media.
FirstNamespace ==
  ns = "absent" =>
    \A a \in Arenas : /\ \A b \in Blocks : data[a][b] = Zero
                      /\ \A p \in Lbas : map[a][p] = InitialEntry
=============================================================================
