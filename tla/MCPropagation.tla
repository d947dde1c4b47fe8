--------------------------- MODULE MCPropagation ---------------------------
(***************************************************************************)
(* Small instances of Propagation for TLC: its constants are given in the  *)
(* configurations.                                                         *)
(***************************************************************************)
EXTENDS Propagation, TLC

\* Zones are interchangeable: they start alike and no action tells one from
\* another.  Only for runs without liveness properties.
Symmetric == Permutations(Zone)
=============================================================================
