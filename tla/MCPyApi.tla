------------------------------- MODULE MCPyApi -------------------------------
(* PyApi for TLC: frames of two sizes, the empty one, one that no parser    *)
(* takes.                                                                   *)
EXTENDS PyApi, TLC

MCBody == {"Control", "Sensor", "Empty", "Unrecognised"}

MCSize == [frame \in MCBody |-> CASE frame = "Empty" -> 0 [] frame = "Sensor" -> 2 [] OTHER -> 1]

Symmetry == Permutations(Client)
==============================================================================
