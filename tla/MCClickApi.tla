----------------------------- MODULE MCClickApi -----------------------------
(* ClickApi for TLC: two controllers and two kinds of frame.                *)
EXTENDS ClickApi, TLC

(* One frame that parses and one that does not. *)
MCBody == {"Control", "Unrecognised"}

Symmetry == Permutations(Client)
==============================================================================
