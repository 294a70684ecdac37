------------------------------ MODULE MCPyDemo ------------------------------
(* PyDemo for TLC. *)
EXTENDS PyDemo

MCBody == MessageType
==============================================================================
