------------------------------ MODULE MCCppDemo ------------------------------
(* CppDemo for TLC. *)
EXTENDS CppDemo

MCBody == MessageType
==============================================================================
