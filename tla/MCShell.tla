------------------------------- MODULE MCShell -------------------------------
(***************************************************************************)
(* The shell with two registers, rows of two words of two bytes, and an  *)
(* address space of sixteen bytes.                                         *)
(***************************************************************************)
EXTENDS Shell
=============================================================================
