----------------------------- MODULE MCCompiler -----------------------------
(* Small instances of Compiler for TLC.  The name f is a field of the      *)
(* class; x is a global wherever the source does not declare it.           *)
EXTENDS Compiler

MCNames == {"x", "f"}
MCFields == {"f"}
=============================================================================
