-------------------------- MODULE MCFunctionBuild --------------------------
(* Instances of FunctionBuild for TLC, and its mutants. *)
EXTENDS FunctionBuild
=============================================================================
