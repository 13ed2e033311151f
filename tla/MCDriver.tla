------------------------------ MODULE MCDriver ------------------------------
(* The instance of Driver for TLC: every program of three items of each     *)
(* kind, ordinary and RAL.                                                  *)
EXTENDS Driver

MCItems    == [kind : Kinds, from_ral : BOOLEAN]
MCPrograms == [1 .. 3 -> MCItems]
=============================================================================
