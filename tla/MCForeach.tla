------------------------------- MODULE MCForeach -------------------------------
(* Instances of Foreach: the constants are in the cfg files.                 *)
EXTENDS Foreach
===============================================================================
