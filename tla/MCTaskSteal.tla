------------------------------ MODULE MCTaskSteal ------------------------------
(* Instances of TaskSteal: the constants are in the cfg files.             *)
EXTENDS TaskSteal
===============================================================================
