------------------------------ MODULE MCWorkQueue ------------------------------
(* Instances of WorkQueue: the constants are in the cfg files.               *)
EXTENDS WorkQueue
===============================================================================
