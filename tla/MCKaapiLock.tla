------------------------------ MODULE MCKaapiLock ------------------------------
(* Instances of KaapiLock: the constants are in the cfg files.               *)
EXTENDS KaapiLock
===============================================================================
