---------------------------- MODULE MCStealRequest ----------------------------
(* Instances of StealRequest: the constants are in the cfg file.             *)
EXTENDS StealRequest
===============================================================================
