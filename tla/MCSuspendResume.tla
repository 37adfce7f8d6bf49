---------------------------- MODULE MCSuspendResume ----------------------------
(* Instances of SuspendResume: the constants are in the cfg file.            *)
EXTENDS SuspendResume
===============================================================================
