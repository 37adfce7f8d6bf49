----------------------------- MODULE MCFrameStack -----------------------------
(* Instances of FrameStack: the constants are in the cfg files.              *)
EXTENDS FrameStack
===============================================================================
