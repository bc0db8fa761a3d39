------------------------------ MODULE MCNativeRun ------------------------------
(***************************************************************************)
(* NativeRun on small instances.                                           *)
(***************************************************************************)
EXTENDS NativeRun
================================================================================
