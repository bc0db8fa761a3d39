------------------------------ MODULE MCShadowGit ------------------------------
(***************************************************************************)
(* ShadowGit on small instances.                                           *)
(***************************************************************************)
EXTENDS ShadowGit, TLC

Interchangeable == Permutations(Callers) \cup Permutations(Paths)
================================================================================
