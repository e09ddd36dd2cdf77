---------------------------- MODULE MCUnitOfWork ----------------------------
(***************************************************************************)
(* A small instance of UnitOfWork for TLC.                                 *)
(***************************************************************************)
EXTENDS UnitOfWork, TLC

Interchangeable == Permutations(Containers) \cup Permutations(Requests)
=============================================================================
