-------------------------- MODULE MCVirtualMemory --------------------------
(***************************************************************************)
(* Instances for model checking: pages in two directories.                 *)
(***************************************************************************)
EXTENDS VMProperties

CONSTANTS a, b, c, d

DirOf == [v \in Page |-> IF v \in {a, b} THEN 0 ELSE 1]
=============================================================================
