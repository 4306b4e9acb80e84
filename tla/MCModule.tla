------------------------------ MODULE MCModule ------------------------------
(***************************************************************************)
(* Instances for model checking the interceptor with its loader.           *)
(***************************************************************************)
EXTENDS ModuleProperties

CONSTANTS loader, root, user

OwnerOf == [p \in Pid |-> IF p \in Root THEN 0 ELSE 1]
=============================================================================
