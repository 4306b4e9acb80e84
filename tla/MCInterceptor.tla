--------------------------- MODULE MCInterceptor ---------------------------
(***************************************************************************)
(* Instances for model checking: one or two processes of root, and the     *)
(* processes of one user.                                                  *)
(***************************************************************************)
EXTENDS InterceptorProperties

CONSTANTS root, user, other

OwnerOf == [p \in Pid |-> IF p \in Root THEN 0 ELSE 1]
=============================================================================
