------------------------------- MODULE MCExt2 -------------------------------
(***************************************************************************)
(* Instances for model checking: two inodes to allocate, and a root that   *)
(* needs a second block for a third name.  The root has room for two short *)
(* names or for a short and a long one.                                    *)
(***************************************************************************)
EXTENDS Ext2Properties

CONSTANTS a, b, c

Alike == Permutations({a, b})
=============================================================================
