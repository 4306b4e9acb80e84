----------------------------- MODULE FlatMemory -----------------------------
(***************************************************************************)
(* What virtual memory promises the traced program: a flat memory.  Each   *)
(* page holds the number of writes made to it; an access that writes       *)
(* changes its own page only, and paging changes nothing.                  *)
(***************************************************************************)
EXTENDS Naturals

CONSTANT Page

VARIABLE mem

Init == mem = [v \in Page |-> 0]

Write(v) == mem' = [mem EXCEPT ![v] = @ + 1]

Next == \E v \in Page : Write(v)

Spec == Init /\ [][Next]_mem
=============================================================================
