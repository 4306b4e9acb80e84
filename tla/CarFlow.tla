------------------------------ MODULE CarFlow ------------------------------
(***************************************************************************)
(* What the traffic simulation promises, without its threads and locks:    *)
(* every lane is a bounded FIFO queue, the cars of one lane cross one at a *)
(* time in their order of arrival, and each ends in the lane of its        *)
(* out_dir, newest first.                                                  *)
(***************************************************************************)
EXTENDS Naturals, Sequences

CONSTANTS Lane, Bound, Arrivals, Exit(_)

VARIABLES pending, queue, crossing, left

vars == <<pending, queue, crossing, left>>

Init ==
  /\ pending = Arrivals
  /\ queue = [l \in Lane |-> <<>>]
  /\ crossing = [l \in Lane |-> <<>>]
  /\ left = [l \in Lane |-> <<>>]

Arrive(l) ==
  /\ pending[l] # <<>>
  /\ Len(queue[l]) < Bound
  /\ queue' = [queue EXCEPT ![l] = Append(@, Head(pending[l]))]
  /\ pending' = [pending EXCEPT ![l] = Tail(@)]
  /\ UNCHANGED <<crossing, left>>

Enter(l) ==
  /\ queue[l] # <<>>
  /\ crossing[l] = <<>>
  /\ crossing' = [crossing EXCEPT ![l] = <<Head(queue[l])>>]
  /\ queue' = [queue EXCEPT ![l] = Tail(@)]
  /\ UNCHANGED <<pending, left>>

Leave(l) ==
  /\ crossing[l] # <<>>
  /\ crossing' = [crossing EXCEPT ![l] = <<>>]
  /\ left' = [left EXCEPT ![Exit(crossing[l][1])] = crossing[l] \o @]
  /\ UNCHANGED <<pending, queue>>

Next == \E l \in Lane : Arrive(l) \/ Enter(l) \/ Leave(l)

Steps == Init /\ [][Next]_vars

Progress == WF_vars(Next)

Spec == Steps /\ Progress
=============================================================================
