------------------------ MODULE ReplacementPolicies ------------------------
(***************************************************************************)
(* Assignment3: the five replacement algorithms (rand.c, fifo.c, lru.c,    *)
(* clock.c, opt.c).  sim.c calls one of them through evict_fcn and         *)
(* ref_fcn.  The state of all is one record; evict is the set of its       *)
(* possible results, one for each value random() may have.                 *)
(***************************************************************************)
EXTENDS Integers, SequencesExt

CONSTANT memsize   \* frames of simulated memory

ASSUME MemsizeAssumption == memsize \in 1 .. 2 ^ 17

Frame == 0 .. memsize - 1

policy0 == [head_of_fifo |-> 0, lru |-> <<>>, referenced |-> {}, clockhand |-> 0]
-----------------------------------------------------------------------------
rand_evict(s) == {[frame |-> f, policy |-> s] : f \in Frame}

(* defect of fifo_evict: the head stays *)
fifo_evict_stuck(s) == {[frame |-> s.head_of_fifo, policy |-> s]}

fifo_evict(s) ==
  {[frame |-> s.head_of_fifo, policy |-> [s EXCEPT !.head_of_fifo = (@ + 1) % memsize]]}
-----------------------------------------------------------------------------
(* lru is the linked list from head_of_lru to tail_of_lru                  *)

lru_evict(s) ==
  {[frame |-> Head(s.lru),
    policy |-> [s EXCEPT !.lru = Tail(@), !.referenced = @ \ {Head(s.lru)}]]}

(* defect of lru_ref: only the first reference is recorded *)
lru_ref_once(s, f) ==
  IF f \in s.referenced THEN s
  ELSE [s EXCEPT !.lru = Append(@, f), !.referenced = @ \cup {f}]

lru_ref(s, f) ==
  [s EXCEPT !.lru = Append(IF f \in s.referenced THEN RemoveFirst(@, f) ELSE @, f),
            !.referenced = @ \cup {f}]
-----------------------------------------------------------------------------
(* The hand stops at the first frame that is not referenced, after a full  *)
(* turn at the frame it started from, and stays there.                     *)
clock_evict(s) ==
  LET At(k) == (s.clockhand + k) % memsize
      Stops == {k \in Frame : At(k) \notin s.referenced}
      stop == IF Stops = {} THEN memsize ELSE Min(Stops)
      Passed == {At(k) : k \in 0 .. stop - 1}
  IN {[frame |-> At(stop),
       policy |-> [s EXCEPT !.clockhand = At(stop),
                            !.referenced = (@ \ Passed) \cup {At(stop)}]]}

clock_ref(s, f) == [s EXCEPT !.referenced = @ \cup {f}]
-----------------------------------------------------------------------------
(* With at most 2 ^ 17 frames the top bits opt.c looks at are zero in      *)
(* every entry: opt_ref does nothing, every frame is of class 0, and as    *)
(* current stays -1 the last frame is taken.  placeholder and ceiling,     *)
(* which then decide nothing, are left out.                                *)
opt_evict(s) == {[frame |-> memsize - 1, policy |-> s]}
-----------------------------------------------------------------------------
(* the algs array *)
Algorithm == {"rand", "lru", "fifo", "clock", "opt"}

evict_fcn(alg, s) ==
  CASE alg = "rand" -> rand_evict(s)
    [] alg = "lru" -> lru_evict(s)
    [] alg = "fifo" -> fifo_evict(s)
    [] alg = "clock" -> clock_evict(s)
    [] alg = "opt" -> opt_evict(s)

ref_fcn(alg, s, f) ==
  CASE alg = "lru" -> lru_ref(s, f)
    [] alg = "clock" -> clock_ref(s, f)
    [] OTHER -> s
=============================================================================
