---------------------------- MODULE VMProperties ----------------------------
(***************************************************************************)
(* What the virtual memory simulator of Assignment3 must guarantee.        *)
(***************************************************************************)
EXTENDS VMHistory

(* Every variable keeps its type: frames and slots that are in use hold    *)
(* data of pages, and a counter is never negative.                         *)
TypeOK ==
  /\ alg \in Algorithm
  /\ pgdir \subseteq {dir_of[v] : v \in Page}
  /\ pgtbl \in [Page -> Entry]
  /\ coremap \in [Frame -> Page \cup {Unused}]
  /\ physmem \in [Frame -> Data \cup {Unused}]
  /\ swapmap \subseteq Slot
  /\ swapfile \in [Slot -> Data \cup {Unused}]
  /\ policy \in [head_of_fifo : Frame, lru : Seq(Frame), referenced : SUBSET Frame,
                 clockhand : Frame]
  /\ {hit_count, miss_count, ref_count, evict_clean_count, evict_dirty_count} \subseteq Nat
  /\ status \in {"running", "done", "exit1"}

(* Page table and coremap are inverse to each other, and a page in memory  *)
(* is the page the frame says it is: access_mem never prints its error.    *)
PageTableAgrees ==
  /\ \A v \in Page : pgtbl[v].valid =>
       coremap[pgtbl[v].frame] = v /\ physmem[pgtbl[v].frame].vaddr = v
  /\ \A f \in Frame : coremap[f] # Unused =>
       pgtbl[coremap[f]].valid /\ pgtbl[coremap[f]].frame = f

(* The used slots of the swap file are those of the pages, one each, and a *)
(* page that is marked on swap and not in memory is found in its slot.     *)
SlotsOwned ==
  /\ swapmap = {pgtbl[v].swap_off : v \in Page} \ {INVALID_SWAP}
  /\ \A u, v \in Page :
       u # v /\ pgtbl[u].swap_off = pgtbl[v].swap_off => pgtbl[u].swap_off = INVALID_SWAP
  /\ \A v \in Page : pgtbl[v].onswap /\ ~pgtbl[v].valid =>
       pgtbl[v].swap_off # INVALID_SWAP /\ swapfile[pgtbl[v].swap_off].vaddr = v

(* A page in memory without the dirty bit equals its copy in the swap      *)
(* file: what the counter of clean evictions counts needs no write.        *)
CleanIsSaved ==
  \A v \in Page : pgtbl[v].valid /\ ~pgtbl[v].dirty =>
    pgtbl[v].swap_off # INVALID_SWAP /\ swapfile[pgtbl[v].swap_off] = physmem[pgtbl[v].frame]

(* The counters that main prints add up: each reference hits or misses,    *)
(* and each miss either takes a free frame or evicts.                      *)
CountersAgree ==
  /\ ref_count = hit_count + miss_count
  /\ miss_count = evict_clean_count + evict_dirty_count + Cardinality(InMemory)

(* The linked list of lru.c holds the frames in the order of their last    *)
(* use, and its bit map those in the list: neither assertion can fail, and *)
(* the walk of lru_ref ends.                                               *)
LruInOrder ==
  alg = "lru" =>
    /\ policy.lru = [i \in 1 .. Len(uses) |-> pgtbl[uses[i]].frame]
    /\ policy.referenced = {f \in Frame : coremap[f] # Unused}

(* Once memory is full the head of fifo.c goes through the frames in the   *)
(* order in which their pages were loaded.                                 *)
FifoInOrder ==
  alg = "fifo" /\ FreeFrames = {} =>
    \A i \in 1 .. memsize : coremap[(policy.head_of_fifo + i - 1) % memsize] = loads[i]

(* The traced program sees a flat memory, whatever is paged in and out.    *)
Memory == INSTANCE FlatMemory WITH
  mem <- [v \in Page |->
            IF pgtbl[v].valid THEN physmem[pgtbl[v].frame].version
            ELSE Content(pgtbl[v], v, swapfile).version]

ImplementsFlatMemory == Memory!Spec
-----------------------------------------------------------------------------
(* opt.c:15: "chosen using the optimal (aka MIN) algorithm": when a page   *)
(* is needed again, every page that was kept in its place has been needed  *)
(* before it.                                                              *)
OptIsMin ==
  [][alg = "opt" => \A v \in InMemory' \ InMemory : kept[v] = {}]_hvars
=============================================================================
