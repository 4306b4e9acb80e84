--------------------------- MODULE VirtualMemory ---------------------------
(***************************************************************************)
(* Assignment3: the virtual memory simulator (sim.c, pagetable.c, swap.c)  *)
(* with any of its replacement algorithms.                                 *)
(*                                                                         *)
(* The program is sequential: one step is the replay of one trace line,    *)
(* access_mem with all it calls.  The trace is any sequence of reads and   *)
(* writes.  Addresses are pages: the traces hold one address per page.     *)
(***************************************************************************)
EXTENDS ReplacementPolicies, FiniteSets

CONSTANTS Page,      \* pages of the traced program
          dir_of,    \* PGDIR_INDEX of each
          swapsize,  \* slots of the swap file
          Unused,    \* frame that holds no page; slot never written
          MaxRefs    \* bound: lines of the trace

ASSUME PageAssumption == Unused \notin Page
ASSUME SwapsizeAssumption == swapsize \in Nat

VARIABLES alg,                       \* -a
          pgdir,                     \* valid directory entries
          pgtbl,                     \* page table entry of each page
          coremap, physmem,          \* page in each frame; its content
          swapmap, swapfile,         \* used slots; their content
          policy,                    \* of the algorithm
          hit_count, miss_count, ref_count, evict_clean_count, evict_dirty_count,
          status                     \* running, done, or exit(1)

tableVars == <<pgdir, pgtbl>>
memVars == <<coremap, physmem>>
swapVars == <<swapmap, swapfile>>
evictCounts == <<evict_clean_count, evict_dirty_count>>
counters == <<hit_count, miss_count, ref_count, evictCounts>>
vars == <<alg, tableVars, memVars, swapVars, policy, counters, status>>
-----------------------------------------------------------------------------
INVALID_SWAP == -1
Slot == 0 .. swapsize - 1

(* L or I, and S or M, in the trace *)
Type == {"read", "write"}

Data == [vaddr : Page, version : Nat]

Entry == [frame : Frame, valid : BOOLEAN, dirty : BOOLEAN, ref : BOOLEAN, onswap : BOOLEAN,
          swap_off : Slot \cup {INVALID_SWAP}]

NoEntry == [frame |-> 0, valid |-> FALSE, dirty |-> FALSE, ref |-> FALSE, onswap |-> FALSE,
            swap_off |-> INVALID_SWAP]

Init ==
  /\ alg \in Algorithm
  /\ pgdir = {}
  /\ pgtbl = [v \in Page |-> NoEntry]
  /\ coremap = [f \in Frame |-> Unused]
  /\ physmem = [f \in Frame |-> Unused]
  /\ swapmap = {}
  /\ swapfile = [o \in Slot |-> Unused]
  /\ policy = policy0
  /\ hit_count = 0 /\ miss_count = 0 /\ ref_count = 0
  /\ evict_clean_count = 0 /\ evict_dirty_count = 0
  /\ status = "running"
-----------------------------------------------------------------------------
(* defect of WithTable: a second-level table is made on every access *)
WithNewTable(v) == [u \in Page |-> IF dir_of[u] = dir_of[v] THEN NoEntry ELSE pgtbl[u]]

(* The page tables once v has a second-level table                         *)
WithTable(v) ==
  [u \in Page |-> IF dir_of[u] = dir_of[v] /\ dir_of[v] \notin pgdir THEN NoEntry ELSE pgtbl[u]]

Reference(v) ==
  /\ status = "running"
  /\ ref_count < MaxRefs
  /\ ref_count' = ref_count + 1
  /\ pgdir' = pgdir \cup {dir_of[v]}
  /\ UNCHANGED <<alg, status>>

Increments(data, type) ==
  IF type = "write" THEN [data EXCEPT !.version = @ + 1] ELSE data

(* the page is in memory *)
Hit(v, type) ==
  LET t == WithTable(v)
      f == t[v].frame
  IN /\ Reference(v)
     /\ t[v].valid
     /\ pgtbl' = [t EXCEPT ![v].ref = TRUE, ![v].dirty = @ \/ type = "write"]
     /\ physmem' = [physmem EXCEPT ![f] = Increments(@, type)]
     /\ policy' = ref_fcn(alg, policy, f)
     /\ hit_count' = hit_count + 1
     /\ UNCHANGED <<coremap, swapVars, miss_count, evictCounts>>
-----------------------------------------------------------------------------
(* swap_pagein or init_frame fills frame f for page v, whose entry is in   *)
(* table t; the rest of find_physpage, and the write of access_mem         *)

(* defect of Filled: a new page is not dirty *)
FilledClean(e, f, type) ==
  [frame |-> f, valid |-> TRUE, ref |-> TRUE, onswap |-> TRUE,
   dirty |-> type = "write", swap_off |-> e.swap_off]

Filled(e, f, type) ==
  [frame |-> f, valid |-> TRUE, ref |-> TRUE, onswap |-> TRUE,
   dirty |-> ~e.onswap \/ type = "write", swap_off |-> e.swap_off]

Content(e, v, disk) == IF e.onswap THEN disk[e.swap_off] ELSE [vaddr |-> v, version |-> 0]

Load(v, type, f, t, disk) ==
  /\ coremap' = [coremap EXCEPT ![f] = v]
  /\ physmem' = [physmem EXCEPT ![f] = Increments(Content(t[v], v, disk), type)]
  /\ pgtbl' = [t EXCEPT ![v] = Filled(@, f, type)]
  /\ miss_count' = miss_count + 1
  /\ UNCHANGED hit_count

FreeFrames == {f \in Frame : coremap[f] = Unused}

(* allocate_frame finds a free frame *)
MissFree(v, type) ==
  /\ Reference(v)
  /\ ~WithTable(v)[v].valid
  /\ FreeFrames # {}
  /\ Load(v, type, Min(FreeFrames), WithTable(v), swapfile)
  /\ policy' = ref_fcn(alg, policy, Min(FreeFrames))
  /\ UNCHANGED <<swapVars, evictCounts>>

(* defect of FreeSlots: the bits after the last slot are not marked *)
FreeSlotsAndNext == 0 .. swapsize \ swapmap

(* what bitmap_alloc chooses from; the slots are never given back *)
FreeSlots == Slot \ swapmap
SlotFor(e) == IF e.swap_off = INVALID_SWAP THEN Min(FreeSlots) ELSE e.swap_off

(* defect of Marked: the bit is not set *)
Unmarked(e) == swapmap

Marked(e) == swapmap \cup {SlotFor(e)}
NoSlotFor(e) == e.swap_off = INVALID_SWAP /\ FreeSlots = {}

(* defect of PagedOut: the valid bit survives *)
PagedOutValid(e) ==
  [e EXCEPT !.dirty = FALSE, !.onswap = @ \/ e.dirty, !.swap_off = SlotFor(e)]

PagedOut(e) ==
  [e EXCEPT !.valid = FALSE, !.dirty = FALSE, !.onswap = @ \/ e.dirty, !.swap_off = SlotFor(e)]

(* allocate_frame takes the frame of a victim, which swap_pageout writes   *)
(* out, clean or dirty                                                     *)
MissEvict(v, type) ==
  /\ Reference(v)
  /\ ~WithTable(v)[v].valid
  /\ FreeFrames = {}
  /\ \E result \in evict_fcn(alg, policy) :
       LET f == result.frame
           victim == coremap[f]
           e == WithTable(v)[victim]
           t == [WithTable(v) EXCEPT ![victim] = PagedOut(e)]
       IN /\ ~NoSlotFor(e)
          /\ swapmap' = Marked(e)
          /\ swapfile' = [swapfile EXCEPT ![SlotFor(e)] = physmem[f]]
          /\ Load(v, type, f, t, swapfile')
          /\ policy' = ref_fcn(alg, result.policy, f)
          /\ evict_dirty_count' = IF e.dirty THEN evict_dirty_count + 1 ELSE evict_dirty_count
          /\ evict_clean_count' = IF e.dirty THEN evict_clean_count ELSE evict_clean_count + 1
-----------------------------------------------------------------------------
Exits == status' = "exit1" /\ UNCHANGED <<alg, tableVars, memVars, swapVars, policy, counters>>

(* swap_pageout finds no free slot for the victim: exit(1)                 *)
SwapFull(v) ==
  /\ status = "running"
  /\ ~WithTable(v)[v].valid
  /\ FreeFrames = {}
  /\ \E result \in evict_fcn(alg, policy) : NoSlotFor(WithTable(v)[coremap[result.frame]])
  /\ Exits

(* posix_memalign, or a seek, read or write of the swap file, fails        *)
SystemError(v) ==
  /\ status = "running"
  /\ \/ dir_of[v] \notin pgdir
     \/ ~pgtbl[v].valid /\ (pgtbl[v].onswap \/ FreeFrames = {})
  /\ Exits

(* the end of the trace *)
Done ==
  /\ status = "running"
  /\ status' = "done"
  /\ UNCHANGED <<alg, tableVars, memVars, swapVars, policy, counters>>

Terminated == status # "running" /\ UNCHANGED vars

Access(v, type) == Hit(v, type) \/ MissFree(v, type) \/ MissEvict(v, type)

Next ==
  \/ \E v \in Page : (\E type \in Type : Access(v, type)) \/ SwapFull(v) \/ SystemError(v)
  \/ Done
  \/ Terminated

Spec == Init /\ [][Next]_vars
=============================================================================
