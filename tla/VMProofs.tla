------------------------------ MODULE VMProofs ------------------------------
(***************************************************************************)
(* Proofs about VirtualMemory, for any memory of at most 2 ^ 17 frames,    *)
(* any swap file, any set of pages, any trace and each of the five         *)
(* replacement algorithms.                                                 *)
(***************************************************************************)
EXTENDS VMProperties, ProofLemmas, FiniteSetTheorems

Policy == [head_of_fifo : Frame, lru : Seq(Frame), referenced : SUBSET Frame,
           clockhand : Frame]
-----------------------------------------------------------------------------
(* The inductive invariant                                                 *)

(* A page that is in no second-level table has the entry such a table is   *)
(* made with: WithTable changes nothing.                                   *)
NoTableNoEntry == \A u \in Page : dir_of[u] \notin pgdir => pgtbl[u] = NoEntry

(* What is in a frame in use, or in the slot of a page on swap, is data.   *)
DataInPlace ==
  /\ \A f \in Frame : coremap[f] # Unused => physmem[f] \in Data
  /\ \A v \in Page : pgtbl[v].onswap /\ ~pgtbl[v].valid => swapfile[pgtbl[v].swap_off] \in Data

(* find_physpage sets the on-swap bit of a page as soon as it is loaded.   *)
LoadedOnSwap == \A v \in Page : pgtbl[v].valid => pgtbl[v].onswap

(* lru.c finds a victim when no frame is free: all of them are in its list *)
LruHolds ==
  alg = "lru" => \A f \in Frame : coremap[f] # Unused =>
                   \E i \in 1 .. Len(policy.lru) : policy.lru[i] = f

StateInv ==
  /\ TypeOK
  /\ NoTableNoEntry
  /\ DataInPlace
  /\ LoadedOnSwap
  /\ LruHolds
  /\ PageTableAgrees
  /\ SlotsOwned
  /\ CleanIsSaved

CountInv == IsFiniteSet(InMemory) /\ CountersAgree
-----------------------------------------------------------------------------
(* What the replacement algorithms return                                  *)

LEMMA FrameFacts == 0 \in Frame /\ memsize - 1 \in Frame /\ Frame \subseteq Nat
BY MemsizeAssumption DEF Frame

LEMMA ModFrame ==
  ASSUME NEW k \in Int
  PROVE  k % memsize \in Frame
BY MemsizeAssumption DEF Frame

LEMMA PolicyFields ==
  ASSUME NEW s \in Policy
  PROVE  /\ s.head_of_fifo \in Frame /\ s.lru \in Seq(Frame)
         /\ s.referenced \in SUBSET Frame /\ s.clockhand \in Frame
BY DEF Policy

LEMMA RefType ==
  ASSUME NEW al, NEW s \in Policy, NEW f \in Frame
  PROVE  ref_fcn(al, s, f) \in Policy
  <1>1. RemoveFirst(s.lru, f) \in Seq(Frame)
    <2>1. CASE \E i \in 1 .. Len(s.lru) : s.lru[i] = f
      <3>1. s.lru \in Seq(Frame)
        BY PolicyFields
      <3>2. PICK k \in 1 .. Len(s.lru) : RemoveFirst(s.lru, f) = RemoveAt(s.lru, k)
        BY <2>1, <3>1, RemoveFirstIs
      <3> QED
        BY <3>1, <3>2, RemoveAtIs
    <2>2. CASE ~\E i \in 1 .. Len(s.lru) : s.lru[i] = f
      BY <2>2, PolicyFields DEF RemoveFirst
    <2> QED
      BY <2>1, <2>2
  <1>2. lru_ref(s, f) \in Policy
    <2> DEFINE l == Append(IF f \in s.referenced THEN RemoveFirst(s.lru, f) ELSE s.lru, f)
    <2>1. l \in Seq(Frame) /\ s.referenced \cup {f} \in SUBSET Frame
      BY <1>1, PolicyFields
    <2>2. lru_ref(s, f) = [s EXCEPT !.lru = l, !.referenced = s.referenced \cup {f}]
      BY DEF lru_ref
    <2> HIDE DEF l
    <2> QED
      BY <2>1, <2>2 DEF Policy
  <1>3. clock_ref(s, f) \in Policy
    BY DEF clock_ref, Policy
  <1> QED
    BY <1>2, <1>3 DEF ref_fcn

(* A page that has to go is found by each algorithm.                       *)
LEMMA EvictType ==
  ASSUME alg \in Algorithm, policy \in Policy, LruHolds, FreeFrames = {},
         NEW r \in evict_fcn(alg, policy)
  PROVE  /\ r.frame \in Frame
         /\ r.policy \in Policy
         /\ alg = "lru" => /\ policy.lru # <<>> /\ r.frame = Head(policy.lru)
                           /\ r.policy.lru = Tail(policy.lru)
                           /\ r.policy.referenced = policy.referenced \ {Head(policy.lru)}
         /\ alg = "fifo" => /\ r.frame = policy.head_of_fifo
                            /\ r.policy.head_of_fifo = (policy.head_of_fifo + 1) % memsize
  <1> USE FrameFacts
  <1>1. CASE alg = "rand"
    BY <1>1 DEF evict_fcn, rand_evict
  <1>2. CASE alg = "lru"
    <2> DEFINE l == Tail(policy.lru)
               R == policy.referenced \ {Head(policy.lru)}
    <2>1. coremap[0] # Unused
      BY DEF FreeFrames
    <2>2. policy.lru # <<>>
      BY <1>2, <2>1, PolicyFields DEF LruHolds
    <2>3. r = [frame |-> Head(policy.lru),
               policy |-> [policy EXCEPT !.lru = l, !.referenced = R]]
      BY <1>2 DEF evict_fcn, lru_evict
    <2>4. l \in Seq(Frame) /\ R \in SUBSET Frame /\ Head(policy.lru) \in Frame
      BY <2>2, PolicyFields
    <2> HIDE DEF l, R
    <2>5. /\ [policy EXCEPT !.lru = l, !.referenced = R] \in Policy
          /\ [policy EXCEPT !.lru = l, !.referenced = R].lru = l
          /\ [policy EXCEPT !.lru = l, !.referenced = R].referenced = R
      BY <2>4 DEF Policy
    <2> QED
      BY <1>2, <2>2, <2>3, <2>4, <2>5 DEF l, R
  <1>3. CASE alg = "fifo"
    <2> DEFINE h == (policy.head_of_fifo + 1) % memsize
    <2>1. policy.head_of_fifo \in Frame
      BY PolicyFields
    <2>2. h \in Frame
      <3>0. policy.head_of_fifo \in Nat
        BY <2>1
      <3>1. policy.head_of_fifo + 1 \in Int
        BY <3>0
      <3> QED
        BY <3>1, ModFrame, Zenon
    <2>3. r = [frame |-> policy.head_of_fifo, policy |-> [policy EXCEPT !.head_of_fifo = h]]
      BY <1>3 DEF evict_fcn, fifo_evict
    <2> HIDE DEF h
    <2>4. /\ [policy EXCEPT !.head_of_fifo = h] \in Policy
          /\ [policy EXCEPT !.head_of_fifo = h].head_of_fifo = h
      BY <2>2 DEF Policy
    <2> QED
      BY <1>3, <2>1, <2>3, <2>4 DEF h
  <1>4. CASE alg = "clock"
    <2> DEFINE At(k) == (policy.clockhand + k) % memsize
               Stops == {k \in Frame : At(k) \notin policy.referenced}
               stop == IF Stops = {} THEN memsize ELSE Min(Stops)
               R == (policy.referenced \ {At(k) : k \in 0 .. stop - 1}) \cup {At(stop)}
    <2>1. stop \in Nat
      <3>1. Stops \subseteq Nat
        OBVIOUS
      <3>2. memsize \in Nat
        BY MemsizeAssumption
      <3> HIDE DEF Stops
      <3>3. Stops # {} => Min(Stops) \in Nat
        BY <3>1, MinIs
      <3> QED
        BY <3>2, <3>3
    <2>2. r = [frame |-> At(stop),
               policy |-> [policy EXCEPT !.clockhand = At(stop), !.referenced = R]]
      BY <1>4 DEF evict_fcn, clock_evict
    <2>3. At(stop) \in Frame
      <3>1. policy.clockhand \in Frame
        BY PolicyFields
      <3>2. policy.clockhand \in Nat
        BY <3>1
      <3> HIDE DEF stop
      <3>3. policy.clockhand + stop \in Int
        BY <2>1, <3>2
      <3> QED
        BY <3>3, ModFrame, Zenon
    <2>4. R \in SUBSET Frame
      BY <2>3, PolicyFields
    <2> HIDE DEF At, stop, R
    <2> QED
      BY <1>4, <2>2, <2>3, <2>4 DEF Policy
  <1>5. CASE alg = "opt"
    BY <1>5 DEF evict_fcn, opt_evict
  <1> QED
    BY <1>1, <1>2, <1>3, <1>4, <1>5 DEF Algorithm
-----------------------------------------------------------------------------
(* What each kind of access does to a state of the invariant               *)

LEMMA TableIs ==
  ASSUME StateInv, NEW v \in Page
  PROVE  WithTable(v) = pgtbl
  <1>1. pgtbl = [u \in Page |-> pgtbl[u]]
    BY DEF StateInv, TypeOK
  <1>2. \A u \in Page :
          (IF dir_of[u] = dir_of[v] /\ dir_of[v] \notin pgdir THEN NoEntry ELSE pgtbl[u]) = pgtbl[u]
    BY DEF StateInv, NoTableNoEntry
  <1> QED
    BY <1>1, <1>2 DEF WithTable

LEMMA IncrementsIs ==
  ASSUME NEW d \in Data, NEW type \in Type
  PROVE  /\ Increments(d, type) \in Data
         /\ Increments(d, type).vaddr = d.vaddr
         /\ Increments(d, type).version = IF type = "write" THEN d.version + 1 ELSE d.version
         /\ type # "write" => Increments(d, type) = d
BY DEF Increments, Data, Type

LEMMA ContentIs ==
  ASSUME StateInv, NEW v \in Page, ~pgtbl[v].valid
  PROVE  /\ Content(pgtbl[v], v, swapfile) \in Data
         /\ Content(pgtbl[v], v, swapfile).vaddr = v
  <1>1. [vaddr |-> v, version |-> 0] \in Data
    BY DEF Data
  <1> QED
    BY <1>1 DEF StateInv, Content, SlotsOwned, DataInPlace

LEMMA HitEffect ==
  ASSUME StateInv, NEW v \in Page, NEW type \in Type, Hit(v, type)
  PROVE  LET f == pgtbl[v].frame
         IN /\ pgtbl[v].valid /\ f \in Frame /\ coremap[f] = v
            /\ pgtbl' \in [Page -> Entry]
            /\ \A u \in Page : u # v => pgtbl'[u] = pgtbl[u]
            /\ pgtbl'[v].valid /\ pgtbl'[v].frame = f
            /\ pgtbl'[v].onswap = pgtbl[v].onswap /\ pgtbl'[v].swap_off = pgtbl[v].swap_off
            /\ pgtbl'[v].dirty <=> pgtbl[v].dirty \/ type = "write"
            /\ physmem[f] \in Data
            /\ physmem' = [physmem EXCEPT ![f] = Increments(physmem[f], type)]
            /\ policy' = ref_fcn(alg, policy, f)
            /\ pgdir' = pgdir \cup {dir_of[v]}
            /\ hit_count' = hit_count + 1 /\ ref_count' = ref_count + 1
            /\ UNCHANGED <<alg, coremap, swapVars, miss_count, evictCounts, status>>
  <1> DEFINE f == pgtbl[v].frame
  <1>1. WithTable(v) = pgtbl
    BY TableIs
  <1>2. pgtbl[v].valid
    BY <1>1 DEF Hit
  <1>3. pgtbl[v] \in Entry /\ f \in Frame
    BY DEF StateInv, TypeOK, Entry
  <1>4. coremap[f] = v
    BY <1>2 DEF StateInv, PageTableAgrees
  <1>5. coremap[f] # Unused
    BY <1>4, PageAssumption
  <1>6. physmem[f] \in Data
    BY <1>3, <1>5 DEF StateInv, DataInPlace
  <1>7. pgtbl' = [pgtbl EXCEPT ![v].ref = TRUE, ![v].dirty = @ \/ type = "write"]
    BY <1>1 DEF Hit
  <1>8. pgtbl \in [Page -> Entry]
    BY DEF StateInv, TypeOK
  <1>9. /\ pgtbl' \in [Page -> Entry]
        /\ \A u \in Page : u # v => pgtbl'[u] = pgtbl[u]
        /\ pgtbl'[v].valid /\ pgtbl'[v].frame = f
        /\ pgtbl'[v].onswap = pgtbl[v].onswap /\ pgtbl'[v].swap_off = pgtbl[v].swap_off
        /\ pgtbl'[v].dirty <=> pgtbl[v].dirty \/ type = "write"
    BY <1>2, <1>3, <1>7, <1>8 DEF Entry
  <1>10. /\ physmem' = [physmem EXCEPT ![f] = Increments(physmem[f], type)]
         /\ policy' = ref_fcn(alg, policy, f)
         /\ pgdir' = pgdir \cup {dir_of[v]}
         /\ hit_count' = hit_count + 1 /\ ref_count' = ref_count + 1
         /\ UNCHANGED <<alg, coremap, swapVars, miss_count, evictCounts, status>>
    BY <1>1 DEF Hit, Reference
  <1> QED
    BY <1>2, <1>3, <1>4, <1>6, <1>9, <1>10

(* Page v, whose content is c, is loaded into frame f                      *)
Loaded(v, type, f, c) ==
  /\ coremap' = [coremap EXCEPT ![f] = v]
  /\ physmem' = [physmem EXCEPT ![f] = Increments(c, type)]
  /\ pgtbl' \in [Page -> Entry]
  /\ pgtbl'[v].valid /\ pgtbl'[v].frame = f /\ pgtbl'[v].onswap
  /\ pgtbl'[v].swap_off = pgtbl[v].swap_off
  /\ pgtbl'[v].dirty <=> ~pgtbl[v].onswap \/ type = "write"
  /\ pgdir' = pgdir \cup {dir_of[v]}
  /\ ref_count' = ref_count + 1 /\ miss_count' = miss_count + 1
  /\ UNCHANGED <<hit_count, alg, status>>

LEMMA FilledIs ==
  ASSUME NEW e \in Entry, NEW f \in Frame, NEW type
  PROVE  /\ Filled(e, f, type) \in Entry
         /\ Filled(e, f, type).valid /\ Filled(e, f, type).frame = f /\ Filled(e, f, type).onswap
         /\ Filled(e, f, type).swap_off = e.swap_off
         /\ Filled(e, f, type).dirty <=> ~e.onswap \/ type = "write"
BY DEF Filled, Entry

LEMMA MissFreeEffect ==
  ASSUME StateInv, NEW v \in Page, NEW type \in Type, MissFree(v, type)
  PROVE  LET f == Min(FreeFrames)
         IN /\ f \in Frame /\ coremap[f] = Unused /\ \A g \in FreeFrames : f <= g
            /\ ~pgtbl[v].valid
            /\ Loaded(v, type, f, Content(pgtbl[v], v, swapfile))
            /\ \A u \in Page : u # v => pgtbl'[u] = pgtbl[u]
            /\ policy' = ref_fcn(alg, policy, f)
            /\ UNCHANGED <<swapVars, evictCounts>>
  <1> DEFINE f == Min(FreeFrames)
  <1>1. WithTable(v) = pgtbl
    BY TableIs
  <1>2. FreeFrames \subseteq Nat /\ FreeFrames # {}
    BY FrameFacts DEF FreeFrames, MissFree
  <1>3. f \in FreeFrames /\ \A g \in FreeFrames : f <= g
    BY <1>2, MinIs
  <1>4. f \in Frame /\ coremap[f] = Unused
    BY <1>3 DEF FreeFrames
  <1>5. pgtbl \in [Page -> Entry]
    BY DEF StateInv, TypeOK
  <1> HIDE DEF f
  <1>6. pgtbl' = [pgtbl EXCEPT ![v] = Filled(pgtbl[v], f, type)]
    BY <1>1 DEF MissFree, Load, f
  <1>7. /\ pgtbl' \in [Page -> Entry] /\ pgtbl'[v] = Filled(pgtbl[v], f, type)
        /\ \A u \in Page : u # v => pgtbl'[u] = pgtbl[u]
    BY <1>4, <1>5, <1>6, FilledIs
  <1>8. /\ coremap' = [coremap EXCEPT ![f] = v]
        /\ physmem' = [physmem EXCEPT ![f] = Increments(Content(pgtbl[v], v, swapfile), type)]
        /\ pgdir' = pgdir \cup {dir_of[v]}
        /\ ref_count' = ref_count + 1 /\ miss_count' = miss_count + 1
        /\ UNCHANGED <<hit_count, alg, status>>
    BY <1>1 DEF MissFree, Load, Reference, f
  <1>9. Loaded(v, type, f, Content(pgtbl[v], v, swapfile))
    BY <1>4, <1>5, <1>7, <1>8, FilledIs DEF Loaded
  <1>10. ~pgtbl[v].valid /\ policy' = ref_fcn(alg, policy, f) /\ UNCHANGED <<swapVars, evictCounts>>
    BY <1>1 DEF MissFree, f
  <1> QED
    BY <1>3, <1>4, <1>7, <1>9, <1>10 DEF f

(* The slot of a victim is its own, or was free; no other page has it.     *)
LEMMA SlotIs ==
  ASSUME StateInv, NEW w \in Page, ~NoSlotFor(pgtbl[w])
  PROVE  /\ SlotFor(pgtbl[w]) \in Slot
         /\ \A u \in Page : u # w => pgtbl[u].swap_off # SlotFor(pgtbl[w])
         /\ pgtbl[w].swap_off # INVALID_SWAP => SlotFor(pgtbl[w]) = pgtbl[w].swap_off
  <1>1. Slot \subseteq Nat /\ INVALID_SWAP \notin Slot
    BY SwapsizeAssumption DEF Slot, INVALID_SWAP
  <1>2. CASE pgtbl[w].swap_off = INVALID_SWAP
    <2>1. FreeSlots # {} /\ FreeSlots \subseteq Nat
      BY <1>1, <1>2 DEF NoSlotFor, FreeSlots
    <2>2. Min(FreeSlots) \in Slot /\ Min(FreeSlots) \notin swapmap
      BY <2>1, MinIs DEF FreeSlots
    <2>3. SlotFor(pgtbl[w]) = Min(FreeSlots)
      BY <1>2 DEF SlotFor
    <2>4. \A u \in Page : pgtbl[u].swap_off \in swapmap \cup {INVALID_SWAP}
      BY DEF StateInv, SlotsOwned
    <2> QED
      BY <1>1, <1>2, <2>2, <2>3, <2>4
  <1>3. CASE pgtbl[w].swap_off # INVALID_SWAP
    <2>1. SlotFor(pgtbl[w]) = pgtbl[w].swap_off
      BY <1>3 DEF SlotFor
    <2>2. pgtbl[w] \in Entry
      BY DEF StateInv, TypeOK
    <2>3. pgtbl[w].swap_off \in Slot
      BY <1>3, <2>2 DEF Entry
    <2> QED
      BY <1>3, <2>1, <2>3 DEF StateInv, SlotsOwned
  <1> QED
    BY <1>2, <1>3

LEMMA PagedOutIs ==
  ASSUME NEW e \in Entry, SlotFor(e) \in Slot, e.onswap
  PROVE  /\ PagedOut(e) \in Entry
         /\ ~PagedOut(e).valid /\ PagedOut(e).onswap /\ PagedOut(e).swap_off = SlotFor(e)
  <1>1. PagedOut(e) \in Entry
    BY DEF PagedOut, Entry
  <1>2. ~PagedOut(e).valid /\ PagedOut(e).onswap /\ PagedOut(e).swap_off = SlotFor(e)
    BY DEF PagedOut, Entry
  <1> QED
    BY <1>1, <1>2

(* The page w in frame f makes room for page v                             *)
EvictEffect(v, type, r, f, w, o) ==
  /\ r \in evict_fcn(alg, policy) /\ f = r.frame /\ f \in Frame
  /\ w \in Page /\ coremap[f] = w /\ w # v
  /\ pgtbl[w].valid /\ pgtbl[w].frame = f /\ ~pgtbl[v].valid
  /\ physmem[f] \in Data /\ physmem[f].vaddr = w
  /\ o \in Slot /\ \A u \in Page : u # w => pgtbl[u].swap_off # o
  /\ pgtbl[w].swap_off # INVALID_SWAP => o = pgtbl[w].swap_off
  /\ swapmap' = swapmap \cup {o}
  /\ swapfile' = [swapfile EXCEPT ![o] = physmem[f]]
  /\ Loaded(v, type, f, Content(pgtbl[v], v, swapfile))
  /\ ~pgtbl'[w].valid /\ pgtbl'[w].onswap /\ pgtbl'[w].swap_off = o
  /\ \A u \in Page : u # v /\ u # w => pgtbl'[u] = pgtbl[u]
  /\ r.policy \in Policy
  /\ policy' = ref_fcn(alg, r.policy, f)
  /\ \/ evict_dirty_count' = evict_dirty_count + 1 /\ evict_clean_count' = evict_clean_count
     \/ evict_dirty_count' = evict_dirty_count /\ evict_clean_count' = evict_clean_count + 1

LEMMA MissEvictEffect ==
  ASSUME StateInv, NEW v \in Page, NEW type \in Type, MissEvict(v, type)
  PROVE  \E r, f, w, o : EvictEffect(v, type, r, f, w, o)
  <1>1. WithTable(v) = pgtbl
    BY TableIs
  <1>2. ~pgtbl[v].valid /\ FreeFrames = {} /\ Reference(v)
    BY <1>1 DEF MissEvict
  <1>3. PICK r \in evict_fcn(alg, policy) :
          LET f == r.frame
              victim == coremap[f]
              e == pgtbl[victim]
              t == [pgtbl EXCEPT ![victim] = PagedOut(e)]
          IN /\ ~NoSlotFor(e)
             /\ swapmap' = Marked(e)
             /\ swapfile' = [swapfile EXCEPT ![SlotFor(e)] = physmem[f]]
             /\ Load(v, type, f, t, swapfile')
             /\ policy' = ref_fcn(alg, r.policy, f)
             /\ evict_dirty_count' = IF e.dirty THEN evict_dirty_count + 1 ELSE evict_dirty_count
             /\ evict_clean_count' = IF e.dirty THEN evict_clean_count ELSE evict_clean_count + 1
    BY <1>1 DEF MissEvict
  <1> DEFINE f == r.frame
             w == coremap[f]
             o == SlotFor(pgtbl[w])
  <1>4. alg \in Algorithm /\ policy \in Policy /\ pgtbl \in [Page -> Entry]
    BY DEF StateInv, TypeOK, Policy
  <1>5. f \in Frame /\ r.policy \in Policy
    BY <1>2, <1>4, EvictType DEF StateInv
  <1>6. w \in Page /\ w # Unused
    <2>1. coremap \in [Frame -> Page \cup {Unused}]
      BY DEF StateInv, TypeOK
    <2> QED
      BY <1>2, <1>5, <2>1 DEF FreeFrames
  <1>7. pgtbl[w].valid /\ pgtbl[w].frame = f
    BY <1>5, <1>6 DEF StateInv, PageTableAgrees
  <1>8. w # v
    BY <1>2, <1>7
  <1>9. physmem[f] \in Data /\ physmem[f].vaddr = w
    BY <1>5, <1>6, <1>7 DEF StateInv, DataInPlace, PageTableAgrees
  <1>10. /\ o \in Slot /\ \A u \in Page : u # w => pgtbl[u].swap_off # o
         /\ pgtbl[w].swap_off # INVALID_SWAP => o = pgtbl[w].swap_off
    BY <1>3, <1>6, SlotIs
  <1> HIDE DEF f, w, o
  <1>11. /\ swapmap' = swapmap \cup {o}
         /\ swapfile' = [swapfile EXCEPT ![o] = physmem[f]]
         /\ Load(v, type, f, [pgtbl EXCEPT ![w] = PagedOut(pgtbl[w])], swapfile')
         /\ policy' = ref_fcn(alg, r.policy, f)
         /\ \/ evict_dirty_count' = evict_dirty_count + 1 /\ evict_clean_count' = evict_clean_count
            \/ evict_dirty_count' = evict_dirty_count /\ evict_clean_count' = evict_clean_count + 1
    BY <1>3 DEF f, w, o, Marked
  <1>12. pgtbl[w] \in Entry /\ pgtbl[w].onswap /\ pgtbl[v] \in Entry
    BY <1>4, <1>6, <1>7 DEF StateInv, LoadedOnSwap
  <1>13. /\ PagedOut(pgtbl[w]) \in Entry
         /\ ~PagedOut(pgtbl[w]).valid /\ PagedOut(pgtbl[w]).onswap /\ PagedOut(pgtbl[w]).swap_off = o
    BY <1>10, <1>12, PagedOutIs DEF o
  <1>14. pgtbl' = [[pgtbl EXCEPT ![w] = PagedOut(pgtbl[w])] EXCEPT ![v] = Filled(pgtbl[v], f, type)]
    BY <1>4, <1>6, <1>8, <1>11 DEF Load
  <1>15. /\ pgtbl' \in [Page -> Entry] /\ pgtbl'[v] = Filled(pgtbl[v], f, type)
         /\ pgtbl'[w] = PagedOut(pgtbl[w])
         /\ \A u \in Page : u # v /\ u # w => pgtbl'[u] = pgtbl[u]
    BY <1>4, <1>5, <1>6, <1>8, <1>12, <1>13, <1>14, FilledIs
  <1>16. Content(pgtbl[v], v, swapfile') = Content(pgtbl[v], v, swapfile)
    <2>1. pgtbl[v].swap_off # o
      BY <1>8, <1>10
    <2>2. pgtbl[v].onswap => pgtbl[v].swap_off \in Slot
      BY <1>2, <1>12 DEF StateInv, SlotsOwned, Entry
    <2>3. swapfile \in [Slot -> Data \cup {Unused}]
      BY DEF StateInv, TypeOK
    <2> QED
      BY <1>11, <2>1, <2>2, <2>3 DEF Content
  <1>17. [pgtbl EXCEPT ![w] = PagedOut(pgtbl[w])][v] = pgtbl[v]
    BY <1>4, <1>8
  <1>18. /\ coremap' = [coremap EXCEPT ![f] = v]
         /\ physmem' = [physmem EXCEPT ![f] = Increments(Content(pgtbl[v], v, swapfile), type)]
         /\ miss_count' = miss_count + 1 /\ UNCHANGED hit_count
    BY <1>11, <1>16, <1>17 DEF Load
  <1>19. Loaded(v, type, f, Content(pgtbl[v], v, swapfile))
    BY <1>2, <1>5, <1>12, <1>15, <1>18, FilledIs DEF Loaded, Reference
  <1>20. EvictEffect(v, type, r, f, w, o)
    BY <1>2, <1>3, <1>5, <1>6, <1>7, <1>8, <1>9, <1>10, <1>11, <1>13, <1>15, <1>19
       DEF EvictEffect, f, w
  <1> QED
    BY <1>20
-----------------------------------------------------------------------------
(* The invariant is inductive                                              *)

LEMMA InitInv == Init => StateInv
  <1> SUFFICES ASSUME Init PROVE StateInv
    OBVIOUS
  <1> USE FrameFacts
  <1>1. NoEntry \in Entry
    BY DEF NoEntry, Entry
  <1>2. policy0 \in Policy
    BY DEF policy0, Policy
  <1>3. TypeOK
    <2>1. pgtbl \in [Page -> Entry] /\ policy \in Policy
      BY <1>1, <1>2 DEF Init
    <2>2. {hit_count, miss_count, ref_count, evict_clean_count, evict_dirty_count} \subseteq Nat
      BY DEF Init
    <2> QED
      BY <2>1, <2>2 DEF Init, TypeOK, Policy
  <1>4. \A v \in Page : pgtbl[v] = NoEntry
    BY DEF Init
  <1>5. \A f \in Frame : coremap[f] = Unused
    BY DEF Init
  <1>6. NoTableNoEntry
    BY <1>4 DEF NoTableNoEntry
  <1>7. DataInPlace /\ LoadedOnSwap /\ CleanIsSaved /\ PageTableAgrees
    <2>1. \A v \in Page : ~pgtbl[v].valid /\ ~pgtbl[v].onswap
      BY <1>4 DEF NoEntry
    <2> QED
      BY <1>5, <2>1 DEF DataInPlace, LoadedOnSwap, CleanIsSaved, PageTableAgrees
  <1>8. LruHolds
    BY <1>5 DEF LruHolds
  <1>9. SlotsOwned
    <2>1. swapmap = {}
      BY DEF Init
    <2>2. {pgtbl[v].swap_off : v \in Page} \subseteq {INVALID_SWAP}
      BY <1>4 DEF NoEntry
    <2> QED
      BY <1>4, <2>1, <2>2 DEF SlotsOwned, NoEntry
  <1> QED
    BY <1>3, <1>6, <1>7, <1>8, <1>9 DEF StateInv

(* ref_fcn keeps a frame in the list of lru.c, and adds its own.           *)
LEMMA RefHolds ==
  ASSUME NEW s \in Policy, NEW f \in Frame, NEW g \in Frame,
         g = f \/ \E i \in 1 .. Len(s.lru) : s.lru[i] = g
  PROVE  \E i \in 1 .. Len(ref_fcn("lru", s, f).lru) : ref_fcn("lru", s, f).lru[i] = g
  <1> DEFINE l == IF f \in s.referenced THEN RemoveFirst(s.lru, f) ELSE s.lru
  <1>1. ref_fcn("lru", s, f).lru = Append(l, f)
    BY DEF ref_fcn, lru_ref, Policy
  <1>2. s.lru \in Seq(Frame)
    BY PolicyFields
  <1>3. l \in Seq(Frame) /\ (g # f => \E i \in 1 .. Len(l) : l[i] = g)
    <2>1. CASE f \in s.referenced /\ \E i \in 1 .. Len(s.lru) : s.lru[i] = f
      <3>1. PICK k \in 1 .. Len(s.lru) : s.lru[k] = f /\ l = RemoveAt(s.lru, k)
        BY <1>2, <2>1, RemoveFirstIs
      <3>2. /\ l \in Seq(Frame) /\ Len(l) = Len(s.lru) - 1
            /\ \A i \in 1 .. Len(s.lru) - 1 : l[i] = IF i < k THEN s.lru[i] ELSE s.lru[i + 1]
        <4> DEFINE q == s.lru
        <4>1. q \in Seq(Frame) /\ k \in 1 .. Len(q) /\ l = RemoveAt(q, k)
          BY <1>2, <3>1
        <4> HIDE DEF q, l
        <4>2. /\ l \in Seq(Frame) /\ Len(l) = Len(q) - 1
              /\ \A i \in 1 .. Len(q) - 1 : l[i] = IF i < k THEN q[i] ELSE q[i + 1]
          BY ONLY <4>1, RemoveAtIs
        <4> QED
          BY <4>2 DEF q
      <3> HIDE DEF l
      <3>3. ASSUME g # f PROVE \E i \in 1 .. Len(l) : l[i] = g
        <4>1. PICK i \in 1 .. Len(s.lru) : s.lru[i] = g
          BY <3>3
        <4>2. i # k
          BY <3>1, <3>3, <4>1
        <4>3. CASE i < k
          BY <1>2, <3>2, <4>1, <4>3
        <4>4. CASE i > k
          <5>1. i - 1 \in 1 .. Len(l) /\ ~(i - 1 < k) /\ (i - 1) + 1 = i
            BY <1>2, <3>2, <4>4
          <5>2. l[i - 1] = g
            BY <3>2, <4>1, <5>1
          <5> QED
            BY <5>1, <5>2
        <4> QED
          BY <4>2, <4>3, <4>4
      <3> QED
        BY <3>2, <3>3
    <2>2. CASE ~(f \in s.referenced /\ \E i \in 1 .. Len(s.lru) : s.lru[i] = f)
      <3>1. l = s.lru
        BY <2>2 DEF RemoveFirst
      <3> HIDE DEF l
      <3> QED
        BY <1>2, <3>1
    <2> QED
      BY <2>1, <2>2
  <1> HIDE DEF l
  <1>4. /\ Len(Append(l, f)) = Len(l) + 1 /\ Append(l, f)[Len(l) + 1] = f
        /\ \A i \in 1 .. Len(l) : Append(l, f)[i] = l[i]
    BY <1>3
  <1>5. CASE g = f
    <2>1. Len(l) + 1 \in 1 .. Len(Append(l, f))
      BY <1>3, <1>4
    <2> QED
      BY <1>1, <1>4, <1>5, <2>1
  <1>6. CASE g # f
    <2>1. PICK i \in 1 .. Len(l) : l[i] = g
      BY <1>3, <1>6
    <2>2. i \in 1 .. Len(Append(l, f)) /\ Append(l, f)[i] = g
      BY <1>3, <1>4, <2>1
    <2> QED
      BY <1>1, <2>2
  <1> QED
    BY <1>5, <1>6

LEMMA HitInv ==
  ASSUME StateInv, NEW v \in Page, NEW type \in Type, Hit(v, type)
  PROVE  StateInv'
  <1> DEFINE f == pgtbl[v].frame
  <1>1. /\ pgtbl[v].valid /\ f \in Frame /\ coremap[f] = v
        /\ pgtbl' \in [Page -> Entry]
        /\ \A u \in Page : u # v => pgtbl'[u] = pgtbl[u]
        /\ pgtbl'[v].valid /\ pgtbl'[v].frame = f
        /\ pgtbl'[v].onswap = pgtbl[v].onswap /\ pgtbl'[v].swap_off = pgtbl[v].swap_off
        /\ pgtbl'[v].dirty <=> pgtbl[v].dirty \/ type = "write"
        /\ physmem[f] \in Data
        /\ physmem' = [physmem EXCEPT ![f] = Increments(physmem[f], type)]
        /\ policy' = ref_fcn(alg, policy, f)
        /\ pgdir' = pgdir \cup {dir_of[v]}
        /\ hit_count' = hit_count + 1 /\ ref_count' = ref_count + 1
        /\ UNCHANGED <<alg, coremap, swapVars, miss_count, evictCounts, status>>
    BY HitEffect
  <1> HIDE DEF f
  <1> DEFINE d == Increments(physmem[f], type)
  <1>2. d \in Data /\ d.vaddr = physmem[f].vaddr /\ (type # "write" => d = physmem[f])
    BY <1>1, IncrementsIs
  <1> HIDE DEF d
  <1>3. /\ physmem' \in [Frame -> Data \cup {Unused}] /\ physmem'[f] = d
        /\ \A g \in Frame : g # f => physmem'[g] = physmem[g]
    BY <1>1, <1>2 DEF StateInv, TypeOK, d
  <1>4. f = pgtbl[v].frame
    BY DEF f
  <1>5. UNCHANGED <<swapmap, swapfile>>
    BY <1>1 DEF swapVars
  <1>6. TypeOK'
    <2>1. policy' \in Policy
      BY <1>1, RefType DEF StateInv, TypeOK, Policy
    <2>2. {hit_count, miss_count, ref_count, evict_clean_count, evict_dirty_count}' \subseteq Nat
      BY <1>1 DEF StateInv, TypeOK, evictCounts
    <2>3. pgdir' \subseteq {dir_of[u] : u \in Page}
      BY <1>1 DEF StateInv, TypeOK
    <2> QED
      BY <1>1, <1>3, <1>5, <2>1, <2>2, <2>3 DEF StateInv, TypeOK, Policy
  <1>7. NoTableNoEntry'
    BY <1>1 DEF StateInv, NoTableNoEntry
  <1>8. DataInPlace'
    BY <1>1, <1>2, <1>3, <1>5 DEF StateInv, DataInPlace
  <1>9. LoadedOnSwap'
    BY <1>1 DEF StateInv, LoadedOnSwap
  <1>10. PageTableAgrees'
    <2>1. ASSUME NEW u \in Page, pgtbl'[u].valid
          PROVE  coremap'[pgtbl'[u].frame] = u /\ physmem'[pgtbl'[u].frame].vaddr = u
      <3>1. CASE u = v
        BY <1>1, <1>2, <1>3, <1>4, <3>1 DEF StateInv, PageTableAgrees
      <3>2. CASE u # v
        <4>1. pgtbl[u].valid /\ pgtbl'[u] = pgtbl[u] /\ pgtbl[u].frame \in Frame
          BY <1>1, <2>1, <3>2 DEF StateInv, TypeOK, Entry
        <4>2. coremap[pgtbl[u].frame] = u /\ physmem[pgtbl[u].frame].vaddr = u
          BY <4>1 DEF StateInv, PageTableAgrees
        <4>3. pgtbl[u].frame # f
          BY <1>1, <3>2, <4>2
        <4> QED
          BY <1>1, <1>3, <4>1, <4>2, <4>3
      <3> QED
        BY <3>1, <3>2
    <2>2. ASSUME NEW g \in Frame, coremap'[g] # Unused
          PROVE  pgtbl'[coremap'[g]].valid /\ pgtbl'[coremap'[g]].frame = g
      <3>1. coremap[g] \in Page
        BY <1>1, <2>2 DEF StateInv, TypeOK
      <3>2. pgtbl[coremap[g]].valid /\ pgtbl[coremap[g]].frame = g
        BY <1>1, <2>2 DEF StateInv, PageTableAgrees
      <3>3. CASE coremap[g] = v
        BY <1>1, <1>4, <3>2, <3>3
      <3>4. CASE coremap[g] # v
        BY <1>1, <3>1, <3>2, <3>4
      <3> QED
        BY <3>3, <3>4
    <2> QED
      BY <2>1, <2>2 DEF PageTableAgrees
  <1>11. SlotsOwned'
    <2>1. \A u \in Page : pgtbl'[u].swap_off = pgtbl[u].swap_off
      BY <1>1
    <2>2. {pgtbl'[u].swap_off : u \in Page} = {pgtbl[u].swap_off : u \in Page}
      BY <2>1
    <2> QED
      BY <1>1, <1>5, <2>1, <2>2 DEF StateInv, SlotsOwned
  <1>12. CleanIsSaved'
    <2>1. ASSUME NEW u \in Page, u # v, pgtbl[u].valid PROVE pgtbl[u].frame # f
      BY <1>1, <2>1 DEF StateInv, PageTableAgrees
    <2>2. ASSUME NEW u \in Page, pgtbl[u].valid PROVE pgtbl[u].frame \in Frame
      BY DEF StateInv, TypeOK, Entry
    <2> QED
      BY <1>1, <1>2, <1>3, <1>4, <1>5, <2>1, <2>2 DEF StateInv, CleanIsSaved
  <1>13. LruHolds'
    <2> SUFFICES ASSUME alg = "lru", NEW g \in Frame, coremap[g] # Unused
                 PROVE  \E i \in 1 .. Len(policy'.lru) : policy'.lru[i] = g
      BY <1>1 DEF LruHolds
    <2>1. \E i \in 1 .. Len(policy.lru) : policy.lru[i] = g
      BY DEF StateInv, LruHolds
    <2>2. policy \in Policy
      BY DEF StateInv, TypeOK, Policy
    <2> QED
      BY <1>1, <2>1, <2>2, RefHolds
  <1> QED
    BY <1>6, <1>7, <1>8, <1>9, <1>10, <1>11, <1>12, <1>13 DEF StateInv

(* Page v is loaded into frame f, and only the page that was there, if     *)
(* any, leaves memory.                                                     *)
Placed(v, type, f) ==
  /\ f \in Frame /\ ~pgtbl[v].valid
  /\ Loaded(v, type, f, Content(pgtbl[v], v, swapfile))
  /\ \A u \in Page : u # v /\ pgtbl'[u].valid => pgtbl[u].frame # f
  /\ \A u \in Page :
       u # v /\ (pgtbl'[u].valid \/ ~pgtbl[u].valid \/ pgtbl[u].frame # f) => pgtbl'[u] = pgtbl[u]

LEMMA PlacedFrames ==
  ASSUME StateInv, NEW v \in Page, NEW type \in Type, NEW f \in Frame, Placed(v, type, f)
  PROVE  /\ coremap' \in [Frame -> Page \cup {Unused}] /\ coremap'[f] = v
         /\ physmem' \in [Frame -> Data \cup {Unused}] /\ physmem'[f] \in Data
         /\ physmem'[f] = Increments(Content(pgtbl[v], v, swapfile), type)
         /\ physmem'[f].vaddr = v
         /\ \A g \in Frame : g # f => coremap'[g] = coremap[g] /\ physmem'[g] = physmem[g]
  <1> DEFINE d == Increments(Content(pgtbl[v], v, swapfile), type)
  <1>1. d \in Data /\ d.vaddr = v
    BY ContentIs, IncrementsIs DEF Placed
  <1> HIDE DEF d
  <1>2. coremap' = [coremap EXCEPT ![f] = v] /\ physmem' = [physmem EXCEPT ![f] = d]
    BY DEF Placed, Loaded, d
  <1>3. coremap \in [Frame -> Page \cup {Unused}] /\ physmem \in [Frame -> Data \cup {Unused}]
    BY DEF StateInv, TypeOK
  <1>4. physmem'[f] = d /\ coremap'[f] = v
    BY <1>2, <1>3
  <1>5. \A g \in Frame : g # f => coremap'[g] = coremap[g] /\ physmem'[g] = physmem[g]
    BY <1>2, <1>3
  <1>6. coremap' \in [Frame -> Page \cup {Unused}] /\ physmem' \in [Frame -> Data \cup {Unused}]
    BY <1>1, <1>2, <1>3
  <1> QED
    BY <1>1, <1>4, <1>5, <1>6 DEF d

LEMMA PlacedInv ==
  ASSUME StateInv, NEW v \in Page, NEW type \in Type, NEW f \in Frame, Placed(v, type, f)
  PROVE  /\ NoTableNoEntry'
         /\ LoadedOnSwap'
         /\ PageTableAgrees'
         /\ \A g \in Frame : coremap'[g] # Unused => physmem'[g] \in Data
  <1>1. /\ coremap'[f] = v /\ physmem'[f] \in Data /\ physmem'[f].vaddr = v
        /\ \A g \in Frame : g # f => coremap'[g] = coremap[g] /\ physmem'[g] = physmem[g]
    BY PlacedFrames
  <1>2. /\ ~pgtbl[v].valid /\ pgtbl'[v].valid /\ pgtbl'[v].frame = f /\ pgtbl'[v].onswap
        /\ pgdir' = pgdir \cup {dir_of[v]}
    BY DEF Placed, Loaded
  <1>3. /\ \A u \in Page : u # v /\ pgtbl'[u].valid => pgtbl[u].frame # f /\ pgtbl'[u] = pgtbl[u]
        /\ \A u \in Page : u # v /\ ~pgtbl[u].valid => pgtbl'[u] = pgtbl[u]
        /\ \A u \in Page : u # v /\ pgtbl[u].frame # f => pgtbl'[u] = pgtbl[u]
    BY DEF Placed
  <1>4. \A u \in Page : pgtbl[u].frame \in Frame
    BY DEF StateInv, TypeOK, Entry
  <1>5. NoTableNoEntry'
    <2> SUFFICES ASSUME NEW u \in Page, dir_of[u] \notin pgdir' PROVE pgtbl'[u] = NoEntry
      BY DEF NoTableNoEntry
    <2>1. u # v /\ dir_of[u] \notin pgdir
      BY <1>2
    <2>2. pgtbl[u] = NoEntry
      BY <2>1 DEF StateInv, NoTableNoEntry
    <2>3. ~pgtbl[u].valid
      BY <2>2 DEF NoEntry
    <2> QED
      BY <1>3, <2>1, <2>2, <2>3
  <1>6. LoadedOnSwap'
    BY <1>2, <1>3 DEF StateInv, LoadedOnSwap
  <1>7. PageTableAgrees'
    <2>1. ASSUME NEW u \in Page, pgtbl'[u].valid
          PROVE  coremap'[pgtbl'[u].frame] = u /\ physmem'[pgtbl'[u].frame].vaddr = u
      <3>1. CASE u = v
        BY <1>1, <1>2, <3>1
      <3>2. CASE u # v
        <4>1. pgtbl'[u] = pgtbl[u] /\ pgtbl[u].frame # f
          BY <1>3, <2>1, <3>2
        <4>2. coremap[pgtbl[u].frame] = u /\ physmem[pgtbl[u].frame].vaddr = u
          BY <2>1, <4>1 DEF StateInv, PageTableAgrees
        <4> QED
          BY <1>1, <1>4, <4>1, <4>2
      <3> QED
        BY <3>1, <3>2
    <2>2. ASSUME NEW g \in Frame, coremap'[g] # Unused
          PROVE  pgtbl'[coremap'[g]].valid /\ pgtbl'[coremap'[g]].frame = g
      <3>1. CASE g = f
        BY <1>1, <1>2, <3>1
      <3>2. CASE g # f
        <4>1. coremap'[g] = coremap[g] /\ coremap[g] \in Page
          BY <1>1, <2>2, <3>2 DEF StateInv, TypeOK
        <4>2. pgtbl[coremap[g]].valid /\ pgtbl[coremap[g]].frame = g
          BY <2>2, <4>1 DEF StateInv, PageTableAgrees
        <4>3. coremap[g] # v
          BY <1>2, <4>2
        <4> QED
          BY <1>3, <3>2, <4>1, <4>2, <4>3
      <3> QED
        BY <3>1, <3>2
    <2> QED
      BY <2>1, <2>2 DEF PageTableAgrees
  <1>8. ASSUME NEW g \in Frame, coremap'[g] # Unused PROVE physmem'[g] \in Data
    BY <1>1, <1>8 DEF StateInv, DataInPlace
  <1> QED
    BY <1>5, <1>6, <1>7, <1>8

LEMMA MissFreeInv ==
  ASSUME StateInv, NEW v \in Page, NEW type \in Type, MissFree(v, type)
  PROVE  StateInv'
  <1>1. PICK f \in Frame :
          /\ coremap[f] = Unused /\ ~pgtbl[v].valid
          /\ Loaded(v, type, f, Content(pgtbl[v], v, swapfile))
          /\ \A u \in Page : u # v => pgtbl'[u] = pgtbl[u]
          /\ policy' = ref_fcn(alg, policy, f)
          /\ UNCHANGED <<swapVars, evictCounts>>
    BY MissFreeEffect
  <1>2. ASSUME NEW u \in Page, pgtbl[u].valid PROVE pgtbl[u].frame # f
    BY <1>1, <1>2, PageAssumption DEF StateInv, PageTableAgrees
  <1>3. Placed(v, type, f)
    BY <1>1, <1>2 DEF Placed
  <1>4. UNCHANGED <<swapmap, swapfile>> /\ UNCHANGED evictCounts
    BY <1>1 DEF swapVars
  <1>5. /\ pgtbl' \in [Page -> Entry]
        /\ pgtbl'[v].valid /\ pgtbl'[v].frame = f /\ pgtbl'[v].onswap
        /\ pgtbl'[v].swap_off = pgtbl[v].swap_off
        /\ pgtbl'[v].dirty <=> ~pgtbl[v].onswap \/ type = "write"
        /\ pgdir' = pgdir \cup {dir_of[v]}
        /\ ref_count' = ref_count + 1 /\ miss_count' = miss_count + 1
        /\ UNCHANGED <<hit_count, alg, status>>
    BY <1>1 DEF Loaded
  <1>6. /\ coremap' \in [Frame -> Page \cup {Unused}] /\ coremap'[f] = v
        /\ physmem' \in [Frame -> Data \cup {Unused}]
        /\ physmem'[f] = Increments(Content(pgtbl[v], v, swapfile), type)
        /\ \A g \in Frame : g # f => coremap'[g] = coremap[g] /\ physmem'[g] = physmem[g]
    BY <1>3, PlacedFrames
  <1>7. TypeOK'
    <2>1. policy' \in Policy
      BY <1>1, RefType DEF StateInv, TypeOK, Policy
    <2>2. {hit_count, miss_count, ref_count, evict_clean_count, evict_dirty_count}' \subseteq Nat
      BY <1>4, <1>5 DEF StateInv, TypeOK, evictCounts
    <2>3. pgdir' \subseteq {dir_of[u] : u \in Page}
      BY <1>5 DEF StateInv, TypeOK
    <2> QED
      BY <1>4, <1>5, <1>6, <2>1, <2>2, <2>3 DEF StateInv, TypeOK, Policy
  <1>8. NoTableNoEntry' /\ LoadedOnSwap' /\ PageTableAgrees'
    BY <1>3, PlacedInv
  <1>9. DataInPlace'
    <2>1. \A g \in Frame : coremap'[g] # Unused => physmem'[g] \in Data
      BY <1>3, PlacedInv
    <2> QED
      BY <1>1, <1>4, <1>5, <2>1 DEF StateInv, DataInPlace
  <1>10. SlotsOwned'
    <2>1. \A u \in Page : pgtbl'[u].swap_off = pgtbl[u].swap_off
      BY <1>1, <1>5
    <2>2. {pgtbl'[u].swap_off : u \in Page} = {pgtbl[u].swap_off : u \in Page}
      BY <2>1
    <2> QED
      BY <1>1, <1>4, <1>5, <2>1, <2>2 DEF StateInv, SlotsOwned
  <1>11. CleanIsSaved'
    <2> SUFFICES ASSUME NEW u \in Page, pgtbl'[u].valid, ~pgtbl'[u].dirty
                 PROVE  /\ pgtbl'[u].swap_off # INVALID_SWAP
                        /\ swapfile'[pgtbl'[u].swap_off] = physmem'[pgtbl'[u].frame]
      BY DEF CleanIsSaved
    <2>1. CASE u = v
      <3>1. pgtbl[v].onswap /\ type # "write"
        BY <1>5, <2>1
      <3>2. Content(pgtbl[v], v, swapfile) = swapfile[pgtbl[v].swap_off]
        BY <3>1 DEF Content
      <3>3. physmem'[f] = swapfile[pgtbl[v].swap_off]
        BY <1>1, <1>6, <3>1, <3>2, ContentIs, IncrementsIs
      <3> QED
        BY <1>1, <1>4, <1>5, <2>1, <3>1, <3>3 DEF StateInv, SlotsOwned
    <2>2. CASE u # v
      <3>1. pgtbl'[u] = pgtbl[u] /\ pgtbl[u].frame # f /\ pgtbl[u].frame \in Frame
        BY <1>1, <1>2, <2>2 DEF StateInv, TypeOK, Entry
      <3> QED
        BY <1>4, <1>6, <3>1 DEF StateInv, CleanIsSaved
    <2> QED
      BY <2>1, <2>2
  <1>12. LruHolds'
    <2> SUFFICES ASSUME alg = "lru", NEW g \in Frame, coremap'[g] # Unused
                 PROVE  \E i \in 1 .. Len(policy'.lru) : policy'.lru[i] = g
      BY <1>5 DEF LruHolds
    <2>1. g = f \/ \E i \in 1 .. Len(policy.lru) : policy.lru[i] = g
      BY <1>6 DEF StateInv, LruHolds
    <2>2. policy \in Policy
      BY DEF StateInv, TypeOK, Policy
    <2> QED
      BY <1>1, <2>1, <2>2, RefHolds
  <1> QED
    BY <1>7, <1>8, <1>9, <1>10, <1>11, <1>12 DEF StateInv

LEMMA MissEvictInv ==
  ASSUME StateInv, NEW v \in Page, NEW type \in Type, MissEvict(v, type)
  PROVE  StateInv'
  <1>1. PICK r, f, w, o : EvictEffect(v, type, r, f, w, o)
    BY MissEvictEffect
  <1>2. /\ r \in evict_fcn(alg, policy) /\ f = r.frame /\ f \in Frame
        /\ w \in Page /\ coremap[f] = w /\ w # v
        /\ pgtbl[w].valid /\ pgtbl[w].frame = f /\ ~pgtbl[v].valid
        /\ physmem[f] \in Data /\ physmem[f].vaddr = w
        /\ o \in Slot /\ \A u \in Page : u # w => pgtbl[u].swap_off # o
        /\ pgtbl[w].swap_off # INVALID_SWAP => o = pgtbl[w].swap_off
    BY <1>1 DEF EvictEffect
  <1>3. /\ swapmap' = swapmap \cup {o}
        /\ swapfile' = [swapfile EXCEPT ![o] = physmem[f]]
        /\ Loaded(v, type, f, Content(pgtbl[v], v, swapfile))
        /\ ~pgtbl'[w].valid /\ pgtbl'[w].onswap /\ pgtbl'[w].swap_off = o
        /\ \A u \in Page : u # v /\ u # w => pgtbl'[u] = pgtbl[u]
        /\ r.policy \in Policy
        /\ policy' = ref_fcn(alg, r.policy, f)
        /\ \/ evict_dirty_count' = evict_dirty_count + 1 /\ evict_clean_count' = evict_clean_count
           \/ evict_dirty_count' = evict_dirty_count /\ evict_clean_count' = evict_clean_count + 1
    BY <1>1 DEF EvictEffect
  <1>4. ASSUME NEW u \in Page, u # w, pgtbl[u].valid PROVE pgtbl[u].frame # f
    BY <1>2, <1>4 DEF StateInv, PageTableAgrees
  <1>5. Placed(v, type, f)
    BY <1>2, <1>3, <1>4 DEF Placed
  <1>6. /\ pgtbl' \in [Page -> Entry]
        /\ pgtbl'[v].valid /\ pgtbl'[v].frame = f /\ pgtbl'[v].onswap
        /\ pgtbl'[v].swap_off = pgtbl[v].swap_off
        /\ pgtbl'[v].dirty <=> ~pgtbl[v].onswap \/ type = "write"
        /\ pgdir' = pgdir \cup {dir_of[v]}
        /\ ref_count' = ref_count + 1 /\ miss_count' = miss_count + 1
        /\ UNCHANGED <<hit_count, alg, status>>
    BY <1>3 DEF Loaded
  <1>7. /\ coremap' \in [Frame -> Page \cup {Unused}] /\ coremap'[f] = v
        /\ physmem' \in [Frame -> Data \cup {Unused}]
        /\ physmem'[f] = Increments(Content(pgtbl[v], v, swapfile), type)
        /\ \A g \in Frame : g # f => coremap'[g] = coremap[g] /\ physmem'[g] = physmem[g]
    BY <1>2, <1>5, PlacedFrames
  <1>8. /\ swapfile' \in [Slot -> Data \cup {Unused}] /\ swapfile'[o] = physmem[f]
        /\ \A k \in Slot : k # o => swapfile'[k] = swapfile[k]
    BY <1>2, <1>3 DEF StateInv, TypeOK
  <1>9. INVALID_SWAP \notin Slot /\ \A u \in Page : pgtbl[u].swap_off \in Slot \cup {INVALID_SWAP}
    <2>1. INVALID_SWAP \notin Slot
      BY SwapsizeAssumption DEF INVALID_SWAP, Slot
    <2> QED
      BY <2>1 DEF StateInv, TypeOK, Entry
  <1>10. TypeOK'
    <2>1. policy' \in Policy
      BY <1>2, <1>3, RefType
    <2>2. {hit_count, miss_count, ref_count, evict_clean_count, evict_dirty_count}' \subseteq Nat
      BY <1>3, <1>6 DEF StateInv, TypeOK
    <2>3. pgdir' \subseteq {dir_of[u] : u \in Page}
      BY <1>6 DEF StateInv, TypeOK
    <2>4. swapmap' \subseteq Slot
      BY <1>2, <1>3 DEF StateInv, TypeOK
    <2> QED
      BY <1>6, <1>7, <1>8, <2>1, <2>2, <2>3, <2>4 DEF StateInv, TypeOK, Policy
  <1>11. NoTableNoEntry' /\ LoadedOnSwap' /\ PageTableAgrees'
    BY <1>2, <1>5, PlacedInv
  <1>12. DataInPlace'
    <2>1. \A g \in Frame : coremap'[g] # Unused => physmem'[g] \in Data
      BY <1>2, <1>5, PlacedInv
    <2>2. ASSUME NEW u \in Page, pgtbl'[u].onswap, ~pgtbl'[u].valid
          PROVE  swapfile'[pgtbl'[u].swap_off] \in Data
      <3>1. CASE u = w
        BY <1>2, <1>3, <1>8, <3>1
      <3>2. CASE u # w
        <4>1. u # v /\ pgtbl'[u] = pgtbl[u]
          BY <1>3, <1>6, <2>2, <3>2
        <4>2. swapfile[pgtbl[u].swap_off] \in Data /\ pgtbl[u].swap_off \in Slot
          BY <1>9, <2>2, <4>1 DEF StateInv, DataInPlace, SlotsOwned
        <4> QED
          BY <1>2, <1>8, <3>2, <4>1, <4>2
      <3> QED
        BY <3>1, <3>2
    <2> QED
      BY <2>1, <2>2 DEF DataInPlace
  <1>13. SlotsOwned'
    <2>1. \A u \in Page : u # w => pgtbl'[u].swap_off = pgtbl[u].swap_off
      BY <1>2, <1>3, <1>6
    <2>2. swapmap' = {pgtbl'[u].swap_off : u \in Page} \ {INVALID_SWAP}
      <3>1. swapmap = {pgtbl[u].swap_off : u \in Page} \ {INVALID_SWAP}
        BY DEF StateInv, SlotsOwned
      <3>2. ASSUME NEW k \in swapmap'
            PROVE  k \in {pgtbl'[u].swap_off : u \in Page} \ {INVALID_SWAP}
        <4>1. CASE k = o
          BY <1>2, <1>3, <1>9, <4>1
        <4>2. CASE k # o
          <5>1. PICK u \in Page : k = pgtbl[u].swap_off /\ k # INVALID_SWAP
            BY <1>3, <3>1, <3>2, <4>2
          <5>2. u # w
            BY <1>2, <4>2, <5>1
          <5> QED
            BY <2>1, <5>1, <5>2
        <4> QED
          BY <4>1, <4>2
      <3>3. ASSUME NEW u \in Page, pgtbl'[u].swap_off # INVALID_SWAP
            PROVE  pgtbl'[u].swap_off \in swapmap'
        BY <1>3, <2>1, <3>1, <3>3
      <3> QED
        BY <3>2, <3>3
    <2>3. ASSUME NEW u \in Page, NEW x \in Page, u # x, pgtbl'[u].swap_off = pgtbl'[x].swap_off
          PROVE  pgtbl'[u].swap_off = INVALID_SWAP
      <3>1. u # w /\ x # w
        BY <1>2, <1>3, <2>1, <2>3
      <3> QED
        BY <2>1, <2>3, <3>1 DEF StateInv, SlotsOwned
    <2>4. ASSUME NEW u \in Page, pgtbl'[u].onswap, ~pgtbl'[u].valid
          PROVE  pgtbl'[u].swap_off # INVALID_SWAP /\ swapfile'[pgtbl'[u].swap_off].vaddr = u
      <3>1. CASE u = w
        BY <1>2, <1>3, <1>8, <1>9, <3>1
      <3>2. CASE u # w
        <4>1. u # v /\ pgtbl'[u] = pgtbl[u]
          BY <1>3, <1>6, <2>4, <3>2
        <4>2. pgtbl[u].swap_off # INVALID_SWAP /\ swapfile[pgtbl[u].swap_off].vaddr = u
          BY <2>4, <4>1 DEF StateInv, SlotsOwned
        <4> QED
          BY <1>2, <1>8, <1>9, <3>2, <4>1, <4>2
      <3> QED
        BY <3>1, <3>2
    <2> QED
      BY <2>2, <2>3, <2>4 DEF SlotsOwned
  <1>14. CleanIsSaved'
    <2> SUFFICES ASSUME NEW u \in Page, pgtbl'[u].valid, ~pgtbl'[u].dirty
                 PROVE  /\ pgtbl'[u].swap_off # INVALID_SWAP
                        /\ swapfile'[pgtbl'[u].swap_off] = physmem'[pgtbl'[u].frame]
      BY DEF CleanIsSaved
    <2>1. CASE u = v
      <3>1. pgtbl[v].onswap /\ type # "write"
        BY <1>6, <2>1
      <3>2. Content(pgtbl[v], v, swapfile) = swapfile[pgtbl[v].swap_off]
        BY <3>1 DEF Content
      <3>3. physmem'[f] = swapfile[pgtbl[v].swap_off]
        BY <1>2, <1>7, <3>1, <3>2, ContentIs, IncrementsIs
      <3>4. pgtbl[v].swap_off # INVALID_SWAP /\ pgtbl[v].swap_off # o
        BY <1>2, <3>1 DEF StateInv, SlotsOwned
      <3> QED
        BY <1>6, <1>8, <1>9, <2>1, <3>3, <3>4
    <2>2. CASE u # v
      <3>1. u # w /\ pgtbl'[u] = pgtbl[u]
        BY <1>3, <2>2
      <3>2. pgtbl[u].frame # f /\ pgtbl[u].frame \in Frame
        BY <1>4, <3>1 DEF StateInv, TypeOK, Entry
      <3>3. /\ pgtbl[u].swap_off # INVALID_SWAP
            /\ swapfile[pgtbl[u].swap_off] = physmem[pgtbl[u].frame]
        BY <3>1 DEF StateInv, CleanIsSaved
      <3> QED
        BY <1>2, <1>7, <1>8, <1>9, <3>1, <3>2, <3>3
    <2> QED
      BY <2>1, <2>2
  <1>15. LruHolds'
    <2> SUFFICES ASSUME alg = "lru", NEW g \in Frame, coremap'[g] # Unused
                 PROVE  \E i \in 1 .. Len(policy'.lru) : policy'.lru[i] = g
      BY <1>6 DEF LruHolds
    <2>1. policy \in Policy /\ alg \in Algorithm
      BY DEF StateInv, TypeOK, Policy
    <2>2. FreeFrames = {}
      BY DEF MissEvict
    <2>3. policy.lru # <<>> /\ f = Head(policy.lru) /\ r.policy.lru = Tail(policy.lru)
      BY <1>2, <2>1, <2>2, EvictType DEF StateInv
    <2>4. policy.lru \in Seq(Frame)
      BY <2>1, PolicyFields
    <2>5. g = f \/ \E i \in 1 .. Len(r.policy.lru) : r.policy.lru[i] = g
      <3>1. CASE g # f
        <4>1. PICK i \in 1 .. Len(policy.lru) : policy.lru[i] = g
          BY <1>7, <3>1 DEF StateInv, LruHolds
        <4>2. i # 1
          BY <2>3, <2>4, <3>1, <4>1
        <4>3. i - 1 \in 1 .. Len(r.policy.lru) /\ r.policy.lru[i - 1] = g
          BY <2>3, <2>4, <4>1, <4>2
        <4> QED
          BY <4>3
      <3> QED
        BY <3>1
    <2> QED
      BY <1>2, <1>3, <2>5, RefHolds
  <1> QED
    BY <1>10, <1>11, <1>12, <1>13, <1>14, <1>15 DEF StateInv

LEMMA NextInv == StateInv /\ [Next]_vars => StateInv'
  <1> SUFFICES ASSUME StateInv, [Next]_vars PROVE StateInv'
    OBVIOUS
  <1>1. ASSUME NEW v \in Page, NEW type \in Type, Access(v, type) PROVE StateInv'
    BY <1>1, HitInv, MissFreeInv, MissEvictInv DEF Access
  <1>2. CASE /\ UNCHANGED <<alg, tableVars, memVars, swapVars, policy, counters>>
             /\ status' \in {status, "done", "exit1"}
    BY <1>2 DEF StateInv, TypeOK, NoTableNoEntry, DataInPlace, LoadedOnSwap, LruHolds,
                PageTableAgrees, SlotsOwned, CleanIsSaved, tableVars, memVars, swapVars, counters,
                evictCounts
  <1> QED
    BY <1>1, <1>2 DEF Next, SwapFull, SystemError, Exits, Done, Terminated, vars

THEOREM StateInvariance == Spec => []StateInv
  <1> QED
    BY InitInv, NextInv, PTL DEF Spec

(* Every variable keeps its type, whatever the trace.                      *)
THEOREM TypeCorrect == Spec => []TypeOK
  <1>1. StateInv => TypeOK
    BY DEF StateInv
  <1> QED
    BY StateInvariance, <1>1, PTL

(* Page table and coremap stay inverse to each other, and a page in memory *)
(* is the one its frame says it is.                                        *)
THEOREM PageTableAgreesCorrect == Spec => []PageTableAgrees
  <1>1. StateInv => PageTableAgrees
    BY DEF StateInv
  <1> QED
    BY StateInvariance, <1>1, PTL

(* No slot of the swap file is lost or shared, and a page on swap is found *)
(* in its slot.                                                            *)
THEOREM SlotsOwnedCorrect == Spec => []SlotsOwned
  <1>1. StateInv => SlotsOwned
    BY DEF StateInv
  <1> QED
    BY StateInvariance, <1>1, PTL

(* A page in memory without the dirty bit equals its copy on swap.         *)
THEOREM CleanIsSavedCorrect == Spec => []CleanIsSaved
  <1>1. StateInv => CleanIsSaved
    BY DEF StateInv
  <1> QED
    BY StateInvariance, <1>1, PTL
-----------------------------------------------------------------------------
(* The counters                                                            *)

LEMMA HitInMemory ==
  ASSUME StateInv, NEW v \in Page, NEW type \in Type, Hit(v, type)
  PROVE  v \in InMemory /\ InMemory' = InMemory
  <1>1. /\ pgtbl[v].valid /\ pgtbl'[v].valid
        /\ \A u \in Page : u # v => pgtbl'[u] = pgtbl[u]
    BY HitEffect
  <1> QED
    BY <1>1 DEF InMemory

LEMMA MissFreeInMemory ==
  ASSUME StateInv, NEW v \in Page, NEW type \in Type, MissFree(v, type)
  PROVE  v \notin InMemory /\ InMemory' = InMemory \cup {v}
  <1>1. /\ ~pgtbl[v].valid /\ pgtbl'[v].valid
        /\ \A u \in Page : u # v => pgtbl'[u] = pgtbl[u]
    BY MissFreeEffect DEF Loaded
  <1> QED
    BY <1>1 DEF InMemory

LEMMA MissEvictInMemory ==
  ASSUME StateInv, NEW v \in Page, NEW type, NEW r, NEW f, NEW w, NEW o,
         EvictEffect(v, type, r, f, w, o)
  PROVE  /\ v \notin InMemory /\ w \in InMemory
         /\ InMemory' = (InMemory \ {w}) \cup {v}
  <1>1. /\ ~pgtbl[v].valid /\ pgtbl'[v].valid /\ w # v
        /\ w \in Page /\ pgtbl[w].valid /\ ~pgtbl'[w].valid
        /\ \A u \in Page : u # v /\ u # w => pgtbl'[u] = pgtbl[u]
    BY DEF EvictEffect, Loaded
  <1> QED
    BY <1>1 DEF InMemory

LEMMA CountIs ==
  CountersAgree <=>
    /\ ref_count = hit_count + miss_count
    /\ miss_count = evict_clean_count + evict_dirty_count + Cardinality(InMemory)
BY DEF CountersAgree

LEMMA NextCount == StateInv /\ CountInv /\ [Next]_vars => CountInv'
  <1> SUFFICES ASSUME StateInv, CountInv, [Next]_vars PROVE CountInv'
    OBVIOUS
  <1> DEFINE n == Cardinality(InMemory)
  <1>1. /\ hit_count \in Nat /\ miss_count \in Nat /\ ref_count \in Nat
        /\ evict_clean_count \in Nat /\ evict_dirty_count \in Nat
    BY DEF StateInv, TypeOK
  <1>2. IsFiniteSet(InMemory) /\ n \in Nat
    BY FS_CardinalityType DEF CountInv
  <1>3. /\ ref_count = hit_count + miss_count
        /\ miss_count = evict_clean_count + evict_dirty_count + n
    BY DEF CountInv, CountersAgree
  <1>4. ASSUME NEW v \in Page, NEW type \in Type, Hit(v, type) PROVE CountInv'
    <2>1. InMemory' = InMemory
      BY <1>4, HitInMemory
    <2>2. /\ hit_count' = hit_count + 1 /\ ref_count' = ref_count + 1
          /\ UNCHANGED <<miss_count, evictCounts>>
      BY <1>4, HitEffect
    <2> QED
      BY <1>1, <1>2, <1>3, <2>1, <2>2 DEF CountInv, CountersAgree, evictCounts
  <1>5. ASSUME NEW v \in Page, NEW type \in Type, MissFree(v, type) PROVE CountInv'
    <2>1. v \notin InMemory /\ InMemory' = InMemory \cup {v}
      BY <1>5, MissFreeInMemory
    <2>2. IsFiniteSet(InMemory') /\ Cardinality(InMemory') = n + 1
      BY <1>2, <2>1, FS_AddElement
    <2>3. /\ miss_count' = miss_count + 1 /\ ref_count' = ref_count + 1
          /\ UNCHANGED <<hit_count, evictCounts>>
      BY <1>5, MissFreeEffect DEF Loaded
    <2> HIDE DEF n
    <2> QED
      BY <1>1, <1>2, <1>3, <2>2, <2>3 DEF CountInv, CountersAgree, evictCounts
  <1>6. ASSUME NEW v \in Page, NEW type \in Type, MissEvict(v, type) PROVE CountInv'
    <2>1. PICK r, f, w, o : EvictEffect(v, type, r, f, w, o)
      BY <1>6, MissEvictEffect
    <2>2. v \notin InMemory /\ w \in InMemory /\ InMemory' = (InMemory \ {w}) \cup {v}
      BY <2>1, MissEvictInMemory
    <2>3. IsFiniteSet(InMemory \ {w}) /\ Cardinality(InMemory \ {w}) = n - 1
      BY <1>2, <2>2, FS_RemoveElement
    <2>4. IsFiniteSet(InMemory') /\ Cardinality(InMemory') = n
      BY <1>2, <2>2, <2>3, FS_AddElement
    <2>5. /\ miss_count' = miss_count + 1 /\ ref_count' = ref_count + 1 /\ hit_count' = hit_count
          /\ \/ evict_dirty_count' = evict_dirty_count + 1 /\ evict_clean_count' = evict_clean_count
             \/ evict_dirty_count' = evict_dirty_count /\ evict_clean_count' = evict_clean_count + 1
      BY <2>1 DEF EvictEffect, Loaded
    <2> HIDE DEF n
    <2> QED
      BY <1>1, <1>2, <1>3, <2>4, <2>5 DEF CountInv, CountersAgree
  <1>7. CASE UNCHANGED <<counters, tableVars>>
    BY <1>7 DEF CountInv, CountersAgree, InMemory, counters, evictCounts, tableVars
  <1> QED
    BY <1>4, <1>5, <1>6, <1>7 DEF Next, Access, SwapFull, SystemError, Exits, Done, Terminated, vars

(* Hits, misses and evictions add up, with any number of pages in memory.  *)
THEOREM CountersAgreeCorrect == Spec => []CountersAgree
  <1>1. Init => CountInv
    <2> SUFFICES ASSUME Init PROVE CountInv
      OBVIOUS
    <2>1. InMemory = {}
      BY DEF Init, InMemory, NoEntry
    <2>2. IsFiniteSet(InMemory) /\ Cardinality(InMemory) = 0
      BY <2>1, FS_EmptySet
    <2> QED
      BY <2>2 DEF Init, CountInv, CountersAgree
  <1>2. CountInv => CountersAgree
    BY DEF CountInv
  <1> QED
    BY <1>1, <1>2, NextCount, StateInvariance, PTL DEF Spec
-----------------------------------------------------------------------------
(* The refinement of flat memory                                           *)

(* The version of page u that the program sees                             *)
VersionOf(u) ==
  IF pgtbl[u].valid THEN physmem[pgtbl[u].frame].version
  ELSE Content(pgtbl[u], u, swapfile).version

(* What a step of the simulator does to the versions                       *)
Sees(v, type) ==
  /\ VersionOf(v)' = IF type = "write" THEN VersionOf(v) + 1 ELSE VersionOf(v)
  /\ \A u \in Page : u # v => VersionOf(u)' = VersionOf(u)

LEMMA HitSees ==
  ASSUME StateInv, NEW v \in Page, NEW type \in Type, Hit(v, type)
  PROVE  Sees(v, type)
  <1> DEFINE f == pgtbl[v].frame
  <1>1. /\ pgtbl[v].valid /\ f \in Frame /\ coremap[f] = v
        /\ \A u \in Page : u # v => pgtbl'[u] = pgtbl[u]
        /\ pgtbl'[v].valid /\ pgtbl'[v].frame = f
        /\ physmem[f] \in Data
        /\ physmem' = [physmem EXCEPT ![f] = Increments(physmem[f], type)]
        /\ UNCHANGED swapVars
    BY HitEffect
  <1> HIDE DEF f
  <1>2. /\ physmem'[f] = Increments(physmem[f], type)
        /\ \A g \in Frame : g # f => physmem'[g] = physmem[g]
    BY <1>1 DEF StateInv, TypeOK
  <1>3. VersionOf(v)' = IF type = "write" THEN VersionOf(v) + 1 ELSE VersionOf(v)
    BY <1>1, <1>2, IncrementsIs DEF VersionOf, f
  <1>4. ASSUME NEW u \in Page, u # v PROVE VersionOf(u)' = VersionOf(u)
    <2>1. pgtbl'[u] = pgtbl[u] /\ swapfile' = swapfile
      BY <1>1, <1>4 DEF swapVars
    <2>2. pgtbl[u].valid => pgtbl[u].frame # f /\ pgtbl[u].frame \in Frame
      BY <1>1, <1>4 DEF StateInv, PageTableAgrees, TypeOK, Entry
    <2> QED
      BY <1>2, <2>1, <2>2 DEF VersionOf, Content
  <1> QED
    BY <1>3, <1>4 DEF Sees

LEMMA MissFreeSees ==
  ASSUME StateInv, NEW v \in Page, NEW type \in Type, MissFree(v, type)
  PROVE  Sees(v, type)
  <1> DEFINE c == Content(pgtbl[v], v, swapfile)
  <1>1. PICK f \in Frame :
          /\ coremap[f] = Unused /\ ~pgtbl[v].valid
          /\ Loaded(v, type, f, c)
          /\ \A u \in Page : u # v => pgtbl'[u] = pgtbl[u]
          /\ UNCHANGED <<swapVars, evictCounts>>
    BY MissFreeEffect
  <1>2. c \in Data
    BY <1>1, ContentIs
  <1>3. VersionOf(v) = c.version
    BY <1>1 DEF VersionOf
  <1> HIDE DEF c
  <1>4. pgtbl'[v].valid /\ pgtbl'[v].frame = f /\ physmem' = [physmem EXCEPT ![f] = Increments(c, type)]
    BY <1>1 DEF Loaded
  <1>5. /\ physmem'[f] = Increments(c, type)
        /\ \A g \in Frame : g # f => physmem'[g] = physmem[g]
    BY <1>4 DEF StateInv, TypeOK
  <1>6. VersionOf(v)' = IF type = "write" THEN VersionOf(v) + 1 ELSE VersionOf(v)
    BY <1>2, <1>3, <1>4, <1>5, IncrementsIs DEF VersionOf
  <1>7. ASSUME NEW u \in Page, u # v PROVE VersionOf(u)' = VersionOf(u)
    <2>1. pgtbl'[u] = pgtbl[u] /\ swapfile' = swapfile
      BY <1>1, <1>7 DEF swapVars
    <2>2. pgtbl[u].valid => pgtbl[u].frame # f /\ pgtbl[u].frame \in Frame
      BY <1>1, PageAssumption DEF StateInv, PageTableAgrees, TypeOK, Entry
    <2> QED
      BY <1>5, <2>1, <2>2 DEF VersionOf, Content
  <1> QED
    BY <1>6, <1>7 DEF Sees

LEMMA MissEvictSees ==
  ASSUME StateInv, NEW v \in Page, NEW type \in Type, MissEvict(v, type)
  PROVE  Sees(v, type)
  <1> DEFINE c == Content(pgtbl[v], v, swapfile)
  <1>1. PICK r, f, w, o : EvictEffect(v, type, r, f, w, o)
    BY MissEvictEffect
  <1>2. /\ f \in Frame /\ w \in Page /\ w # v /\ coremap[f] = w
        /\ pgtbl[w].valid /\ pgtbl[w].frame = f /\ ~pgtbl[v].valid
        /\ o \in Slot /\ \A u \in Page : u # w => pgtbl[u].swap_off # o
        /\ swapfile' = [swapfile EXCEPT ![o] = physmem[f]]
        /\ Loaded(v, type, f, c)
        /\ ~pgtbl'[w].valid /\ pgtbl'[w].onswap /\ pgtbl'[w].swap_off = o
        /\ \A u \in Page : u # v /\ u # w => pgtbl'[u] = pgtbl[u]
    BY <1>1 DEF EvictEffect
  <1>3. c \in Data
    BY <1>2, ContentIs
  <1>4. VersionOf(v) = c.version
    BY <1>2 DEF VersionOf
  <1> HIDE DEF c
  <1>5. pgtbl'[v].valid /\ pgtbl'[v].frame = f /\ physmem' = [physmem EXCEPT ![f] = Increments(c, type)]
    BY <1>2 DEF Loaded
  <1>6. /\ physmem'[f] = Increments(c, type)
        /\ \A g \in Frame : g # f => physmem'[g] = physmem[g]
        /\ swapfile'[o] = physmem[f]
        /\ \A k \in Slot : k # o => swapfile'[k] = swapfile[k]
    BY <1>2, <1>5 DEF StateInv, TypeOK
  <1>7. VersionOf(v)' = IF type = "write" THEN VersionOf(v) + 1 ELSE VersionOf(v)
    BY <1>3, <1>4, <1>5, <1>6, IncrementsIs DEF VersionOf
  <1>8. VersionOf(w)' = VersionOf(w)
    BY <1>2, <1>6 DEF VersionOf, Content
  <1>9. ASSUME NEW u \in Page, u # v, u # w PROVE VersionOf(u)' = VersionOf(u)
    <2>1. pgtbl'[u] = pgtbl[u] /\ pgtbl[u] \in Entry
      BY <1>2, <1>9 DEF StateInv, TypeOK
    <2>2. CASE pgtbl[u].valid
      <3>1. pgtbl[u].frame # f /\ pgtbl[u].frame \in Frame
        BY <1>2, <1>9, <2>1, <2>2 DEF StateInv, PageTableAgrees, Entry
      <3> QED
        BY <1>6, <2>1, <2>2, <3>1 DEF VersionOf
    <2>3. CASE ~pgtbl[u].valid /\ pgtbl[u].onswap
      <3>1. pgtbl[u].swap_off # INVALID_SWAP
        BY <2>3 DEF StateInv, SlotsOwned
      <3>2. pgtbl[u].swap_off \in Slot /\ pgtbl[u].swap_off # o
        BY <1>2, <1>9, <2>1, <3>1 DEF Entry
      <3> QED
        BY <1>6, <2>1, <2>3, <3>2 DEF VersionOf, Content
    <2>4. CASE ~pgtbl[u].valid /\ ~pgtbl[u].onswap
      BY <2>1, <2>4 DEF VersionOf, Content
    <2> QED
      BY <2>2, <2>3, <2>4
  <1> QED
    BY <1>7, <1>8, <1>9 DEF Sees

(* Each access is one write to its own page, or nothing; paging, the end   *)
(* of the trace and an exit(1) change nothing the program sees.            *)
THEOREM FlatMemoryImplemented == Spec => ImplementsFlatMemory
  <1> DEFINE M == [v \in Page |->
                     IF pgtbl[v].valid THEN physmem[pgtbl[v].frame].version
                     ELSE Content(pgtbl[v], v, swapfile).version]
  <1>1. Init => Memory!Init
    BY DEF Init, Memory!Init, NoEntry, Content
  <1>2. StateInv /\ [Next]_vars => [Memory!Next]_M
    <2> SUFFICES ASSUME StateInv, [Next]_vars PROVE Memory!Next \/ M' = M
      OBVIOUS
    <2>1. ASSUME NEW v \in Page, NEW type \in Type, Access(v, type)
          PROVE  Memory!Next \/ M' = M
      <3>1. Sees(v, type)
        BY <2>1, HitSees, MissFreeSees, MissEvictSees DEF Access
      <3>2. M = [u \in Page |-> VersionOf(u)] /\ M' = [u \in Page |-> VersionOf(u)']
        BY DEF VersionOf
      <3>3. CASE type = "write"
        <4>1. VersionOf(v)' = VersionOf(v) + 1 /\ \A u \in Page : u # v => VersionOf(u)' = VersionOf(u)
          BY <3>1, <3>3 DEF Sees
        <4> HIDE DEF M
        <4>2. /\ M = [u \in Page |-> M[u]] /\ M' = [u \in Page |-> M'[u]]
              /\ \A u \in Page : M[u] = VersionOf(u) /\ M'[u] = VersionOf(u)'
          BY <3>2
        <4>3. M'[v] = M[v] + 1 /\ \A u \in Page : u # v => M'[u] = M[u]
          BY <4>1, <4>2
        <4>4. M' = [M EXCEPT ![v] = M[v] + 1]
          BY <4>2, <4>3
        <4>5. M' = [M EXCEPT ![v] = @ + 1]
          BY <4>4
        <4> QED
          BY <4>5 DEF Memory!Next, Memory!Write, M
      <3>4. CASE type # "write"
        BY <3>1, <3>2, <3>4 DEF Sees
      <3> QED
        BY <3>3, <3>4
    <2>2. CASE UNCHANGED <<tableVars, memVars, swapVars>>
      BY <2>2 DEF tableVars, memVars, swapVars, Content
    <2> QED
      BY <2>1, <2>2 DEF Next, SwapFull, SystemError, Exits, Done, Terminated, vars
  <1> QED
    BY <1>1, <1>2, StateInvariance, PTL DEF Spec, ImplementsFlatMemory, Memory!Spec
-----------------------------------------------------------------------------
(* The order of evictions: the list of lru.c and the head of fifo.c,       *)
(* against the histories of VMHistory.                                     *)

(* The histories restrict nothing: what is proved of Spec holds of HSpec.  *)
LEMMA HistoriesFollow == HSpec => Spec
  <1>1. [HNext]_hvars => [Next]_vars
    BY DEF HNext, HAccess, Next, hvars
  <1>2. HInit => Init
    BY DEF HInit
  <1> QED
    BY <1>1, <1>2, PTL DEF HSpec, Spec

(* The histories list the pages in memory, each once.                      *)
HistoryInv == Lists(loads, InMemory) /\ Lists(uses, InMemory)

(* LruInOrder, element by element                                          *)
LruInv ==
  alg = "lru" =>
    /\ Len(policy.lru) = Len(uses)
    /\ \A i \in 1 .. Len(uses) : policy.lru[i] = pgtbl[uses[i]].frame
    /\ policy.referenced = {f \in Frame : coremap[f] # Unused}

(* The pages are in the frames from head_of_fifo on in the order in which  *)
(* they were loaded; until memory is full the head is 0 and the frames     *)
(* after them are free.                                                    *)
FifoInv ==
  alg = "fifo" =>
    /\ Len(loads) <= memsize
    /\ \A i \in 1 .. Len(loads) : coremap[(policy.head_of_fifo + i - 1) % memsize] = loads[i]
    /\ Len(loads) < memsize =>
         /\ policy.head_of_fifo = 0
         /\ \A g \in Frame : g >= Len(loads) => coremap[g] = Unused
    /\ Len(loads) = memsize => FreeFrames = {}

OrderInv == StateInv /\ HistoryInv /\ LruInv /\ FifoInv
-----------------------------------------------------------------------------
(* What an access does to the histories                                    *)

LEMMA HitHistory ==
  ASSUME StateInv, HistoryInv, NEW v \in Page, NEW type \in Type, Hit(v, type), HAccess(v, type)
  PROVE  /\ loads' = loads
         /\ \E k \in 1 .. Len(uses) : uses[k] = v /\ uses' = Append(RemoveAt(uses, k), v)
         /\ HistoryInv'
  <1>1. v \in InMemory /\ InMemory' = InMemory
    BY HitInMemory
  <1>2. loads' = loads /\ uses' = Append(RemoveFirst(uses, v), v)
    BY <1>1 DEF HAccess
  <1>3. PICK k \in 1 .. Len(uses) : uses[k] = v
    BY <1>1 DEF HistoryInv, Lists
  <1>4. RemoveFirst(uses, v) = RemoveAt(uses, k) /\ Lists(RemoveAt(uses, k), InMemory \ {v})
    BY <1>3, ListsRemove DEF HistoryInv
  <1>5. Lists(uses', (InMemory \ {v}) \cup {v})
    BY <1>2, <1>4, ListsAppend
  <1>6. (InMemory \ {v}) \cup {v} = InMemory'
    BY <1>1
  <1> QED
    BY <1>1, <1>2, <1>3, <1>4, <1>5, <1>6 DEF HistoryInv

LEMMA MissFreeHistory ==
  ASSUME StateInv, HistoryInv, NEW v \in Page, NEW type \in Type, MissFree(v, type), HAccess(v, type)
  PROVE  loads' = Append(loads, v) /\ uses' = Append(uses, v) /\ HistoryInv'
  <1>1. v \notin InMemory /\ InMemory' = InMemory \cup {v}
    BY MissFreeInMemory
  <1>2. loads' = Append(loads, v) /\ uses' = Append(uses, v)
    BY <1>1 DEF HAccess, Staying
  <1> QED
    BY <1>1, <1>2, ListsAppend DEF HistoryInv

LEMMA MissEvictHistory ==
  ASSUME StateInv, HistoryInv, NEW v \in Page, NEW type, NEW r, NEW f, NEW w, NEW o,
         EvictEffect(v, type, r, f, w, o), HAccess(v, type)
  PROVE  /\ \E k \in 1 .. Len(loads) : loads[k] = w /\ loads' = Append(RemoveAt(loads, k), v)
         /\ \E k \in 1 .. Len(uses) : uses[k] = w /\ uses' = Append(RemoveAt(uses, k), v)
         /\ HistoryInv'
  <1>1. v \notin InMemory /\ w \in InMemory /\ InMemory' = (InMemory \ {w}) \cup {v}
    BY MissEvictInMemory
  <1>2. w # v /\ w \notin InMemory'
    BY <1>1
  <1>3. \A u \in InMemory : u \notin InMemory' <=> u = w
    BY <1>1, <1>2
  <1>4. (CHOOSE u \in InMemory : u \notin InMemory') = w
    BY <1>1, <1>3
  <1>5. \A list : Staying(list) = RemoveFirst(list, w)
    BY <1>1, <1>2, <1>4 DEF Staying
  <1>6. loads' = Append(RemoveFirst(loads, w), v) /\ uses' = Append(RemoveFirst(uses, w), v)
    BY <1>1, <1>5 DEF HAccess
  <1>7. ASSUME NEW s, Lists(s, InMemory)
        PROVE  /\ \E k \in 1 .. Len(s) : s[k] = w /\ RemoveFirst(s, w) = RemoveAt(s, k)
               /\ Lists(Append(RemoveFirst(s, w), v), InMemory')
    <2>1. PICK k \in 1 .. Len(s) : s[k] = w
      BY <1>1, <1>7 DEF Lists
    <2>2. RemoveFirst(s, w) = RemoveAt(s, k) /\ Lists(RemoveAt(s, k), InMemory \ {w})
      BY <1>7, <2>1, ListsRemove
    <2>3. Lists(Append(RemoveFirst(s, w), v), (InMemory \ {w}) \cup {v})
      BY <1>1, <2>2, ListsAppend
    <2> QED
      BY <1>1, <2>1, <2>2, <2>3
  <1>8. HistoryInv'
    BY <1>6, <1>7 DEF HistoryInv
  <1> QED
    BY <1>6, <1>7, <1>8 DEF HistoryInv
-----------------------------------------------------------------------------
(* lru.c                                                                   *)

LEMMA LruListed ==
  ASSUME StateInv, HistoryInv, LruInv, alg = "lru"
  PROVE  /\ policy \in Policy /\ Lists(policy.lru, policy.referenced)
         /\ Len(uses) \in Nat /\ \A i \in 1 .. Len(uses) : uses[i] \in InMemory
  <1>1. policy \in Policy /\ policy.lru \in Seq(Frame)
    BY PolicyFields DEF StateInv, TypeOK, Policy
  <1>2. /\ uses \in Seq(InMemory) /\ Len(uses) \in Nat
        /\ \A i \in 1 .. Len(uses) : uses[i] \in InMemory
    BY DEF HistoryInv, Lists
  <1>3. /\ Len(policy.lru) = Len(uses)
        /\ \A i \in 1 .. Len(uses) : policy.lru[i] = pgtbl[uses[i]].frame
        /\ policy.referenced = {f \in Frame : coremap[f] # Unused}
    BY DEF LruInv
  <1>4. ASSUME NEW u \in InMemory
        PROVE  /\ pgtbl[u].frame \in Frame /\ coremap[pgtbl[u].frame] = u
               /\ coremap[pgtbl[u].frame] # Unused
    BY PageAssumption DEF InMemory, StateInv, TypeOK, Entry, PageTableAgrees
  <1>5. policy.lru \in Seq(policy.referenced)
    <2>1. \A i \in 1 .. Len(policy.lru) : policy.lru[i] \in policy.referenced
      BY <1>2, <1>3, <1>4
    <2> QED
      BY <1>1, <2>1
  <1>6. ASSUME NEW f \in policy.referenced PROVE \E i \in 1 .. Len(policy.lru) : policy.lru[i] = f
    <2>1. f \in Frame /\ coremap[f] # Unused
      BY <1>3
    <2>2. coremap[f] \in InMemory /\ pgtbl[coremap[f]].frame = f
      BY <2>1 DEF StateInv, TypeOK, PageTableAgrees, InMemory
    <2>3. PICK i \in 1 .. Len(uses) : uses[i] = coremap[f]
      BY <2>2 DEF HistoryInv, Lists
    <2> QED
      BY <1>3, <2>2, <2>3
  <1>7. ASSUME NEW i \in 1 .. Len(policy.lru), NEW j \in 1 .. Len(policy.lru),
               policy.lru[i] = policy.lru[j]
        PROVE  i = j
    <2>1. uses[i] = coremap[policy.lru[i]] /\ uses[j] = coremap[policy.lru[j]]
      BY <1>2, <1>3, <1>4
    <2>2. uses[i] = uses[j]
      BY <1>7, <2>1
    <2> QED
      BY <1>3, <2>2 DEF HistoryInv, Lists
  <1> QED
    BY <1>1, <1>2, <1>5, <1>6, <1>7 DEF Lists

LEMMA LruRefIs ==
  ASSUME NEW s \in Policy, NEW f \in Frame
  PROVE  /\ ref_fcn("lru", s, f).lru =
              Append(IF f \in s.referenced THEN RemoveFirst(s.lru, f) ELSE s.lru, f)
         /\ ref_fcn("lru", s, f).referenced = s.referenced \cup {f}
BY DEF ref_fcn, lru_ref, Policy

LEMMA HitLru ==
  ASSUME OrderInv, NEW v \in Page, NEW type \in Type, Hit(v, type), HAccess(v, type)
  PROVE  LruInv'
  <1> DEFINE f == pgtbl[v].frame
             n == Len(uses)
             l == policy.lru
  <1>1. /\ f \in Frame /\ coremap[f] = v
        /\ \A u \in Page : pgtbl'[u].frame = pgtbl[u].frame
        /\ policy' = ref_fcn(alg, policy, f)
        /\ alg' = alg /\ coremap' = coremap
    BY HitEffect DEF OrderInv
  <1> SUFFICES ASSUME alg = "lru"
               PROVE  /\ Len(policy'.lru) = Len(uses')
                      /\ \A i \in 1 .. Len(uses') : policy'.lru[i] = pgtbl'[uses'[i]].frame
                      /\ policy'.referenced = {g \in Frame : coremap'[g] # Unused}
    BY <1>1 DEF LruInv
  <1>2. /\ policy \in Policy /\ Lists(l, policy.referenced) /\ n \in Nat
        /\ \A i \in 1 .. n : uses[i] \in InMemory
    BY LruListed DEF OrderInv
  <1>3. /\ Len(l) = n /\ \A i \in 1 .. n : l[i] = pgtbl[uses[i]].frame
        /\ policy.referenced = {g \in Frame : coremap[g] # Unused}
    BY DEF OrderInv, LruInv
  <1>4. PICK k \in 1 .. n : uses[k] = v /\ uses' = Append(RemoveAt(uses, k), v)
    BY HitHistory DEF OrderInv
  <1>5. f \in policy.referenced /\ l[k] = f
    BY <1>1, <1>3, <1>4, PageAssumption
  <1> DEFINE t == RemoveAt(l, k)
             p == RemoveAt(uses, k)
  <1> HIDE DEF f, l
  <1>6. /\ RemoveFirst(l, f) = t /\ Lists(t, policy.referenced \ {f}) /\ Len(t) = n - 1
        /\ \A i \in 1 .. n - 1 : t[i] = IF i < k THEN l[i] ELSE l[i + 1]
    <2>1. k \in 1 .. Len(l) /\ l[k] = f
      BY <1>3, <1>4, <1>5 DEF l
    <2>2. /\ RemoveFirst(l, l[k]) = t /\ Lists(t, policy.referenced \ {l[k]})
          /\ Len(t) = Len(l) - 1
          /\ \A i \in 1 .. Len(l) - 1 : t[i] = IF i < k THEN l[i] ELSE l[i + 1]
      BY <1>2, <2>1, ListsRemove
    <2> QED
      BY <1>3, <2>1, <2>2
  <1>7. /\ Lists(p, InMemory \ {v}) /\ Len(p) = n - 1
        /\ \A i \in 1 .. n - 1 : p[i] = IF i < k THEN uses[i] ELSE uses[i + 1]
    BY <1>4, ListsRemove DEF OrderInv, HistoryInv
  <1>8. policy'.lru = Append(t, f) /\ policy'.referenced = policy.referenced \cup {f}
    BY <1>1, <1>2, <1>5, <1>6, LruRefIs DEF l
  <1>9. t \in Seq(policy.referenced \ {f}) /\ p \in Seq(InMemory \ {v})
    BY <1>6, <1>7 DEF Lists
  <1>10. uses' = Append(p, v)
    BY <1>4
  <1> HIDE DEF t, p, n
  <1>11. /\ Len(policy'.lru) = n /\ policy'.lru[n] = f
         /\ \A i \in 1 .. n - 1 : policy'.lru[i] = t[i]
    BY <1>2, <1>6, <1>8, <1>9
  <1>12. /\ Len(uses') = n /\ uses'[n] = v
         /\ \A i \in 1 .. n - 1 : uses'[i] = p[i]
    BY <1>2, <1>7, <1>9, <1>10
  <1>13. ASSUME NEW i \in 1 .. n PROVE policy'.lru[i] = pgtbl'[uses'[i]].frame
    <2>1. CASE i = n
      BY <1>1, <1>11, <1>12, <2>1 DEF f
    <2>2. CASE i # n
      <3>1. i \in 1 .. n - 1 /\ i + 1 \in 1 .. n
        BY <1>2, <2>2
      <3>2. t[i] = pgtbl[p[i]].frame
        BY <1>3, <1>6, <1>7, <3>1
      <3>3. p[i] \in Page
        BY <1>2, <1>7, <3>1 DEF InMemory
      <3> QED
        BY <1>1, <1>11, <1>12, <3>1, <3>2, <3>3
    <2> QED
      BY <2>1, <2>2
  <1> QED
    BY <1>1, <1>3, <1>5, <1>8, <1>11, <1>12, <1>13

LEMMA MissFreeLru ==
  ASSUME OrderInv, NEW v \in Page, NEW type \in Type, MissFree(v, type), HAccess(v, type)
  PROVE  LruInv'
  <1> DEFINE n == Len(uses)
             l == policy.lru
  <1>1. PICK f \in Frame :
          /\ coremap[f] = Unused /\ ~pgtbl[v].valid
          /\ Loaded(v, type, f, Content(pgtbl[v], v, swapfile))
          /\ \A u \in Page : u # v => pgtbl'[u] = pgtbl[u]
          /\ policy' = ref_fcn(alg, policy, f)
    BY MissFreeEffect DEF OrderInv
  <1>2. /\ pgtbl'[v].frame = f /\ coremap' = [coremap EXCEPT ![f] = v] /\ alg' = alg
    BY <1>1 DEF Loaded
  <1> SUFFICES ASSUME alg = "lru"
               PROVE  /\ Len(policy'.lru) = Len(uses')
                      /\ \A i \in 1 .. Len(uses') : policy'.lru[i] = pgtbl'[uses'[i]].frame
                      /\ policy'.referenced = {g \in Frame : coremap'[g] # Unused}
    BY <1>2 DEF LruInv
  <1>3. /\ policy \in Policy /\ Lists(l, policy.referenced) /\ n \in Nat
        /\ \A i \in 1 .. n : uses[i] \in InMemory
    BY LruListed DEF OrderInv
  <1>4. /\ Len(l) = n /\ \A i \in 1 .. n : l[i] = pgtbl[uses[i]].frame
        /\ policy.referenced = {g \in Frame : coremap[g] # Unused}
    BY DEF OrderInv, LruInv
  <1>5. policy'.lru = Append(l, f) /\ policy'.referenced = policy.referenced \cup {f}
    BY <1>1, <1>3, <1>4, LruRefIs
  <1>6. uses' = Append(uses, v) /\ uses \in Seq(InMemory) /\ l \in Seq(policy.referenced)
    BY <1>3, MissFreeHistory DEF OrderInv, HistoryInv, Lists
  <1> HIDE DEF n, l
  <1>7. /\ Len(policy'.lru) = n + 1 /\ policy'.lru[n + 1] = f
        /\ \A i \in 1 .. n : policy'.lru[i] = l[i]
    BY <1>3, <1>4, <1>5, <1>6
  <1>8. /\ Len(uses') = n + 1 /\ uses'[n + 1] = v
        /\ \A i \in 1 .. n : uses'[i] = uses[i]
    BY <1>3, <1>6 DEF n
  <1>9. ASSUME NEW i \in 1 .. n + 1 PROVE policy'.lru[i] = pgtbl'[uses'[i]].frame
    <2>1. CASE i = n + 1
      BY <1>2, <1>7, <1>8, <2>1
    <2>2. CASE i # n + 1
      <3>1. i \in 1 .. n
        BY <1>3, <2>2
      <3>2. uses[i] \in Page /\ uses[i] # v
        BY <1>1, <1>3, <3>1 DEF InMemory
      <3> QED
        BY <1>1, <1>4, <1>7, <1>8, <3>1, <3>2
    <2> QED
      BY <2>1, <2>2
  <1>10. policy'.referenced = {g \in Frame : coremap'[g] # Unused}
    <2>1. coremap \in [Frame -> Page \cup {Unused}] /\ v # Unused
      BY PageAssumption DEF OrderInv, StateInv, TypeOK
    <2>2. coremap'[f] = v /\ \A g \in Frame : g # f => coremap'[g] = coremap[g]
      BY <1>2, <2>1
    <2> QED
      BY <1>4, <1>5, <2>1, <2>2
  <1> QED
    BY <1>7, <1>8, <1>9, <1>10

LEMMA MissEvictLru ==
  ASSUME OrderInv, NEW v \in Page, NEW type \in Type, MissEvict(v, type), HAccess(v, type)
  PROVE  LruInv'
  <1> DEFINE n == Len(uses)
             l == policy.lru
  <1>1. PICK r, f, w, o : EvictEffect(v, type, r, f, w, o)
    BY MissEvictEffect DEF OrderInv
  <1>2. /\ r \in evict_fcn(alg, policy) /\ f = r.frame /\ f \in Frame
        /\ w \in Page /\ w # v /\ pgtbl[w].frame = f /\ ~pgtbl[v].valid
        /\ \A u \in Page : u # v /\ u # w => pgtbl'[u] = pgtbl[u]
        /\ r.policy \in Policy /\ policy' = ref_fcn(alg, r.policy, f)
        /\ pgtbl'[v].frame = f /\ coremap' = [coremap EXCEPT ![f] = v] /\ alg' = alg
        /\ coremap[f] = w
    BY <1>1 DEF EvictEffect, Loaded
  <1> SUFFICES ASSUME alg = "lru"
               PROVE  /\ Len(policy'.lru) = Len(uses')
                      /\ \A i \in 1 .. Len(uses') : policy'.lru[i] = pgtbl'[uses'[i]].frame
                      /\ policy'.referenced = {g \in Frame : coremap'[g] # Unused}
    BY <1>2 DEF LruInv
  <1>3. /\ policy \in Policy /\ Lists(l, policy.referenced) /\ n \in Nat
        /\ \A i \in 1 .. n : uses[i] \in InMemory
    BY LruListed DEF OrderInv
  <1>4. /\ Len(l) = n /\ \A i \in 1 .. n : l[i] = pgtbl[uses[i]].frame
        /\ policy.referenced = {g \in Frame : coremap[g] # Unused}
    BY DEF OrderInv, LruInv
  <1>5. /\ l # <<>> /\ f = Head(l) /\ r.policy.lru = Tail(l)
        /\ r.policy.referenced = policy.referenced \ {f}
    <2>1. FreeFrames = {} /\ alg \in Algorithm /\ LruHolds
      BY DEF MissEvict, OrderInv, StateInv, TypeOK
    <2> QED
      BY <1>2, <1>3, <2>1, EvictType
  <1>6. PICK k \in 1 .. n : uses[k] = w /\ uses' = Append(RemoveAt(uses, k), v)
    BY <1>1, MissEvictHistory DEF OrderInv
  <1>7. l \in Seq(policy.referenced)
    BY <1>3 DEF Lists
  <1>8. 1 \in 1 .. n /\ l[1] = f /\ l[k] = f
    BY <1>2, <1>4, <1>5, <1>6, <1>7
  <1>9. k = 1
    BY <1>3, <1>4, <1>8 DEF Lists
  <1>10. policy'.lru = Append(Tail(l), f) /\ policy'.referenced = policy.referenced \cup {f}
    <2>1. /\ policy'.lru = Append(IF f \in r.policy.referenced THEN RemoveFirst(r.policy.lru, f)
                                  ELSE r.policy.lru, f)
          /\ policy'.referenced = r.policy.referenced \cup {f}
      BY <1>2, LruRefIs
    <2>2. f \notin r.policy.referenced
      BY <1>5
    <2>3. r.policy.referenced \cup {f} = policy.referenced \cup {f}
      BY <1>5
    <2> QED
      BY <1>5, <2>1, <2>2, <2>3
  <1> DEFINE p == RemoveAt(uses, 1)
  <1>11. /\ Lists(p, InMemory \ {w}) /\ Len(p) = n - 1
         /\ \A i \in 1 .. n - 1 : p[i] = uses[i + 1]
    <2>1. \A i \in 1 .. n - 1 : ~(i < 1)
      BY <1>3
    <2>2. Lists(uses, InMemory) /\ 1 \in 1 .. Len(uses) /\ uses[1] = w
      BY <1>6, <1>8, <1>9 DEF OrderInv, HistoryInv
    <2>3. /\ Lists(p, InMemory \ {w}) /\ Len(p) = n - 1
          /\ \A i \in 1 .. n - 1 : p[i] = IF i < 1 THEN uses[i] ELSE uses[i + 1]
      BY ONLY <2>2, ListsRemove
    <2> QED
      BY <2>1, <2>3
  <1>12. uses' = Append(p, v) /\ p \in Seq(InMemory \ {w})
    BY <1>6, <1>9, <1>11 DEF Lists
  <1>13. /\ Tail(l) \in Seq(policy.referenced) /\ Len(Tail(l)) = n - 1
         /\ \A i \in 1 .. n - 1 : Tail(l)[i] = l[i + 1]
    BY <1>4, <1>5, <1>7
  <1> HIDE DEF n, l, p
  <1>14. /\ Len(policy'.lru) = n /\ policy'.lru[n] = f
         /\ \A i \in 1 .. n - 1 : policy'.lru[i] = l[i + 1]
    BY <1>3, <1>10, <1>13
  <1>15. /\ Len(uses') = n /\ uses'[n] = v
         /\ \A i \in 1 .. n - 1 : uses'[i] = p[i]
    BY <1>3, <1>11, <1>12
  <1>16. ASSUME NEW i \in 1 .. n PROVE policy'.lru[i] = pgtbl'[uses'[i]].frame
    <2>1. CASE i = n
      BY <1>2, <1>14, <1>15, <2>1
    <2>2. CASE i # n
      <3>1. i \in 1 .. n - 1 /\ i + 1 \in 1 .. n
        BY <1>3, <2>2
      <3>2. p[i] \in InMemory /\ p[i] # w
        BY <1>11, <1>12, <3>1
      <3>3. p[i] \in Page /\ p[i] # v
        BY <1>2, <3>2 DEF InMemory
      <3>4. pgtbl'[p[i]] = pgtbl[p[i]]
        BY <1>2, <3>2, <3>3
      <3>5. policy'.lru[i] = l[i + 1] /\ l[i + 1] = pgtbl[uses[i + 1]].frame /\ p[i] = uses[i + 1]
        BY <1>4, <1>11, <1>14, <3>1
      <3> QED
        BY <1>15, <3>1, <3>4, <3>5
    <2> QED
      BY <2>1, <2>2
  <1>17. policy'.referenced = {g \in Frame : coremap'[g] # Unused}
    <2>1. coremap \in [Frame -> Page \cup {Unused}] /\ v # Unused /\ w # Unused
      BY <1>2, PageAssumption DEF OrderInv, StateInv, TypeOK
    <2>2. coremap'[f] = v /\ \A g \in Frame : g # f => coremap'[g] = coremap[g]
      BY <1>2, <2>1
    <2> QED
      BY <1>2, <1>4, <1>10, <2>1, <2>2
  <1> QED
    BY <1>14, <1>15, <1>16, <1>17
-----------------------------------------------------------------------------
(* fifo.c                                                                  *)

LEMMA RingFacts ==
  ASSUME NEW h \in Frame
  PROVE  /\ (h + memsize) % memsize = h
         /\ (h + 1) % memsize \in Frame
         /\ \A i \in 0 .. memsize - 1 : (0 + i) % memsize = i
         /\ \A i \in 1 .. memsize - 1 : (h + i) % memsize # h /\ (h + i) % memsize \in Frame
         /\ \A i \in 0 .. memsize - 1 : (((h + 1) % memsize) + i) % memsize = (h + i + 1) % memsize
BY MemsizeAssumption DEF Frame

LEMMA HitFifo ==
  ASSUME OrderInv, NEW v \in Page, NEW type \in Type, Hit(v, type), HAccess(v, type)
  PROVE  FifoInv'
  <1>1. policy' = ref_fcn(alg, policy, pgtbl[v].frame) /\ alg' = alg /\ coremap' = coremap
    BY HitEffect DEF OrderInv
  <1>2. loads' = loads
    BY HitHistory DEF OrderInv
  <1>3. alg = "fifo" => policy' = policy
    BY <1>1 DEF ref_fcn
  <1> QED
    BY <1>1, <1>2, <1>3 DEF OrderInv, FifoInv, FreeFrames

LEMMA MissFreeFifo ==
  ASSUME OrderInv, NEW v \in Page, NEW type \in Type, MissFree(v, type), HAccess(v, type)
  PROVE  FifoInv'
  <1> DEFINE n == Len(loads)
             f == Min(FreeFrames)
  <1>1. /\ f \in Frame /\ coremap[f] = Unused /\ \A g \in FreeFrames : f <= g
        /\ policy' = ref_fcn(alg, policy, f)
        /\ coremap' = [coremap EXCEPT ![f] = v] /\ alg' = alg
    BY MissFreeEffect DEF OrderInv, Loaded
  <1> SUFFICES ASSUME alg = "fifo" PROVE FifoInv'
    BY <1>1 DEF FifoInv
  <1>2. policy' = policy
    BY <1>1 DEF ref_fcn
  <1>3. loads' = Append(loads, v) /\ loads \in Seq(InMemory) /\ n \in Nat
    <2>1. loads \in Seq(InMemory)
      BY DEF OrderInv, HistoryInv, Lists
    <2> QED
      BY <2>1, MissFreeHistory DEF OrderInv
  <1>4. /\ n <= memsize
        /\ \A i \in 1 .. n : coremap[(policy.head_of_fifo + i - 1) % memsize] = loads[i]
        /\ n < memsize => /\ policy.head_of_fifo = 0
                          /\ \A g \in Frame : g >= n => coremap[g] = Unused
        /\ n = memsize => FreeFrames = {}
    BY DEF OrderInv, FifoInv
  <1>5. memsize \in Nat \ {0} /\ Frame = 0 .. memsize - 1
    BY MemsizeAssumption DEF Frame
  <1>6. n < memsize
    BY <1>1, <1>3, <1>4, <1>5 DEF FreeFrames
  <1>7. ASSUME NEW i \in 1 .. n
        PROVE  /\ (policy.head_of_fifo + i - 1) % memsize = i - 1 /\ i - 1 \in Frame
               /\ coremap[i - 1] = loads[i] /\ loads[i] # Unused
    <2>1. i - 1 \in 0 .. memsize - 1 /\ policy.head_of_fifo = 0 /\ 0 + (i - 1) = 0 + i - 1
      BY <1>3, <1>4, <1>5, <1>6
    <2>2. (0 + (i - 1)) % memsize = i - 1
      BY <2>1, RingFacts, FrameFacts
    <2>3. loads[i] \in InMemory
      BY <1>3
    <2> QED
      BY <1>4, <1>5, <2>1, <2>2, <2>3, PageAssumption DEF InMemory
  <1> HIDE DEF n
  <1>8. n \in FreeFrames
    BY <1>3, <1>4, <1>5, <1>6 DEF FreeFrames
  <1>9. f = n
    <2>1. f <= n /\ f \in 0 .. memsize - 1
      BY <1>1, <1>5, <1>8
    <2>2. ASSUME f < n PROVE FALSE
      <3>1. f + 1 \in 1 .. n /\ (f + 1) - 1 = f
        BY <1>3, <2>1, <2>2
      <3>2. coremap[f] # Unused
        BY <1>7, <3>1
      <3> QED
        BY <1>1, <3>2
    <2> QED
      BY <1>3, <2>1, <2>2
  <1> HIDE DEF f
  <1>10. coremap \in [Frame -> Page \cup {Unused}]
    BY DEF OrderInv, StateInv, TypeOK
  <1>11. coremap'[n] = v /\ \A g \in Frame : g # n => coremap'[g] = coremap[g]
    BY <1>1, <1>9, <1>10
  <1>12. /\ Len(loads') = n + 1 /\ loads'[n + 1] = v /\ \A i \in 1 .. n : loads'[i] = loads[i]
    BY <1>3 DEF n
  <1>13. ASSUME NEW i \in 1 .. n + 1
         PROVE  coremap'[(policy.head_of_fifo + i - 1) % memsize] = loads'[i]
    <2>1. CASE i = n + 1
      <3>1. policy.head_of_fifo = 0 /\ 0 + i - 1 = 0 + n /\ n \in 0 .. memsize - 1
        BY <1>3, <1>4, <1>5, <1>6, <2>1
      <3>2. (0 + n) % memsize = n
        BY <3>1, RingFacts, FrameFacts
      <3> QED
        BY <1>11, <1>12, <2>1, <3>1, <3>2
    <2>2. CASE i # n + 1
      <3>1. i \in 1 .. n /\ i - 1 # n
        BY <1>3, <2>2
      <3> QED
        BY <1>7, <1>11, <1>12, <3>1
    <2> QED
      BY <2>1, <2>2
  <1>14. \A g \in Frame : g >= n + 1 => coremap'[g] = Unused
    BY <1>3, <1>4, <1>5, <1>6, <1>11
  <1>15. n + 1 = memsize => FreeFrames' = {}
    <2> SUFFICES ASSUME n + 1 = memsize, NEW g \in Frame PROVE coremap'[g] # Unused
      BY DEF FreeFrames
    <2>1. CASE g = n
      BY <1>11, <2>1, PageAssumption
    <2>2. CASE g # n
      <3>1. g + 1 \in 1 .. n /\ (g + 1) - 1 = g
        BY <1>3, <1>5, <2>2
      <3> QED
        BY <1>7, <1>11, <2>2, <3>1
    <2> QED
      BY <2>1, <2>2
  <1> QED
    BY <1>2, <1>3, <1>4, <1>5, <1>6, <1>12, <1>13, <1>14, <1>15 DEF FifoInv

LEMMA MissEvictFifo ==
  ASSUME OrderInv, NEW v \in Page, NEW type \in Type, MissEvict(v, type), HAccess(v, type)
  PROVE  FifoInv'
  <1> DEFINE n == Len(loads)
             h == policy.head_of_fifo
             h1 == (h + 1) % memsize
  <1>1. PICK r, f, w, o : EvictEffect(v, type, r, f, w, o)
    BY MissEvictEffect DEF OrderInv
  <1>2. /\ r \in evict_fcn(alg, policy) /\ f = r.frame /\ f \in Frame
        /\ policy' = ref_fcn(alg, r.policy, f)
        /\ coremap' = [coremap EXCEPT ![f] = v] /\ alg' = alg
        /\ coremap[f] = w
    BY <1>1 DEF EvictEffect, Loaded
  <1> SUFFICES ASSUME alg = "fifo" PROVE FifoInv'
    BY <1>2 DEF FifoInv
  <1>3. FreeFrames = {} /\ alg \in Algorithm /\ LruHolds /\ policy \in Policy
    BY DEF MissEvict, OrderInv, StateInv, TypeOK, Policy
  <1>4. f = h /\ r.policy.head_of_fifo = h1
    BY <1>2, <1>3, EvictType
  <1>5. policy'.head_of_fifo = h1
    BY <1>2, <1>4 DEF ref_fcn
  <1>6. h \in Frame
    BY <1>2, <1>4
  <1>7. memsize \in Nat \ {0} /\ Frame = 0 .. memsize - 1
    BY MemsizeAssumption DEF Frame
  <1>8. Lists(loads, InMemory) /\ loads \in Seq(InMemory) /\ n \in Nat
    <2>1. Lists(loads, InMemory) /\ loads \in Seq(InMemory)
      BY DEF OrderInv, HistoryInv, Lists
    <2> QED
      BY <2>1
  <1>9. n = memsize /\ \A i \in 1 .. memsize : coremap[(h + i - 1) % memsize] = loads[i]
    <2>1. /\ n <= memsize
          /\ \A i \in 1 .. n : coremap[(h + i - 1) % memsize] = loads[i]
          /\ n < memsize => \A g \in Frame : g >= n => coremap[g] = Unused
      BY DEF OrderInv, FifoInv
    <2>2. n < memsize => n \in Frame
      BY <1>7, <1>8
    <2>3. ~(n < memsize)
      BY <1>3, <1>8, <2>1, <2>2 DEF FreeFrames
    <2> QED
      BY <1>7, <1>8, <2>1, <2>3
  <1> HIDE DEF h
  <1>10. /\ (h + memsize) % memsize = h /\ h1 \in Frame
         /\ \A i \in 1 .. memsize - 1 : (h + i) % memsize # h /\ (h + i) % memsize \in Frame
         /\ \A i \in 0 .. memsize - 1 : (h1 + i) % memsize = (h + i + 1) % memsize
    BY <1>6, RingFacts
  <1>11. loads[1] = w /\ 1 \in 1 .. n
    <2>1. 1 \in 1 .. memsize /\ h + 1 - 1 = h /\ h \in 0 .. memsize - 1
      BY <1>6, <1>7
    <2>2. h % memsize = h
      BY <1>7, <2>1
    <2> QED
      BY <1>2, <1>4, <1>9, <2>1, <2>2
  <1>12. PICK k \in 1 .. n : loads[k] = w /\ loads' = Append(RemoveAt(loads, k), v)
    BY <1>1, MissEvictHistory DEF OrderInv
  <1>13. k = 1
    BY <1>8, <1>11, <1>12 DEF Lists
  <1> DEFINE p == RemoveAt(loads, 1)
  <1>14. /\ Lists(p, InMemory \ {w}) /\ Len(p) = n - 1
         /\ \A i \in 1 .. n - 1 : p[i] = loads[i + 1]
    <2>1. \A i \in 1 .. n - 1 : ~(i < 1)
      BY <1>8
    <2> QED
      BY <1>8, <1>11, <2>1, ListsRemove
  <1>15. loads' = Append(p, v) /\ p \in Seq(InMemory \ {w})
    BY <1>12, <1>13, <1>14 DEF Lists
  <1> HIDE DEF n, p, h1
  <1>16. /\ Len(loads') = n /\ loads'[n] = v
         /\ \A i \in 1 .. n - 1 : loads'[i] = loads[i + 1]
    BY <1>7, <1>8, <1>9, <1>14, <1>15
  <1>17. coremap'[h] = v /\ \A g \in Frame : g # h => coremap'[g] = coremap[g]
    BY <1>2, <1>4, <1>6 DEF OrderInv, StateInv, TypeOK
  <1>18. ASSUME NEW i \in 1 .. n PROVE coremap'[(h1 + i - 1) % memsize] = loads'[i]
    <2>1. (h1 + i - 1) % memsize = (h + i) % memsize
      <3>0. i \in Int /\ h \in Int /\ h1 \in Int /\ i - 1 \in 0 .. memsize - 1
        <4>1. h \in Int /\ h1 \in Int
          BY ONLY <1>6, <1>7, <1>10
        <4>2. i \in 1 .. memsize
          BY <1>9
        <4> QED
          BY ONLY <4>1, <4>2, <1>7
      <3>1. i - 1 \in 0 .. memsize - 1 /\ h1 + (i - 1) = h1 + i - 1 /\ h + (i - 1) + 1 = h + i
        BY ONLY <3>0
      <3>2. (h1 + (i - 1)) % memsize = (h + (i - 1) + 1) % memsize
        BY <1>10, <3>1
      <3> QED
        BY <3>1, <3>2
    <2>2. CASE i = n
      BY <1>9, <1>10, <1>16, <1>17, <2>1, <2>2
    <2>3. CASE i # n
      <3>1. i \in 1 .. memsize - 1 /\ i + 1 \in 1 .. memsize /\ h + (i + 1) - 1 = h + i
        BY <1>6, <1>7, <1>9, <2>3
      <3>2. coremap[(h + i) % memsize] = loads[i + 1]
        BY <1>9, <3>1
      <3> QED
        BY <1>9, <1>10, <1>16, <1>17, <2>1, <3>1, <3>2
    <2> QED
      BY <2>2, <2>3
  <1>19. FreeFrames' = {}
    <2>1. \A g \in Frame : coremap'[g] # Unused
      BY <1>3, <1>17, PageAssumption DEF FreeFrames
    <2> QED
      BY <2>1 DEF FreeFrames
  <1> QED
    BY <1>5, <1>7, <1>9, <1>16, <1>18, <1>19 DEF FifoInv
-----------------------------------------------------------------------------
LEMMA HAccessInv ==
  ASSUME OrderInv, NEW v \in Page, NEW type \in Type, HAccess(v, type)
  PROVE  OrderInv'
  <1>1. Access(v, type)
    BY DEF HAccess
  <1>2. StateInv'
    BY <1>1, HitInv, MissFreeInv, MissEvictInv DEF OrderInv, Access
  <1>3. CASE Hit(v, type)
    BY <1>2, <1>3, HitHistory, HitLru, HitFifo DEF OrderInv
  <1>4. CASE MissFree(v, type)
    BY <1>2, <1>4, MissFreeHistory, MissFreeLru, MissFreeFifo DEF OrderInv
  <1>5. CASE MissEvict(v, type)
    <2>1. PICK r, f, w, o : EvictEffect(v, type, r, f, w, o)
      BY <1>5, MissEvictEffect DEF OrderInv
    <2>2. HistoryInv'
      BY <2>1, MissEvictHistory DEF OrderInv
    <2> QED
      BY <1>2, <1>5, <2>2, MissEvictLru, MissEvictFifo DEF OrderInv
  <1> QED
    BY <1>1, <1>3, <1>4, <1>5 DEF Access

THEOREM OrderInvariance == HSpec => []OrderInv
  <1>1. HInit => OrderInv
    <2> SUFFICES ASSUME HInit PROVE OrderInv
      OBVIOUS
    <2>1. StateInv
      BY InitInv DEF HInit
    <2>2. InMemory = {}
      BY DEF HInit, Init, InMemory, NoEntry
    <2>3. loads = <<>> /\ uses = <<>>
      BY DEF HInit
    <2>4. HistoryInv
      BY <2>2, <2>3 DEF HistoryInv, Lists
    <2>5. LruInv
      BY <2>3 DEF HInit, Init, LruInv, policy0
    <2>6. FifoInv
      BY <2>3, MemsizeAssumption DEF HInit, Init, FifoInv, policy0
    <2> QED
      BY <2>1, <2>4, <2>5, <2>6 DEF OrderInv
  <1>2. OrderInv /\ [HNext]_hvars => OrderInv'
    <2> SUFFICES ASSUME OrderInv, [HNext]_hvars PROVE OrderInv'
      OBVIOUS
    <2>1. ASSUME NEW v \in Page, NEW type \in Type, HAccess(v, type) PROVE OrderInv'
      BY <2>1, HAccessInv
    <2>2. CASE /\ UNCHANGED <<alg, tableVars, memVars, swapVars, policy, counters, histories>>
               /\ [Next]_vars
      <3>1. StateInv'
        BY <2>2, NextInv DEF OrderInv
      <3> QED
        BY <2>2, <3>1 DEF OrderInv, HistoryInv, LruInv, FifoInv, InMemory, FreeFrames, tableVars,
                          memVars, histories
    <2> QED
      BY <2>1, <2>2 DEF HNext, Next, SwapFull, SystemError, Exits, Done, Terminated, hvars, vars
  <1> QED
    BY <1>1, <1>2, PTL DEF HSpec

(* The list of lru.c is always in the order of the last uses, and its bit  *)
(* map holds the frames in the list: neither assertion can fail.           *)
THEOREM LruInOrderCorrect == HSpec => []LruInOrder
  <1>1. ASSUME OrderInv PROVE LruInOrder
    <2> SUFFICES ASSUME alg = "lru"
                 PROVE  /\ policy.lru = [i \in 1 .. Len(uses) |-> pgtbl[uses[i]].frame]
                        /\ policy.referenced = {f \in Frame : coremap[f] # Unused}
      BY DEF LruInOrder
    <2>1. policy.lru \in Seq(Frame)
      BY <1>1, PolicyFields DEF OrderInv, StateInv, TypeOK, Policy
    <2>2. /\ Len(policy.lru) = Len(uses)
          /\ \A i \in 1 .. Len(uses) : policy.lru[i] = pgtbl[uses[i]].frame
          /\ policy.referenced = {f \in Frame : coremap[f] # Unused}
      BY <1>1 DEF OrderInv, LruInv
    <2>3. policy.lru = [i \in 1 .. Len(uses) |-> policy.lru[i]]
      BY <2>1, <2>2
    <2> QED
      BY <2>2, <2>3
  <1> QED
    BY <1>1, OrderInvariance, PTL

(* Once memory is full, the head of fifo.c goes through the frames in the  *)
(* order in which their pages were loaded.                                 *)
THEOREM FifoInOrderCorrect == HSpec => []FifoInOrder
  <1>1. ASSUME OrderInv PROVE FifoInOrder
    <2> SUFFICES ASSUME alg = "fifo", FreeFrames = {}, NEW i \in 1 .. memsize
                 PROVE  coremap[(policy.head_of_fifo + i - 1) % memsize] = loads[i]
      BY DEF FifoInOrder
    <2>1. /\ Len(loads) <= memsize
          /\ \A j \in 1 .. Len(loads) : coremap[(policy.head_of_fifo + j - 1) % memsize] = loads[j]
          /\ Len(loads) < memsize => \A g \in Frame : g >= Len(loads) => coremap[g] = Unused
      BY <1>1 DEF OrderInv, FifoInv
    <2>2. loads \in Seq(InMemory)
      BY <1>1 DEF OrderInv, HistoryInv, Lists
    <2>3. Len(loads) \in Nat /\ memsize \in Nat
      BY <2>2, MemsizeAssumption
    <2>4. Len(loads) < memsize => Len(loads) \in Frame
      BY <2>3 DEF Frame
    <2>5. Len(loads) = memsize
      BY <2>1, <2>3, <2>4 DEF FreeFrames
    <2> QED
      BY <2>1, <2>5
  <1> QED
    BY <1>1, OrderInvariance, PTL
=============================================================================
