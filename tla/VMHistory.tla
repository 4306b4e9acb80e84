----------------------------- MODULE VMHistory -----------------------------
(***************************************************************************)
(* VirtualMemory with history variables, which the code does not have:     *)
(* what the order of evictions is judged by.                               *)
(***************************************************************************)
EXTENDS VirtualMemory

VARIABLES loads,  \* the pages in memory, the earliest loaded first
          uses,   \* the pages in memory, the least recently used first
          kept    \* for a page not in memory: those that stayed when it was
                  \* evicted and have not been used since

histories == <<loads, uses, kept>>
hvars == <<vars, histories>>

InMemory == {v \in Page : pgtbl[v].valid}

HInit ==
  /\ Init
  /\ loads = <<>> /\ uses = <<>>
  /\ kept = [v \in Page |-> {}]

(* list without the page that the step evicts, if it does                  *)
Staying(list) ==
  IF InMemory \subseteq InMemory' THEN list
  ELSE RemoveFirst(list, CHOOSE u \in InMemory : u \notin InMemory')

HAccess(v, type) ==
  /\ Access(v, type)
  /\ loads' = IF v \in InMemory THEN loads ELSE Append(Staying(loads), v)
  /\ uses' = Append(IF v \in InMemory THEN RemoveFirst(uses, v) ELSE Staying(uses), v)
  /\ kept' = [u \in Page |-> IF u \in InMemory \ InMemory' THEN InMemory \ {u}
                             ELSE kept[u] \ {v}]

HNext ==
  \/ \E v \in Page, type \in Type : HAccess(v, type)
  \/ \E v \in Page : (SwapFull(v) \/ SystemError(v)) /\ UNCHANGED histories
  \/ (Done \/ Terminated) /\ UNCHANGED histories

HSpec == HInit /\ [][HNext]_hvars
=============================================================================
