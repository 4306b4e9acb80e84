------------------------- MODULE InterceptorProofs -------------------------
(***************************************************************************)
(* Proofs for the interceptor, for any processes and system calls.         *)
(*                                                                         *)
(* The two locks are the argument: who is in a critical section holds the  *)
(* lock (Locked), so the facts checked on entry (Checked) still hold, and  *)
(* only the holder of sys_call_table_lock can leave the two tables         *)
(* different (Pending).                                                    *)
(***************************************************************************)
EXTENDS InterceptorProperties, ProofLemmas, FiniteSetTheorems

InMySyscall == {"perm", "lock", "intercept", "publish", "write", "release", "protect",
                "monitor"}
InDelPid == {"dec", "test", "reset"}
TableSection == {"intercept", "release", "monitor"}
KernelSection == {"publish", "write", "protect"}

(* The request in hand, at every point of my_syscall; the list in hand, in *)
(* del_pid.                                                                *)
RequestOK ==
  \A p \in Pid :
    /\ pc[p] \in InDelPid => s_del[p] # {}
    /\ pc[p] \in InMySyscall => req[p] \in Request
    /\ pc[p] = "monitor" => IsMonitorCmd(req[p])

Locked ==
  \A p \in Pid :
    /\ pc[p] \in TableSection => my_table_lock = p
    /\ pc[p] \in KernelSection => sys_call_table_lock = p

(* What was tested, or written, still holds at the later points.           *)
Checked ==
  \A p \in Pid :
    /\ pc[p] = "intercept" => ~intercepted[req[p].syscall]
    /\ pc[p] \in {"release", "monitor"} => intercepted[req[p].syscall]
    /\ pc[p] \in {"publish", "write"} => intercepted[req[p].syscall]
    /\ pc[p] = "write" => writable

Pending ==
  \A s \in Syscall :
    (intercepted[s] <=> sys_call_table[s] = "interceptor")
      \/ \E p \in Pid : pc[p] \in {"publish", "write"} /\ req[p].syscall = s

ReadOnly == writable => sys_call_table_lock # Free

TypeInv == TypeOK /\ RequestOK
HookInv == Locked /\ Checked /\ Pending /\ ReadOnly /\ OriginalKept
-----------------------------------------------------------------------------
(* Current is defined.                                                     *)
LEMMA CurrentVisited ==
  ASSUME TypeOK, NEW p \in Pid, s_del[p] # {}
  PROVE  Current(p) \in s_del[p] /\ Current(p) \in Syscall
  <1>1. s_del[p] \subseteq Syscall
    BY DEF TypeOK
  <1>2. s_del[p] \subseteq Nat
    BY <1>1, SyscallAssumption
  <1>3. \E s \in s_del[p] : \A t \in s_del[p] : s <= t
    BY <1>2, Smallest
  <1>4. Current(p) \in s_del[p]
    BY <1>3, Zenon DEF Current
  <1> QED
    BY <1>1, <1>4

LEMMA InitType == Init => TypeInv
  <1> SUFFICES ASSUME Init PROVE TypeInv
    OBVIOUS
  <1>1. TypeOK
    <2>1. /\ sys_call_table \in [Syscall -> Handler] /\ f \in [Syscall -> Handler]
          /\ pc \in [Pid -> Pc]
      BY DEF Init, Handler, Pc
    <2>2. req \in [Pid -> Request \cup Call \cup {NoRequest}]
      BY DEF Init
    <2>3. my_list \in [Syscall -> SUBSET Pid] /\ s_del \in [Pid -> SUBSET Syscall]
      BY DEF Init
    <2>4. /\ monitored \in [Syscall -> 0 .. 2] /\ listcount \in [Syscall -> Int]
          /\ count \in [Pid -> Int]
      BY DEF Init
    <2>5. intercepted \in [Syscall -> BOOLEAN] /\ writable \in BOOLEAN
      BY Zenon DEF Init
    <2>6. /\ my_table_lock \in Pid \cup {Free}
          /\ sys_call_table_lock \in Pid \cup {Free}
          /\ alive \subseteq Pid
      BY DEF Init
    <2> QED
      BY <2>1, <2>2, <2>3, <2>4, <2>5, <2>6 DEF TypeOK
  <1>2. RequestOK
    BY DEF Init, RequestOK, InMySyscall, InDelPid
  <1> QED
    BY <1>1, <1>2 DEF TypeInv

(* Each action keeps the types and leaves a request where my_syscall needs *)
(* one.                                                                    *)
LEMMA NextType == ASSUME TypeInv, [Next]_vars PROVE TypeInv'
  <1> USE DEF TypeInv, TypeOK, RequestOK, InMySyscall, InDelPid, Pc, Handler, Goto, Return
  <1>0. CASE UNCHANGED vars
    BY <1>0 DEF vars, monitorVars, hookVars, lockVars, delVars, IsMonitorCmd
  <1> SUFFICES ASSUME NEW p \in Pid,
                      \/ \E r \in Request : Invoke(p, r)
                      \/ \E s \in Syscall : Syscalls(p, s)
                      \/ Running(p) \/ Exiting(p)
               PROVE  TypeInv'
    BY <1>0 DEF Next
  <1> USE DEF monitorVars, hookVars, lockVars, delVars
  <1>1. ASSUME NEW r \in Request, Invoke(p, r) PROVE TypeInv'
    BY <1>1 DEF Invoke, IsMonitorCmd
  <1>2. ASSUME NEW s \in Syscall, Syscalls(p, s) PROVE TypeInv'
    BY <1>2 DEF Syscalls, Call, IsMonitorCmd
  <1>3. ASSUME NullTask(p, req[p]), CheckPermission(p) PROVE TypeInv'
    BY <1>3 DEF CheckPermission, Oops, IsMonitorCmd
  <1>4. ASSUME ~NullTask(p, req[p]), CheckPermission(p) PROVE TypeInv'
    BY <1>4 DEF CheckPermission, IsMonitorCmd
  <1>5. CASE LockAndCheck(p)
    BY <1>5 DEF LockAndCheck, Target, IsMonitorCmd, Request, Cmd
  <1>6. CASE InterceptSave(p)
    BY <1>6 DEF InterceptSave, IsMonitorCmd, Request
  <1>7. CASE SetWritable(p)
    BY <1>7 DEF SetWritable, IsMonitorCmd
  <1>8. CASE Publish(p)
    BY <1>8 DEF Publish, IsMonitorCmd, Request
  <1>9. CASE Protect(p)
    BY <1>9 DEF Protect, IsMonitorCmd
  <1>10. CASE Release(p)
    BY <1>10 DEF Release, IsMonitorCmd, Request
  <1>11. CASE Monitor(p)
    BY <1>11 DEF Monitor, IsMonitorCmd, Request, Start, Stop, AddPid, DelPid, DestroyList
  <1>12. CASE NoMemory(p)
    BY <1>12 DEF NoMemory, IsMonitorCmd
  <1>13. CASE InterceptorLogs(p)
    BY <1>13 DEF InterceptorLogs, IsMonitorCmd
  <1>14. CASE CallsOriginal(p)
    BY <1>14 DEF CallsOriginal, IsMonitorCmd
  <1>15. CASE ExitGroup(p)
    BY <1>15 DEF ExitGroup, IsMonitorCmd
  <1>16. CASE DelUnlink(p)
    <2> PICK c \in Syscall : c = Current(p)
      BY <1>16, CurrentVisited DEF DelUnlink
    <2>1. /\ my_list' = my_list \/ my_list' = [my_list EXCEPT ![c] = @ \ {p}]
          /\ count' = count \/ count' = [count EXCEPT ![p] = listcount[c]]
      BY <1>16 DEF DelUnlink
    <2>2. \/ pc' = [pc EXCEPT ![p] = "dec"] /\ s_del' = s_del
          \/ pc' = [pc EXCEPT ![p] = "del"] /\ s_del' = [s_del EXCEPT ![p] = @ \ {c}]
      BY <1>16 DEF DelUnlink, NextList
    <2>3. /\ s_del[p] # {}
          /\ UNCHANGED <<monitored, listcount, hookVars, lockVars, alive, req>>
      BY <1>16 DEF DelUnlink
    <2> QED
      BY <2>1, <2>2, <2>3 DEF IsMonitorCmd
  <1>17. CASE DelCount(p)
    <2> PICK c \in Syscall : c = Current(p)
      BY <1>17, CurrentVisited DEF DelCount
    <2>1. /\ pc[p] = "dec"
          /\ listcount' = [listcount EXCEPT ![c] = count[p] - 1]
          /\ count' = [count EXCEPT ![p] = 0]
          /\ pc' = [pc EXCEPT ![p] = "test"]
          /\ UNCHANGED <<monitored, my_list, hookVars, lockVars, alive, req, s_del>>
      BY <1>17 DEF DelCount
    <2> QED
      BY <2>1 DEF IsMonitorCmd
  <1>18. CASE DelTest(p)
    BY <1>18 DEF DelTest, NextList, IsMonitorCmd
  <1>19. CASE DelReset(p)
    <2> PICK c \in Syscall : c = Current(p)
      BY <1>19, CurrentVisited DEF DelReset
    <2>1. /\ monitored' = [monitored EXCEPT ![c] = 0]
          /\ pc' = [pc EXCEPT ![p] = "del"]
          /\ s_del' = [s_del EXCEPT ![p] = @ \ {c}]
          /\ UNCHANGED <<listcount, my_list, hookVars, lockVars, alive, req, count>>
      BY <1>19 DEF DelReset, NextList
    <2> QED
      BY <2>1 DEF IsMonitorCmd
  <1>20. CASE Dies(p)
    BY <1>20 DEF Dies, IsMonitorCmd
  <1> QED
    BY <1>1, <1>2, <1>3, <1>4, <1>5, <1>6, <1>7, <1>8, <1>9, <1>10, <1>11, <1>12, <1>13,
       <1>14, <1>15, <1>16, <1>17, <1>18, <1>19, <1>20
       DEF Running, MySyscall, Exiting

THEOREM TypeInvariance == Spec => []TypeInv
  <1>1. TypeInv /\ [Next]_vars => TypeInv'
    BY NextType
  <1> QED
    BY InitType, <1>1, PTL DEF Spec

(* The variables are always well typed.                                    *)
THEOREM TypeCorrect == Spec => []TypeOK
  <1>1. TypeInv => TypeOK
    BY DEF TypeInv
  <1> QED
    BY TypeInvariance, <1>1, PTL
-----------------------------------------------------------------------------
LEMMA InitHook == Init => HookInv
  BY DEF Init, HookInv, Locked, Checked, Pending, ReadOnly, OriginalKept, TableSection,
         KernelSection

(* What the steps of one process p leave alone: everything about the other *)
(* processes, and the hooks when p is not at one of five points.           *)
LEMMA NextHook == ASSUME TypeInv, HookInv, [Next]_vars PROVE HookInv'
  <1> USE DEF TypeInv, TypeOK, RequestOK, InMySyscall, Pc, Handler, Goto, Return,
              HookInv, Locked, Checked, Pending, ReadOnly, OriginalKept, TableSection,
              KernelSection, hookVars, lockVars
  <1> USE PidAssumption
  <1>0. CASE UNCHANGED vars
    BY <1>0 DEF vars
  <1> SUFFICES ASSUME NEW p \in Pid,
                      \/ \E r \in Request : Invoke(p, r)
                      \/ \E s \in Syscall : Syscalls(p, s)
                      \/ Running(p) \/ Exiting(p)
               PROVE  HookInv'
    BY <1>0 DEF Next
  <1>1. ASSUME NEW r \in Request, Invoke(p, r) PROVE HookInv'
    BY <1>1 DEF Invoke
  <1>2. ASSUME NEW s \in Syscall, Syscalls(p, s) PROVE HookInv'
    BY <1>2 DEF Syscalls
  <1>3. ASSUME NullTask(p, req[p]), CheckPermission(p) PROVE HookInv'
    BY <1>3 DEF CheckPermission, Oops
  <1>4. ASSUME ~NullTask(p, req[p]), CheckPermission(p) PROVE HookInv'
    BY <1>4 DEF CheckPermission
  <1>5. CASE LockAndCheck(p)
    BY <1>5 DEF LockAndCheck, Target, Refused, NotIntercepted, AlreadyIntercepted, Request, Cmd
  <1>6. CASE InterceptSave(p)
    BY <1>6 DEF InterceptSave, Request
  <1>7. CASE SetWritable(p)
    BY <1>7 DEF SetWritable
  <1>8. CASE Publish(p)
    BY <1>8 DEF Publish, Request
  <1>9. CASE Protect(p)
    BY <1>9 DEF Protect
  <1>10. CASE Release(p)
    BY <1>10 DEF Release, Request
  <1>11. CASE Monitor(p)
    BY <1>11 DEF Monitor
  <1>12. CASE NoMemory(p)
    BY <1>12 DEF NoMemory
  <1>13. CASE InterceptorLogs(p)
    BY <1>13 DEF InterceptorLogs
  <1>14. CASE CallsOriginal(p)
    BY <1>14 DEF CallsOriginal
  <1>15. CASE ExitGroup(p)
    BY <1>15 DEF ExitGroup
  <1>16. CASE DelUnlink(p)
    BY <1>16 DEF DelUnlink, NextList
  <1>17. CASE DelCount(p)
    BY <1>17 DEF DelCount
  <1>18. CASE DelTest(p)
    BY <1>18 DEF DelTest, NextList
  <1>19. CASE DelReset(p)
    BY <1>19 DEF DelReset, NextList
  <1>20. CASE Dies(p)
    BY <1>20 DEF Dies
  <1> QED
    BY <1>1, <1>2, <1>3, <1>4, <1>5, <1>6, <1>7, <1>8, <1>9, <1>10, <1>11, <1>12, <1>13,
       <1>14, <1>15, <1>16, <1>17, <1>18, <1>19, <1>20
       DEF Running, MySyscall, Exiting

THEOREM HookInvariance == Spec => [](TypeInv /\ HookInv)
  <1>1. Init => TypeInv /\ HookInv
    BY InitType, InitHook
  <1>2. TypeInv /\ HookInv /\ [Next]_vars => (TypeInv /\ HookInv)'
    BY NextType, NextHook
  <1> QED
    BY <1>1, <1>2, PTL DEF Spec

(* Whenever sys_call_table_lock is free, a system call is intercepted in   *)
(* the module's table if and only if it is in the kernel's.                *)
THEOREM TablesAgreeCorrect == Spec => []TablesAgree
  <1>1. TypeInv /\ HookInv => TablesAgree
    BY PidAssumption DEF HookInv, Locked, Pending, KernelSection, TablesAgree
  <1> QED
    BY HookInvariance, <1>1, PTL

(* A call of an intercepted system call misses interceptor() only while    *)
(* one INTERCEPT request holds sys_call_table_lock and has not written the *)
(* kernel's table.                                                         *)
THEOREM MissedOnlyDuringInterceptCorrect == Spec => []MissedOnlyDuringIntercept
  <1>1. TypeInv /\ HookInv => MissedOnlyDuringIntercept
    BY DEF HookInv, Locked, Pending, KernelSection, MissedOnlyDuringIntercept
  <1> QED
    BY HookInvariance, <1>1, PTL

(* interceptor() always finds the original system call in table[].f.       *)
THEOREM OriginalKeptCorrect == Spec => []OriginalKept
  <1>1. HookInv => OriginalKept
    BY DEF HookInv
  <1> QED
    BY HookInvariance, <1>1, PTL

(* sys_call_table changes only while it is writable, and it is writable    *)
(* only under its lock.                                                    *)
THEOREM WriteProtectedCorrect == Spec => WriteProtected
  <1> DEFINE A == /\ sys_call_table' # sys_call_table => writable \/ writable'
                  /\ writable' => sys_call_table_lock' # Free
  <1>1. TypeInv /\ HookInv /\ [Next]_vars => [A]_vars
    <2> SUFFICES ASSUME TypeInv, HookInv, [Next]_vars, vars' # vars PROVE A
      OBVIOUS
    <2>1. writable' => sys_call_table_lock' # Free
      BY NextHook DEF HookInv, ReadOnly
    <2>2. ASSUME sys_call_table' # sys_call_table PROVE writable \/ writable'
      <3>1. PICK p \in Pid : Publish(p) \/ Release(p)
        BY <2>2 DEF Next, vars, monitorVars, hookVars, lockVars, delVars, Invoke, Syscalls, Oops,
           Running, MySyscall, Exiting, CheckPermission, LockAndCheck, InterceptSave,
           SetWritable, Protect, Monitor, NoMemory, InterceptorLogs, CallsOriginal, ExitGroup,
           DelUnlink, DelCount, DelTest, DelReset, Dies
      <3> QED
        BY <3>1 DEF Publish, Release, HookInv, Checked
    <2> QED
      BY <2>1, <2>2
  <1> QED
    BY HookInvariance, <1>1, PTL DEF Spec, WriteProtected
-----------------------------------------------------------------------------
(* Until a process exits, the counts and flags are right at every point,   *)
(* and what was tested of the list on entry still holds at the change.     *)
CountOK(s) ==
  /\ listcount[s] = Cardinality(my_list[s])
  /\ monitored[s] = 0 => my_list[s] = {}
  /\ monitored[s] = 1 => my_list[s] # {}

Tested(p) == pc[p] = "monitor" => ~StopInvalid(req[p]) /\ ~StartRefused(req[p])

CountInv == NoneExits => /\ \A s \in Syscall : CountOK(s)
                         /\ \A p \in Pid : Tested(p)

(* A process that has begun to exit never comes back.                      *)
LEMMA ExitIsFinal == ASSUME TypeInv, [Next]_vars, NoneExits' PROVE NoneExits
  <1> SUFFICES ASSUME NEW q \in Pid, pc[q] \in ExitSteps PROVE pc'[q] \in ExitSteps
    BY DEF NoneExits
  <1> USE DEF TypeInv, TypeOK, ExitSteps, Goto, Return
  <1>1. CASE UNCHANGED vars
    BY <1>1 DEF vars
  <1>2. ASSUME NEW p \in Pid,
               \/ \E r \in Request : Invoke(p, r)
               \/ \E s \in Syscall : Syscalls(p, s)
               \/ Running(p)
        PROVE  pc'[q] = pc[q]
    BY <1>2 DEF Invoke, Syscalls, Running, MySyscall, CheckPermission, Oops, LockAndCheck,
       InterceptSave, SetWritable, Publish, Protect, Release, Monitor, NoMemory,
       InterceptorLogs, CallsOriginal
  <1>3. ASSUME NEW p \in Pid, Exiting(p) PROVE pc'[q] \in ExitSteps
    BY <1>3 DEF Exiting, ExitGroup, DelUnlink, DelCount, DelTest, DelReset, Dies, NextList
  <1> QED
    BY <1>1, <1>2, <1>3 DEF Next

LEMMA ListCard ==
  ASSUME TypeOK, NEW s \in Syscall, NEW q \in Pid
  PROVE  /\ IsFiniteSet(my_list[s])
         /\ q \notin my_list[s] => Cardinality(my_list[s] \cup {q}) = Cardinality(my_list[s]) + 1
         /\ q \in my_list[s] => Cardinality(my_list[s] \ {q}) = Cardinality(my_list[s]) - 1
         /\ Cardinality(my_list[s]) \in Nat
         /\ Cardinality(my_list[s] \ {q}) = 0 <=> my_list[s] \ {q} = {}
  <1>1. my_list[s] \in SUBSET Pid /\ IsFiniteSet(Pid)
    BY PidAssumption DEF TypeOK
  <1>2. IsFiniteSet(my_list[s]) /\ IsFiniteSet(my_list[s] \ {q})
    BY <1>1, FS_Subset
  <1> QED
    BY <1>2, FS_AddElement, FS_RemoveElement, FS_EmptySet, FS_CardinalityType

(* A START or STOP request keeps the count and the flag of its list right. *)
LEMMA MonitorCounts ==
  ASSUME TypeInv, NoneExits, CountInv, NEW p \in Pid, Monitor(p), NEW t \in Syscall
  PROVE  CountOK(t)'
  <1> DEFINE s == req[p].syscall
             q == req[p].pid
  <1>1. /\ s \in Syscall /\ q \in Pid \cup {All} /\ req[p].cmd \in {"START", "STOP"}
        /\ ~StopInvalid(req[p]) /\ ~StartRefused(req[p])
    BY DEF Monitor, TypeInv, RequestOK, InMySyscall, Request, IsMonitorCmd, CountInv, Tested
  <1>2. CountOK(s) /\ CountOK(t)
    BY <1>1 DEF CountInv
  <1>3. monitored[s] \in 0 .. 2 /\ listcount[s] \in Int
    BY <1>1 DEF TypeInv, TypeOK
  <1>4. \/ DestroyList(s, 2) \/ DestroyList(s, 0)
        \/ q \in Pid /\ q \notin my_list[s] /\ (AddPid(s, q, 1) \/ AddPid(s, q, 2))
        \/ q \in Pid /\ q \in my_list[s] /\ monitored[s] # 2 /\ DelPid(s, q)
    BY <1>1 DEF Monitor, Start, Stop, StopInvalid, StartRefused, Listed
  <1>5. CASE t # s
    <2>1. listcount'[t] = listcount[t] /\ monitored'[t] = monitored[t] /\ my_list'[t] = my_list[t]
      BY <1>1, <1>4, <1>5 DEF DestroyList, AddPid, DelPid, monitorVars, TypeInv, TypeOK
    <2> QED
      BY <1>2, <2>1 DEF CountOK
  <1>6. CASE t = s /\ (DestroyList(s, 2) \/ DestroyList(s, 0))
    <2>1. listcount'[s] = 0 /\ my_list'[s] = {} /\ monitored'[s] # 1
      BY <1>1, <1>6 DEF DestroyList, TypeInv, TypeOK
    <2> QED
      BY <1>6, <2>1, FS_EmptySet DEF CountOK
  <1>7. CASE t = s /\ q \in Pid /\ q \notin my_list[s] /\ (AddPid(s, q, 1) \/ AddPid(s, q, 2))
    <2>1. /\ listcount'[s] = listcount[s] + 1 /\ my_list'[s] = my_list[s] \cup {q}
          /\ monitored'[s] # 0
      BY <1>1, <1>7 DEF AddPid, TypeInv, TypeOK
    <2>2. Cardinality(my_list[s] \cup {q}) = Cardinality(my_list[s]) + 1
      BY <1>1, <1>7, ListCard DEF TypeInv
    <2> QED
      BY <1>2, <1>7, <2>1, <2>2 DEF CountOK
  <1>8. CASE t = s /\ q \in Pid /\ q \in my_list[s] /\ monitored[s] # 2 /\ DelPid(s, q)
    <2>1. monitored[s] = 1 /\ listcount[s] = Cardinality(my_list[s])
      BY <1>2, <1>3, <1>8 DEF CountOK
    <2>2. /\ listcount'[s] = listcount[s] - 1 /\ my_list'[s] = my_list[s] \ {q}
          /\ monitored'[s] = IF listcount[s] = 1 THEN 0 ELSE 1
      BY <1>1, <1>8, <2>1 DEF DelPid, Listed, TypeInv, TypeOK
    <2>3. /\ Cardinality(my_list[s] \ {q}) = Cardinality(my_list[s]) - 1
          /\ Cardinality(my_list[s]) \in Nat
          /\ Cardinality(my_list[s] \ {q}) = 0 <=> my_list[s] \ {q} = {}
      BY <1>1, <1>8, ListCard DEF TypeInv
    <2> HIDE DEF s, q
    <2> QED
      BY <1>8, <2>1, <2>2, <2>3 DEF CountOK
  <1> QED
    BY <1>4, <1>5, <1>6, <1>7, <1>8

LEMMA NextCount == ASSUME TypeInv, HookInv, CountInv, [Next]_vars PROVE CountInv'
  <1> SUFFICES ASSUME NoneExits, NoneExits'
               PROVE  /\ \A s \in Syscall : CountOK(s)'
                      /\ \A p \in Pid : Tested(p)'
    BY ExitIsFinal DEF CountInv
  <1>0. (\A s \in Syscall : CountOK(s)) /\ \A p \in Pid : Tested(p)
    BY DEF CountInv
  <1>1. ASSUME UNCHANGED monitorVars
        PROVE  /\ \A s \in Syscall : CountOK(s)'
               /\ \A p \in Pid : pc'[p] = pc[p] /\ req'[p] = req[p] => Tested(p)'
               /\ \A p \in Pid : pc'[p] # "monitor" => Tested(p)'
    BY <1>0, <1>1 DEF monitorVars, CountOK, Tested, StopInvalid, StartRefused, Listed
  <1>2. CASE UNCHANGED vars
    BY <1>1, <1>2 DEF vars
  <1>3. ASSUME NEW p \in Pid, Exiting(p) PROVE FALSE
    BY <1>3 DEF Exiting, ExitGroup, DelUnlink, DelCount, DelTest, DelReset, Dies, NoneExits,
       ExitSteps, TypeInv, TypeOK, Goto
  <1>4. ASSUME NEW p \in Pid,
               \/ \E r \in Request : Invoke(p, r)
               \/ \E s \in Syscall : Syscalls(p, s)
               \/ CheckPermission(p) \/ InterceptSave(p) \/ SetWritable(p) \/ Publish(p)
               \/ Protect(p) \/ Release(p) \/ NoMemory(p) \/ InterceptorLogs(p)
               \/ CallsOriginal(p)
        PROVE  /\ UNCHANGED monitorVars
               /\ \A q \in Pid : (pc'[q] = pc[q] /\ req'[q] = req[q]) \/ pc'[q] # "monitor"
    BY <1>4 DEF Invoke, Syscalls, CheckPermission, Oops, InterceptSave, SetWritable, Publish,
       Protect, Release, NoMemory, InterceptorLogs, CallsOriginal, Goto, Return, TypeInv, TypeOK
  <1>5. ASSUME NEW p \in Pid, LockAndCheck(p)
        PROVE  /\ \A s \in Syscall : CountOK(s)'
               /\ \A q \in Pid : Tested(q)'
    <2>1. /\ UNCHANGED monitorVars
          /\ \A q \in Pid \ {p} : pc'[q] = pc[q] /\ req'[q] = req[q]
          /\ pc'[p] = "monitor" => ~Refused(req[p]) /\ req'[p] = req[p]
      BY <1>5 DEF LockAndCheck, Goto, Return, TypeInv, TypeOK
    <2>2. Tested(p)'
      BY <2>1 DEF Tested, Refused, StopInvalid, StartRefused, Listed, monitorVars
    <2> QED
      BY <1>1, <2>1, <2>2
  <1>6. ASSUME NEW p \in Pid, Monitor(p) PROVE \A q \in Pid : Tested(q)'
    <2>1. \A q \in Pid : pc[q] = "monitor" => q = p
      BY <1>6 DEF Monitor, HookInv, Locked, TableSection
    <2>2. \A q \in Pid : pc'[q] # "monitor"
      BY <1>6, <2>1 DEF Monitor, Goto, Return, TypeInv, TypeOK
    <2> QED
      BY <2>2 DEF Tested
  <1> QED
    BY <1>1, <1>2, <1>3, <1>4, <1>5, <1>6, MonitorCounts DEF Next, Running, MySyscall

(* Up to the first exit_group, listcount counts the list of every system   *)
(* call, and the flag tells an empty list from a non-empty one.            *)
THEOREM CountsAgreeCorrect == Spec => []CountsAgree
  <1>1. Init => CountInv
    BY FS_EmptySet DEF Init, CountInv, CountOK, Tested
  <1>2. TypeInv /\ HookInv /\ CountInv /\ [Next]_vars => CountInv'
    BY NextCount
  <1>3. CountInv => CountsAgree
    BY DEF CountInv, CountOK, CountsAgree
  <1> QED
    BY <1>1, <1>2, <1>3, HookInvariance, PTL DEF Spec
-----------------------------------------------------------------------------
(* Until a process exits, my_syscall implements atomic requests.          *)

Hooked == {s \in Syscall : intercepted[s]}
AllWatched == [s \in Syscall |-> Watched(s)]

(* A request on the list of s replaces the set of s in the abstraction.    *)
LEMMA OneSet ==
  ASSUME TypeOK, NEW s \in Syscall, Watched(s)' \in SUBSET Pid,
         \A t \in Syscall \ {s} : monitored'[t] = monitored[t] /\ my_list'[t] = my_list[t]
  PROVE  AllWatched' = [AllWatched EXCEPT ![s] = Watched(s)']
  BY DEF AllWatched, Watched

LEMMA MonitorRefines ==
  ASSUME TypeInv, HookInv, NEW p \in Pid, Monitor(p)
  PROVE  Abstract!Next \/ UNCHANGED <<Hooked, AllWatched>>
  <1>0. /\ req[p].syscall \in Syscall /\ req[p].pid \in Pid \cup {All}
        /\ intercepted[req[p].syscall]
        /\ pc[p] = "monitor" /\ req[p].cmd \in {"START", "STOP"}
    BY DEF Monitor, TypeInv, RequestOK, InMySyscall, Request, HookInv, Checked, IsMonitorCmd
  <1> PICK s \in Syscall, pid \in Pid \cup {All} : s = req[p].syscall /\ pid = req[p].pid
    BY <1>0
  <1>1. intercepted[s]
    BY <1>0
  <1>2. Hooked' = Hooked /\ s \in Hooked
    BY <1>1 DEF Monitor, hookVars, Hooked
  <1>3. Start(s, pid) \/ Stop(s, pid)
    BY <1>0 DEF Monitor
  <1> USE DEF TypeInv, TypeOK
  <1>4. \A t \in Syscall \ {s} : monitored'[t] = monitored[t] /\ my_list'[t] = my_list[t]
    BY <1>1, <1>3 DEF Start, Stop, AddPid, DelPid, DestroyList, monitorVars
  <1>5. \/ pid = All /\ Watched(s)' \in {Pid, {}}
        \/ pid \in Pid /\ Watched(s)' \in {Watched(s), Watched(s) \cup {pid}, Watched(s) \ {pid}}
    <2>1. CASE pid = All /\ DestroyList(s, 2)
      BY <2>1, <1>1 DEF DestroyList, Watched
    <2>2. CASE pid = All /\ DestroyList(s, 0)
      BY <2>2, <1>1 DEF DestroyList, Watched
    <2>3. CASE pid # All /\ monitored[s] # 2 /\ AddPid(s, pid, 1)
      BY <2>3, <1>1 DEF AddPid, Watched
    <2>4. CASE pid # All /\ monitored[s] = 2 /\ DelPid(s, pid)
      BY <2>4, <1>1 DEF DelPid, Watched, Listed, monitorVars
    <2>5. CASE pid # All /\ monitored[s] = 2 /\ AddPid(s, pid, 2)
      BY <2>5, <1>1 DEF AddPid, Watched
    <2>6. CASE pid # All /\ monitored[s] # 2 /\ DelPid(s, pid)
      BY <2>6, <1>1 DEF DelPid, Watched, Listed, monitorVars
    <2> QED
      BY <1>3, <2>1, <2>2, <2>3, <2>4, <2>5, <2>6 DEF Start, Stop
  <1>6. Watched(s) \subseteq Pid
    BY <1>1 DEF Watched
  <1>7. AllWatched' = [AllWatched EXCEPT ![s] = Watched(s)'] /\ AllWatched[s] = Watched(s)
    BY <1>1, <1>4, <1>5, <1>6, OneSet DEF AllWatched
  <1>8. CASE Watched(s)' = Watched(s)
    BY <1>1, <1>2, <1>7, <1>8 DEF AllWatched
  <1>9. CASE pid \in Pid /\ Watched(s)' = Watched(s) \cup {pid} /\ pid \notin Watched(s)
    <2>1. Abstract!Watch(s, pid)
      BY <1>2, <1>7, <1>9 DEF Abstract!Watch, Abstract!SetWatched, Hooked, AllWatched
    <2> QED
      BY <1>1, <1>9, <2>1 DEF Abstract!Next
  <1>10. CASE pid \in Pid /\ Watched(s)' = Watched(s) \ {pid} /\ pid \in Watched(s)
    <2>1. Abstract!Unwatch(s, pid)
      BY <1>2, <1>7, <1>10 DEF Abstract!Unwatch, Abstract!SetWatched, Hooked, AllWatched
    <2> QED
      BY <1>1, <1>10, <2>1 DEF Abstract!Next
  <1>11. CASE Watched(s)' = Pid
    <2>1. Abstract!WatchAll(s)
      BY <1>2, <1>7, <1>11 DEF Abstract!WatchAll, Abstract!SetWatched, Hooked, AllWatched
    <2> QED
      BY <1>1, <2>1 DEF Abstract!Next
  <1>12. CASE Watched(s)' = {}
    <2>1. Abstract!UnwatchAll(s)
      BY <1>2, <1>7, <1>12 DEF Abstract!UnwatchAll, Abstract!SetWatched, Hooked, AllWatched
    <2> QED
      BY <1>1, <2>1 DEF Abstract!Next
  <1>13. /\ pid \in Watched(s) => Watched(s) \cup {pid} = Watched(s)
         /\ pid \notin Watched(s) => Watched(s) \ {pid} = Watched(s)
    OBVIOUS
  <1> QED
    BY <1>5, <1>8, <1>9, <1>10, <1>11, <1>12, <1>13

LEMMA NextRefines ==
  ASSUME TypeInv, HookInv, NoneExits, NoneExits', [Next]_vars
  PROVE  Abstract!Next \/ UNCHANGED <<Hooked, AllWatched>>
  <1> USE DEF hookVars, monitorVars
  <1>0. ASSUME UNCHANGED <<intercepted, monitored, my_list>>
        PROVE  UNCHANGED <<Hooked, AllWatched>>
    BY <1>0 DEF Hooked, AllWatched, Watched
  <1>1. CASE UNCHANGED vars
    BY <1>0, <1>1 DEF vars
  <1>2. ASSUME NEW p \in Pid, Exiting(p) PROVE FALSE
    BY <1>2 DEF Exiting, ExitGroup, DelUnlink, DelCount, DelTest, DelReset, Dies, NoneExits,
       ExitSteps, TypeInv, TypeOK, Goto
  <1>3. ASSUME NEW p \in Pid, InterceptSave(p) PROVE Abstract!Next
    <2> PICK s \in Syscall : s = req[p].syscall
      BY <1>3 DEF InterceptSave, TypeInv, RequestOK, InMySyscall, Request
    <2>1. s \notin Hooked /\ Hooked' = Hooked \cup {s} /\ UNCHANGED AllWatched
      BY <1>3 DEF InterceptSave, Hooked, AllWatched, Watched, TypeInv, TypeOK, HookInv, Checked
    <2> QED
      BY <2>1 DEF Abstract!Next, Abstract!Intercept, Hooked, AllWatched
  <1>4. ASSUME NEW p \in Pid, Release(p) PROVE Abstract!Next
    <2> PICK s \in Syscall : s = req[p].syscall
      BY <1>4 DEF Release, TypeInv, RequestOK, InMySyscall, Request
    <2>1. s \in Hooked /\ Hooked' = Hooked \ {s} /\ UNCHANGED AllWatched
      BY <1>4 DEF Release, Hooked, AllWatched, Watched, TypeInv, TypeOK, HookInv, Checked
    <2> QED
      BY <2>1 DEF Abstract!Next, Abstract!Release, Hooked, AllWatched
  <1>5. ASSUME NEW p \in Pid,
               \/ \E r \in Request : Invoke(p, r)
               \/ \E s \in Syscall : Syscalls(p, s)
               \/ CheckPermission(p) \/ LockAndCheck(p) \/ SetWritable(p)
               \/ Publish(p) \/ Protect(p) \/ NoMemory(p) \/ InterceptorLogs(p)
               \/ CallsOriginal(p)
        PROVE  UNCHANGED <<intercepted, monitored, my_list>>
    BY <1>5 DEF Invoke, Syscalls, Oops, CheckPermission, LockAndCheck, SetWritable, Publish,
       Protect, NoMemory, InterceptorLogs, CallsOriginal
  <1> QED
    BY <1>0, <1>1, <1>2, <1>3, <1>4, <1>5, MonitorRefines DEF Next, Running, MySyscall

(* Whatever processes may exit: up to the first exit_group, every          *)
(* behaviour of the interceptor is one of the abstract specification.  A   *)
(* request takes effect at one instant, on the set of watched processes or *)
(* on the set of intercepted system calls.                                 *)
THEOREM ImplementsUntilExit == Spec => ImplementsMonitorSpec
  <1>1. Init => Abstract!Init
    BY DEF Init, Abstract!Init, Watched
  <1>2. TypeInv /\ HookInv /\ [Next]_vars
          => [NoneExits /\ NoneExits' => Abstract!Next]_(Abstract!vars)
    BY NextRefines DEF Abstract!vars, Hooked, AllWatched
  <1> QED
    BY <1>1, <1>2, HookInvariance, PTL DEF Spec, ImplementsMonitorSpec
=============================================================================
