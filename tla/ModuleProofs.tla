---------------------------- MODULE ModuleProofs ----------------------------
(***************************************************************************)
(* Proofs for loading and unloading the interceptor.                       *)
(*                                                                         *)
(* The table can become wrong only behind the loader's back, and then the  *)
(* call is one of strays: everything below is about the other calls.       *)
(***************************************************************************)
EXTENDS ModuleProperties, InterceptorProofs

Loading == {"hijack", "hijack exit", "seal", "init"}
LoaderHolds == {"hijack", "hijack exit", "seal", "restore custom", "restore exit", "reseal"}
Unloading == {"scan", "releasing", "restore", "restore custom", "restore exit", "reseal",
              "returned"}

(* The loader calls my_syscall only to release.                            *)
LoaderCalls ==
  /\ mpc # "releasing" => pc[Loader] = "idle"
  /\ pc[Loader] # "idle" => /\ pc[Loader] \in {"perm", "lock", "release", "protect"}
                            /\ req[Loader].cmd = "RELEASE"

LoaderLocked == mpc \in LoaderHolds => sys_call_table_lock = Loader /\ writable

(* What is still to be hijacked, or is restored already, is the kernel's.  *)
EntriesInv ==
  /\ mpc \in {"out", "hijack", "restore exit", "reseal", "returned"}
       => entry.custom = Originals.custom
  /\ mpc \in {"out", "hijack", "hijack exit", "reseal", "returned"}
       => entry.exit = Originals.exit

CheckedOrStray ==
  \A p \in Pid :
    /\ pc[p] = "intercept" => ~intercepted[req[p].syscall]
    /\ pc[p] \in {"release", "monitor"} => intercepted[req[p].syscall]
    /\ pc[p] \in {"publish", "write"}
         => intercepted[req[p].syscall] \/ req[p].syscall \in strays
    /\ pc[p] = "write" => writable

PendingOrStray ==
  \A s \in Syscall \ strays :
    (intercepted[s] <=> sys_call_table[s] = "interceptor")
      \/ \E p \in Pid : pc[p] \in {"publish", "write"} /\ req[p].syscall = s

(* Until the table is initialised only stray calls are in it.              *)
LoadInv == \A s \in Syscall \ strays : sys_call_table[s] = "original" /\ ~intercepted[s]

Releasing(s) == pc[Loader] \in {"perm", "lock", "release"} /\ req[Loader].syscall = s

(* What the loop of exit_function has passed is released, or about to be.  *)
UnloadInv == \A s \in InTable \ (strays \cup left) : ~intercepted[s] \/ Releasing(s)

OutInv ==
  /\ \A s \in Syscall : f[s] = "original" /\ ~intercepted[s]
  /\ \A s \in InTable \ strays : sys_call_table[s] = "original"

LoaderInv == ModuleTypeOK /\ left \subseteq InTable /\ LoaderCalls /\ LoaderLocked /\ EntriesInv

InUseInv ==
  /\ Locked /\ CheckedOrStray /\ PendingOrStray
  /\ \A s \in Syscall \ strays : f[s] = "original"
  /\ mpc \in Loading => LoadInv
  /\ mpc \in Unloading => UnloadInv

ModuleInv == /\ LoaderInv
             /\ mpc = "out" => OutInv
             /\ mpc # "out" => InUseInv
-----------------------------------------------------------------------------
LEMMA LoaderIs == Loader \in Pid /\ Loader \in Root /\ Loader \notin Mortal /\ Loader # Free
  BY LoaderAssumption, PidAssumption

LEMMA ScanStep ==
  ASSUME left \subseteq InTable, ScanAndRelease
  PROVE  \E y \in left :
           /\ intercepted[y]
           /\ \A t \in left : intercepted[t] => y <= t
           /\ left' = {s \in left : s > y}
           /\ pc' = [pc EXCEPT ![Loader] = "perm"]
           /\ req' = [req EXCEPT ![Loader] = [cmd |-> "RELEASE", syscall |-> y, pid |-> All]]
  <1> DEFINE y == CHOOSE s \in StillIntercepted : \A t \in StillIntercepted : s <= t
  <1>1. StillIntercepted # {} /\ StillIntercepted \subseteq Nat
    BY SyscallAssumption DEF ScanAndRelease, StillIntercepted, InTable
  <1>2. \E s \in StillIntercepted : \A t \in StillIntercepted : s <= t
    BY <1>1, Smallest
  <1>3. y \in StillIntercepted /\ \A t \in StillIntercepted : y <= t
    BY <1>2, Zenon
  <1>4. /\ left' = {s \in left : s > y}
        /\ pc' = [pc EXCEPT ![Loader] = "perm"]
        /\ req' = [req EXCEPT ![Loader] = [cmd |-> "RELEASE", syscall |-> y, pid |-> All]]
    BY DEF ScanAndRelease
  <1> HIDE DEF y
  <1> QED
    BY <1>3, <1>4 DEF StillIntercepted

LEMMA LoaderType ==
  ASSUME TypeInv, left \subseteq InTable, Load \/ BeginUnload \/ Unload PROVE TypeInv'
  <1> USE DEF TypeInv, TypeOK, RequestOK, InMySyscall, InDelPid, Pc, LoaderAt, TakeCallTable,
              SealCallTable, monitorVars, hookVars, lockVars, delVars
  <1> USE LoaderIs
  <1>1. CASE BeginLoad \/ BeginRestore \/ Seal \/ Reseal
    BY <1>1 DEF BeginLoad, BeginRestore, Seal, Reseal, IsMonitorCmd
  <1>2. CASE HijackCustom \/ HijackExit \/ RestoreCustom \/ RestoreExit \/ BeginUnload
             \/ Released \/ ScanEnds
    BY <1>2 DEF HijackCustom, HijackExit, RestoreCustom, RestoreExit, BeginUnload, Released,
       ScanEnds, vars, IsMonitorCmd
  <1>3. CASE InitTable
    <2>1. /\ intercepted' \in [Syscall -> BOOLEAN] /\ monitored' \in [Syscall -> 0 .. 2]
          /\ listcount' \in [Syscall -> Int] /\ my_list' \in [Syscall -> SUBSET Pid]
      BY <1>3 DEF InitTable
    <2> QED
      BY <1>3, <2>1 DEF InitTable, IsMonitorCmd
  <1>4. CASE ScanAndRelease
    <2>1. PICK y \in left :
            /\ pc' = [pc EXCEPT ![Loader] = "perm"]
            /\ req' = [req EXCEPT ![Loader] = [cmd |-> "RELEASE", syscall |-> y, pid |-> All]]
      BY <1>4, ScanStep
    <2>2. y \in Syscall /\ [cmd |-> "RELEASE", syscall |-> y, pid |-> All] \in Request
      BY DEF InTable, Request, Cmd
    <2>3. UNCHANGED <<monitorVars, hookVars, lockVars, alive, delVars>>
      BY <1>4 DEF ScanAndRelease
    <2> QED
      BY <2>1, <2>2, <2>3 DEF IsMonitorCmd
  <1>5. CASE FreeModule
    <2>1. /\ intercepted' \in [Syscall -> BOOLEAN] /\ monitored' \in [Syscall -> 0 .. 2]
          /\ listcount' \in [Syscall -> Int] /\ my_list' \in [Syscall -> SUBSET Pid]
          /\ f' \in [Syscall -> Handler]
      BY <1>5 DEF FreeModule, Handler
    <2> QED
      BY <1>5, <2>1 DEF FreeModule, IsMonitorCmd
  <1> QED
    BY <1>1, <1>2, <1>3, <1>4, <1>5 DEF Load, Unload

LEMMA ModuleType ==
  ASSUME TypeInv, left \subseteq InTable, [ModuleNext]_allVars PROVE TypeInv'
  <1>1. CASE Load \/ BeginUnload \/ Unload
    BY <1>1, LoaderType
  <1>2. CASE UNCHANGED allVars
    BY <1>2, NextType DEF allVars
  <1>3. ASSUME NEW p \in Pid, Enters(p) \/ Goes(p) PROVE TypeInv'
    <2>1. Next
      BY <1>3 DEF Enters, Goes, Next, Exiting
    <2> QED
      BY <2>1, NextType
  <1>4. ASSUME NEW p \in Pid, ExitUnhooked(p) \/ NullOops(p) \/ GoneOops(p) PROVE TypeInv'
    BY <1>4 DEF ExitUnhooked, NullOops, GoneOops, Killed, TypeInv, TypeOK, RequestOK,
       InMySyscall, InDelPid, Pc, Goto, monitorVars, hookVars, lockVars, delVars, IsMonitorCmd
  <1> QED
    BY <1>1, <1>2, <1>3, <1>4 DEF ModuleNext
-----------------------------------------------------------------------------
LEMMA InitModule == ModuleInit => TypeInv /\ ModuleInv
  <1> SUFFICES ASSUME ModuleInit PROVE TypeInv /\ ModuleInv
    OBVIOUS
  <1>1. TypeInv
    BY InitType DEF ModuleInit
  <1>2. LoaderInv
    BY LoaderAssumption, LoaderIs DEF ModuleInit, Init, LoaderInv, ModuleTypeOK, LoaderCalls,
       LoaderLocked, EntriesInv, LoaderHolds, Mpc, Originals
  <1>3. mpc = "out" /\ OutInv
    BY DEF ModuleInit, Init, OutInv, InTable
  <1> QED
    BY <1>1, <1>2, <1>3 DEF ModuleInv

(* The loader's own part is kept by its own steps,                         *)
LEMMA LoaderKeepsLoader ==
  ASSUME TypeInv, ModuleInv, Load \/ BeginUnload \/ Unload PROVE LoaderInv'
  <1> USE DEF ModuleInv, LoaderInv, ModuleTypeOK, LoaderCalls, LoaderLocked, EntriesInv,
              LoaderHolds, Mpc, Originals, Hooks, LoaderAt
  <1> USE LoaderAssumption, LoaderIs
  <1>1. CASE BeginLoad
    BY <1>1 DEF BeginLoad, TakeCallTable
  <1>2. CASE HijackCustom \/ HijackExit
    BY <1>2 DEF HijackCustom, HijackExit, vars, hookVars, lockVars
  <1>3. CASE Seal
    BY <1>3 DEF Seal, SealCallTable
  <1>4. CASE InitTable
    BY <1>4 DEF InitTable, lockVars
  <1>5. CASE BeginUnload \/ Released \/ ScanEnds
    BY <1>5 DEF BeginUnload, Released, ScanEnds, vars, hookVars, lockVars
  <1>6. CASE ScanAndRelease
    <2>1. PICK y \in left :
            /\ left' = {s \in left : s > y}
            /\ pc' = [pc EXCEPT ![Loader] = "perm"]
            /\ req' = [req EXCEPT ![Loader] = [cmd |-> "RELEASE", syscall |-> y, pid |-> All]]
      BY <1>6, ScanStep
    <2> QED
      BY <1>6, <2>1 DEF ScanAndRelease, hookVars, lockVars, TypeInv, TypeOK
  <1>7. CASE BeginRestore
    BY <1>7 DEF BeginRestore, TakeCallTable
  <1>8. CASE RestoreCustom \/ RestoreExit
    BY <1>8 DEF RestoreCustom, RestoreExit, vars, hookVars, lockVars
  <1>9. CASE Reseal \/ FreeModule
    BY <1>9 DEF Reseal, SealCallTable, FreeModule
  <1> QED
    BY <1>1, <1>2, <1>3, <1>4, <1>5, <1>6, <1>7, <1>8, <1>9 DEF Load, Unload

(* A step of the loader that leaves all of Interceptor alone but the lock  *)
(* and the protection of the kernel's table, which no process then needs.  *)
LEMMA SameTables ==
  ASSUME InUseInv, UNCHANGED <<monitorVars, sys_call_table, f, intercepted, my_table_lock,
                               alive, pc, req, delVars, strays>>,
         \/ UNCHANGED <<sys_call_table_lock, writable>>
         \/ \A p \in Pid : sys_call_table_lock # p
         \/ sys_call_table_lock = Loader /\ pc[Loader] = "idle",
         mpc' \in Loading => LoadInv,
         mpc' \in Unloading => UnloadInv'
  PROVE  InUseInv'
  <1>1. Locked'
    BY DEF InUseInv, Locked, KernelSection, TableSection
  <1>2. CheckedOrStray'
    BY DEF InUseInv, Locked, CheckedOrStray, KernelSection
  <1>3. PendingOrStray'
    BY DEF InUseInv, PendingOrStray
  <1>4. mpc' \in Loading => LoadInv'
    BY DEF LoadInv
  <1> QED
    BY <1>1, <1>2, <1>3, <1>4 DEF InUseInv

(* and so is what it finds and leaves in the tables.                       *)
LEMMA LoaderKeepsUse ==
  ASSUME TypeInv, ModuleInv, Load \/ BeginUnload \/ Unload
  PROVE  /\ mpc' = "out" => OutInv'
         /\ mpc' # "out" => InUseInv'
  <1> USE DEF LoaderAt, Loading, Unloading
  <1> USE LoaderIs
  <1>0. /\ left \subseteq InTable /\ (left # {} => mpc \in {"scan", "releasing"})
        /\ mpc \in LoaderHolds => sys_call_table_lock = Loader
        /\ mpc # "releasing" => pc[Loader] = "idle"
        /\ mpc # "out" => InUseInv
        /\ mpc = "out" => OutInv
    BY DEF ModuleInv, LoaderInv, ModuleTypeOK, LoaderLocked, LoaderCalls
  <1>1. CASE BeginLoad
    <2>1. /\ \A p \in Pid : pc'[p] \in {"idle", "dead", "oops"}
          /\ \A s \in Syscall : sys_call_table'[s] = "original"
          /\ \A s \in Syscall : f'[s] = "original" /\ ~intercepted'[s]
          /\ mpc' = "hijack"
      BY <1>0, <1>1 DEF BeginLoad, OutInv, Inside
    <2> QED
      BY <2>1 DEF InUseInv, Locked, CheckedOrStray, PendingOrStray, LoadInv, TableSection,
         KernelSection
  <1>2. CASE HijackCustom \/ HijackExit \/ Seal
    <2>1. InUseInv /\ LoadInv /\ mpc' \in Loading
      BY <1>0, <1>2 DEF HijackCustom, HijackExit, Seal, InUseInv
    <2>2. CASE Seal
      BY <1>0, <2>1, <2>2, SameTables DEF Seal, SealCallTable, LoaderHolds
    <2>3. CASE HijackCustom \/ HijackExit
      BY <2>1, <2>3, SameTables DEF HijackCustom, HijackExit, vars, hookVars, lockVars
    <2> QED
      BY <1>2, <2>2, <2>3
  <1>3. CASE InitTable
    <2>1. InUseInv /\ LoadInv /\ mpc' = "in" /\ my_table_lock = Free
      BY <1>0, <1>3 DEF InitTable, InUseInv
    <2>2. \A s \in Syscall : /\ intercepted'[s] => intercepted[s]
                             /\ s \notin strays => ~intercepted'[s]
      BY <1>3, <2>1 DEF InitTable, LoadInv
    <2>3. UNCHANGED <<sys_call_table, f, lockVars, writable, pc, req, strays>>
      BY <1>3 DEF InitTable
    <2>4. \A p \in Pid : pc[p] \notin TableSection
      BY <2>1, PidAssumption DEF InUseInv, Locked
    <2>5. Locked'
      BY <2>1, <2>3 DEF InUseInv, Locked, lockVars
    <2>6. CheckedOrStray'
      BY <2>1, <2>2, <2>3, <2>4 DEF InUseInv, CheckedOrStray, TableSection, LoadInv,
         TypeInv, RequestOK, InMySyscall, Request
    <2>7. PendingOrStray'
      BY <2>1, <2>2, <2>3 DEF LoadInv, PendingOrStray
    <2> QED
      BY <2>1, <2>3, <2>5, <2>6, <2>7 DEF InUseInv
  <1>4. CASE BeginUnload
    BY <1>0, <1>4, SameTables DEF BeginUnload, UnloadInv, vars, hookVars, lockVars
  <1>5. CASE ScanAndRelease
    <2>1. PICK y \in left :
            /\ intercepted[y]
            /\ \A t \in left : intercepted[t] => y <= t
            /\ left' = {s \in left : s > y}
            /\ pc' = [pc EXCEPT ![Loader] = "perm"]
            /\ req' = [req EXCEPT ![Loader] = [cmd |-> "RELEASE", syscall |-> y, pid |-> All]]
      BY <1>0, <1>5, ScanStep
    <2>2. InUseInv /\ UnloadInv /\ mpc' = "releasing" /\ pc[Loader] = "idle"
      BY <1>0, <1>5 DEF ScanAndRelease, InUseInv
    <2>3. UNCHANGED <<monitorVars, hookVars, lockVars, strays>>
      BY <1>5 DEF ScanAndRelease
    <2>4. /\ pc'[Loader] = "perm" /\ req'[Loader].syscall = y
          /\ \A p \in Pid \ {Loader} : pc'[p] = pc[p] /\ req'[p] = req[p]
      BY <2>1 DEF TypeInv, TypeOK
    <2>5. Locked' /\ CheckedOrStray' /\ PendingOrStray'
      <3>1. \A p \in Pid : /\ pc'[p] # "perm" => pc'[p] = pc[p] /\ req'[p] = req[p]
                           /\ pc[p] # "idle" => pc'[p] = pc[p] /\ req'[p] = req[p]
        BY <2>2, <2>4
      <3>2. UNCHANGED <<sys_call_table, intercepted, writable, my_table_lock,
                        sys_call_table_lock, strays>>
        BY <2>3 DEF hookVars, lockVars
      <3>3. Locked'
        BY <2>2, <3>1, <3>2 DEF InUseInv, Locked, TableSection, KernelSection
      <3>4. CheckedOrStray'
        BY <2>2, <3>1, <3>2 DEF InUseInv, CheckedOrStray
      <3>5. PendingOrStray'
        <4> SUFFICES ASSUME NEW s \in Syscall \ strays,
                            ~(intercepted[s] <=> sys_call_table[s] = "interceptor")
                     PROVE  \E p \in Pid : pc'[p] \in {"publish", "write"} /\ req'[p].syscall = s
          BY <3>2 DEF PendingOrStray
        <4>1. PICK p \in Pid : pc[p] \in {"publish", "write"} /\ req[p].syscall = s
          BY <2>2 DEF InUseInv, PendingOrStray
        <4> QED
          BY <3>1, <4>1
      <3> QED
        BY <3>3, <3>4, <3>5
    <2>6. ASSUME NEW s \in InTable \ (strays \cup left') PROVE ~intercepted[s] \/ s = y
      <3>1. CASE s \in left
        BY <1>0, <2>1, <2>6, <3>1, SyscallAssumption DEF InTable
      <3>2. CASE s \notin left
        BY <2>2, <2>6, <3>2 DEF UnloadInv, Releasing
      <3> QED
        BY <3>1, <3>2
    <2>7. UnloadInv'
      BY <2>3, <2>4, <2>6 DEF UnloadInv, Releasing, hookVars, InTable
    <2> QED
      BY <2>2, <2>3, <2>5, <2>7 DEF InUseInv, hookVars
  <1>6. CASE Released \/ ScanEnds
    <2>1. InUseInv /\ UnloadInv /\ mpc' \in {"scan", "restore"} /\ pc[Loader] = "idle"
          /\ UNCHANGED <<vars, strays>>
      BY <1>0, <1>6 DEF Released, ScanEnds, InUseInv
    <2>2. UnloadInv'
      BY <1>0, <1>6, <2>1 DEF Released, ScanEnds, StillIntercepted, UnloadInv, Releasing, vars,
         hookVars
    <2> QED
      BY <2>1, <2>2, SameTables DEF vars, hookVars, lockVars
  <1>7. CASE BeginRestore \/ RestoreCustom \/ RestoreExit \/ Reseal
    <2>1. InUseInv /\ UnloadInv /\ mpc' \in Unloading
      BY <1>0, <1>7 DEF BeginRestore, RestoreCustom, RestoreExit, Reseal, InUseInv
    <2>2. UNCHANGED <<monitorVars, sys_call_table, f, intercepted, my_table_lock, alive, pc, req,
                      delVars, left, strays>>
      BY <1>7 DEF BeginRestore, RestoreCustom, RestoreExit, Reseal, vars, hookVars, lockVars
    <2>3. UnloadInv'
      BY <2>1, <2>2 DEF UnloadInv, Releasing
    <2>4. \/ UNCHANGED <<sys_call_table_lock, writable>>
          \/ \A p \in Pid : sys_call_table_lock # p
          \/ sys_call_table_lock = Loader /\ pc[Loader] = "idle"
      BY <1>0, <1>7, PidAssumption DEF BeginRestore, RestoreCustom, RestoreExit, Reseal,
         TakeCallTable, vars, hookVars, lockVars, LoaderHolds
    <2> QED
      BY <2>1, <2>2, <2>3, <2>4, SameTables
  <1>8. CASE FreeModule
    <2>1. InUseInv /\ UnloadInv /\ mpc' = "out" /\ pc[Loader] = "idle" /\ left = {}
      BY <1>0, <1>8 DEF FreeModule, InUseInv
    <2>2. \A s \in InTable \ strays : sys_call_table[s] = "original"
      <3> SUFFICES ASSUME NEW s \in InTable, s \notin strays PROVE sys_call_table[s] = "original"
        OBVIOUS
      <3>1. s \in Syscall /\ ~intercepted[s]
        BY <2>1 DEF UnloadInv, Releasing, InTable
      <3>2. ~ \E p \in Pid : pc[p] \in {"publish", "write"} /\ req[p].syscall = s
        BY <2>1, <3>1 DEF InUseInv, CheckedOrStray
      <3>3. sys_call_table[s] # "interceptor"
        BY <2>1, <3>1, <3>2 DEF InUseInv, PendingOrStray
      <3> QED
        BY <3>1, <3>3 DEF TypeInv, TypeOK, Handler
    <2> QED
      BY <1>8, <2>1, <2>2 DEF FreeModule, OutInv, InTable
  <1> QED
    BY <1>1, <1>2, <1>3, <1>4, <1>5, <1>6, <1>7, <1>8 DEF Load, Unload
-----------------------------------------------------------------------------
(* A step of a process in the loaded module; it changes nothing of the     *)
(* loader but the strays.                                                  *)
Step(p) ==
  /\ mpc # "out"
  /\ \/ Enters(p) /\ UNCHANGED moduleVars
     \/ Goes(p) /\ UNCHANGED loaderVars

LEMMA StepIs ==
  ASSUME NEW p \in Pid, Step(p)
  PROVE  /\ mpc # "out" /\ UNCHANGED loaderVars
         /\ \/ /\ pc[p] = "idle" /\ p # Loader
               /\ strays' = strays
               /\ \/ \E r \in Request : Invoke(p, r)
                  \/ \E s \in Syscall : Syscalls(p, s)
                  \/ ExitGroup(p)
            \/ /\ pc[p] # "idle"
               /\ Running(p) \/ DelUnlink(p) \/ DelCount(p) \/ DelTest(p) \/ DelReset(p) \/ Dies(p)
               /\ strays' = IF Stray(p) THEN strays \cup {req[p].syscall} ELSE strays
  BY DEF Step, Enters, Goes, Exiting, ExitGroup, moduleVars

(* Nobody moves another process.                                           *)
LEMMA OthersStay ==
  ASSUME TypeInv, NEW p \in Pid, Step(p), NEW q \in Pid \ {p}
  PROVE  pc'[q] = pc[q] /\ req'[q] = req[q]
  <1> USE DEF TypeInv, TypeOK, Goto, Return
  <1>1. CASE \E r \in Request : Invoke(p, r)
    BY <1>1 DEF Invoke
  <1>2. CASE (\E s \in Syscall : Syscalls(p, s)) \/ ExitGroup(p)
    BY <1>2 DEF Syscalls, ExitGroup
  <1>3. CASE Running(p)
    BY <1>3 DEF Running, MySyscall, CheckPermission, Oops, LockAndCheck, InterceptSave,
       SetWritable, Publish, Protect, Release, Monitor, NoMemory, InterceptorLogs, CallsOriginal
  <1>4. CASE DelUnlink(p) \/ DelCount(p) \/ DelTest(p) \/ DelReset(p) \/ Dies(p)
    BY <1>4 DEF DelUnlink, DelCount, DelTest, DelReset, Dies, NextList
  <1> QED
    BY <1>1, <1>2, <1>3, <1>4, StepIs

(* The loader's part is kept by the processes: a request of the loader     *)
(* is let through to the release, and its lock is nobody else's.           *)
LEMMA StepKeepsLoader ==
  ASSUME TypeInv, ModuleInv, NEW p \in Pid, Step(p) PROVE LoaderInv'
  <1> USE LoaderIs
  <1>0. /\ LoaderInv /\ InUseInv
        /\ UNCHANGED <<mpc, entry, saved, ready, left, loads>>
    BY StepIs DEF ModuleInv, loaderVars
  <1>1. strays' \subseteq Syscall
    BY <1>0, StepIs DEF LoaderInv, ModuleTypeOK, Stray, TypeInv, RequestOK, InMySyscall, Request
  <1>2. ModuleTypeOK' /\ (left \subseteq InTable)' /\ EntriesInv'
    BY <1>0, <1>1 DEF LoaderInv, ModuleTypeOK, EntriesInv, InTable
  <1>3. CASE p # Loader
    <2>1. pc'[Loader] = pc[Loader] /\ req'[Loader] = req[Loader]
      BY <1>3, OthersStay
    <2>2. LoaderCalls'
      BY <1>0, <2>1 DEF LoaderInv, LoaderCalls
    <2>3. ASSUME mpc \in LoaderHolds
          PROVE  UNCHANGED <<sys_call_table_lock, writable>>
      <3>1. sys_call_table_lock = Loader /\ writable
        BY <1>0, <2>3 DEF LoaderInv, LoaderLocked
      <3>2. sys_call_table_lock # Free /\ pc[p] \notin KernelSection
        BY <1>0, <1>3, <3>1 DEF InUseInv, Locked
      <3> QED
        BY <3>2, StepIs DEF KernelSection, Invoke, Syscalls, Running, MySyscall,
           CheckPermission, Oops, LockAndCheck, InterceptSave, SetWritable, Publish, Protect,
           Release, Monitor, NoMemory, InterceptorLogs, CallsOriginal, ExitGroup, DelUnlink,
           DelCount, DelTest, DelReset, Dies, NextList, hookVars, lockVars
    <2>4. LoaderLocked'
      BY <1>0, <2>3 DEF LoaderInv, LoaderLocked
    <2> QED
      BY <1>2, <2>2, <2>4 DEF LoaderInv
  <1>4. CASE p = Loader
    <2>1. /\ mpc = "releasing" /\ pc[p] \in {"perm", "lock", "release", "protect"}
          /\ req[p].cmd = "RELEASE"
      BY <1>0, <1>4, StepIs DEF LoaderInv, LoaderCalls
    <2>2. CheckPermission(p) \/ LockAndCheck(p) \/ Release(p) \/ Protect(p)
      BY <2>1, StepIs DEF Running, MySyscall, InterceptSave, SetWritable, Publish, Monitor,
         NoMemory, InterceptorLogs, CallsOriginal, DelUnlink, DelCount, DelTest, DelReset, Dies
    <2>3. /\ pc'[p] \in {"idle", "lock", "release", "protect"}
          /\ pc'[p] # "idle" => req'[p].cmd = "RELEASE"
      BY <1>4, <2>1, <2>2 DEF CheckPermission, NullTask, Permitted, LockAndCheck, Target,
         Release, Protect, Goto, Return, TypeInv, TypeOK
    <2>4. LoaderCalls' /\ LoaderLocked'
      BY <1>0, <1>4, <2>1, <2>3 DEF LoaderCalls, LoaderLocked, LoaderHolds
    <2> QED
      BY <1>2, <2>4 DEF LoaderInv
  <1> QED
    BY <1>3, <1>4

(* Each step of a process leaves the tables right for all calls but the    *)
(* strays.  Locked first,                                                  *)
LEMMA StepLocked == ASSUME TypeInv, ModuleInv, NEW p \in Pid, Step(p) PROVE Locked'
  <1> USE PidAssumption DEF TableSection, KernelSection, Goto, Return, hookVars, lockVars
  <1>0. Locked /\ mpc # "out"
    BY StepIs DEF ModuleInv, InUseInv
  <1>1. \A q \in Pid \ {p} : pc'[q] = pc[q]
    BY OthersStay
  <1>2. ASSUME \/ \E r \in Request : Invoke(p, r)
               \/ \E s \in Syscall : Syscalls(p, s)
               \/ ExitGroup(p)
               \/ CheckPermission(p) \/ InterceptorLogs(p) \/ CallsOriginal(p)
               \/ DelUnlink(p) \/ DelCount(p) \/ DelTest(p) \/ DelReset(p) \/ Dies(p)
        PROVE  UNCHANGED lockVars /\ pc'[p] \notin TableSection \cup KernelSection
    BY <1>2 DEF TypeInv, TypeOK, Invoke, Syscalls, ExitGroup, CheckPermission, Oops,
       InterceptorLogs, CallsOriginal, DelUnlink, DelCount, DelTest, DelReset, Dies, NextList
  <1>3. ASSUME LockAndCheck(p)
        PROVE  /\ my_table_lock = Free /\ sys_call_table_lock' = sys_call_table_lock
               /\ pc'[p] \notin KernelSection
               /\ pc'[p] \in TableSection => my_table_lock' = p
               /\ my_table_lock' \in {my_table_lock, p}
    BY <1>3 DEF TypeInv, TypeOK, LockAndCheck, Target
  <1>4. ASSUME InterceptSave(p) \/ Release(p)
        PROVE  /\ my_table_lock = p /\ sys_call_table_lock = Free
               /\ pc'[p] \in KernelSection /\ sys_call_table_lock' = p
    BY <1>0, <1>4 DEF TypeInv, TypeOK, InterceptSave, Release, Locked
  <1>5. ASSUME SetWritable(p) \/ Publish(p)
        PROVE  UNCHANGED lockVars /\ pc[p] \in KernelSection /\ pc'[p] \in KernelSection
    BY <1>5 DEF TypeInv, TypeOK, SetWritable, Publish
  <1>6. ASSUME Protect(p)
        PROVE  /\ my_table_lock' = my_table_lock /\ sys_call_table_lock = p
               /\ pc'[p] = "idle"
    BY <1>0, <1>6 DEF TypeInv, TypeOK, Protect, Locked
  <1>7. ASSUME Monitor(p) \/ NoMemory(p)
        PROVE  /\ sys_call_table_lock' = sys_call_table_lock /\ my_table_lock = p
               /\ pc'[p] = "idle"
    BY <1>0, <1>7 DEF TypeInv, TypeOK, Monitor, NoMemory, Locked
  <1> QED
    BY <1>0, <1>1, <1>2, <1>3, <1>4, <1>5, <1>6, <1>7, StepIs DEF Locked, Running, MySyscall

(* then what a request has tested, as the table and its page change only   *)
(* under the lock of who tested;                                           *)
LEMMA StepChecked ==
  ASSUME TypeInv, ModuleInv, NEW p \in Pid, Step(p) PROVE CheckedOrStray'
  <1> USE DEF TypeInv, TypeOK, Goto, Return, hookVars
  <1>0. Locked /\ CheckedOrStray
    BY StepIs DEF ModuleInv, InUseInv
  <1>1. \A q \in Pid \ {p} : pc'[q] = pc[q] /\ req'[q] = req[q]
    BY OthersStay
  <1>2. strays \subseteq strays'
    BY StepIs
  <1>3. ASSUME UNCHANGED <<intercepted, writable>>,
               pc'[p] \notin {"intercept", "release", "monitor", "publish", "write"}
        PROVE  CheckedOrStray'
    BY <1>0, <1>1, <1>2, <1>3 DEF CheckedOrStray
  <1>4. ASSUME \/ \E r \in Request : Invoke(p, r)
               \/ \E s \in Syscall : Syscalls(p, s)
               \/ ExitGroup(p)
               \/ CheckPermission(p) \/ InterceptorLogs(p) \/ CallsOriginal(p)
               \/ DelUnlink(p) \/ DelCount(p) \/ DelTest(p) \/ DelReset(p) \/ Dies(p)
               \/ Monitor(p) \/ NoMemory(p)
        PROVE  CheckedOrStray'
    BY <1>3, <1>4 DEF Invoke, Syscalls, ExitGroup, CheckPermission, Oops, InterceptorLogs,
       CallsOriginal, DelUnlink, DelCount, DelTest, DelReset, Dies, NextList, Monitor, NoMemory
  <1>5. CASE LockAndCheck(p)
    <2>1. UNCHANGED <<intercepted, writable>>
      BY <1>5 DEF LockAndCheck
    <2>2. /\ pc'[p] = "intercept" => req'[p] = req[p] /\ ~intercepted[req[p].syscall]
          /\ pc'[p] \in {"release", "monitor"} => req'[p] = req[p] /\ intercepted[req[p].syscall]
          /\ pc'[p] \notin {"publish", "write"}
      BY <1>5 DEF LockAndCheck, Target, Refused, NotIntercepted, AlreadyIntercepted,
         RequestOK, InMySyscall, Request, Cmd
    <2> QED
      BY <1>0, <1>1, <1>2, <2>1, <2>2 DEF CheckedOrStray
  <1>6. CASE InterceptSave(p) \/ Release(p)
    <2>1. \A q \in Pid \ {p} : pc'[q] \notin TableSection \cup KernelSection
      BY <1>0, <1>1, <1>6, PidAssumption DEF InterceptSave, Release, Locked, TableSection
    <2>2. pc[p] \in InMySyscall /\ req[p].syscall \in Syscall /\ req' = req
      BY <1>6 DEF InterceptSave, Release, RequestOK, InMySyscall, Request
    <2>3. \/ pc'[p] = "publish" /\ intercepted'[req'[p].syscall]
          \/ pc'[p] = "protect"
      BY <1>6, <2>2 DEF InterceptSave, Release
    <2> QED
      BY <2>1, <2>3 DEF CheckedOrStray, TableSection, KernelSection
  <1>7. CASE SetWritable(p) \/ Publish(p)
    <2>1. /\ pc[p] \in {"publish", "write"} /\ UNCHANGED <<intercepted, req>>
          /\ pc'[p] \in {"write", "protect"}
          /\ writable => writable'
          /\ pc'[p] = "write" => writable'
      BY <1>7 DEF SetWritable, Publish
    <2> QED
      BY <1>0, <1>1, <1>2, <2>1 DEF CheckedOrStray
  <1>8. CASE Protect(p)
    <2>1. \A q \in Pid \ {p} : pc'[q] \notin KernelSection
      BY <1>0, <1>1, <1>8 DEF Protect, Locked, KernelSection
    <2>2. pc'[p] = "idle" /\ intercepted' = intercepted
      BY <1>8 DEF Protect
    <2> QED
      BY <1>0, <1>1, <2>1, <2>2 DEF CheckedOrStray, KernelSection
  <1> QED
    BY <1>4, <1>5, <1>6, <1>7, <1>8, StepIs DEF Running, MySyscall

(* and then the tables of one call that is not stray: a step changes them  *)
(* in one of four ways, or not at all.                                     *)
Saves(p, s) ==
  /\ pc[p] = "intercept" /\ pc'[p] = "publish" /\ req[p].syscall = s /\ req'[p].syscall = s
  /\ sys_call_table_lock = Free /\ my_table_lock = p
  /\ intercepted'[s] /\ f'[s] = sys_call_table[s] /\ sys_call_table'[s] = sys_call_table[s]

Publishes(p, s) ==
  /\ pc[p] = "write" /\ req[p].syscall = s
  /\ sys_call_table'[s] = "interceptor" /\ intercepted'[s] = intercepted[s] /\ f'[s] = f[s]

Releases(p, s) ==
  /\ pc[p] = "release" /\ pc'[p] = "protect" /\ req[p].syscall = s /\ req'[p].syscall = s
  /\ ~intercepted'[s] /\ sys_call_table'[s] = f[s] /\ f'[s] = f[s]

Keeps(p, s) ==
  /\ intercepted'[s] = intercepted[s] /\ sys_call_table'[s] = sys_call_table[s] /\ f'[s] = f[s]
  /\ pc[p] \in {"publish", "write"} /\ req[p].syscall = s
       => pc'[p] \in {"publish", "write"} /\ req'[p].syscall = s

LEMMA StepTables ==
  ASSUME TypeInv, ModuleInv, NEW p \in Pid, Step(p), NEW s \in Syscall
  PROVE  Saves(p, s) \/ Publishes(p, s) \/ Releases(p, s) \/ Keeps(p, s)
  <1> USE DEF TypeInv, TypeOK, Goto, Return, hookVars
  <1>1. ASSUME UNCHANGED hookVars, pc[p] \notin {"publish", "write"} PROVE Keeps(p, s)
    BY <1>1 DEF Keeps
  <1>2. ASSUME \/ \E r \in Request : Invoke(p, r)
               \/ \E t \in Syscall : Syscalls(p, t)
               \/ ExitGroup(p)
               \/ CheckPermission(p) \/ InterceptorLogs(p) \/ CallsOriginal(p)
               \/ DelUnlink(p) \/ DelCount(p) \/ DelTest(p) \/ DelReset(p) \/ Dies(p)
               \/ Monitor(p) \/ NoMemory(p) \/ LockAndCheck(p)
        PROVE  Keeps(p, s)
    BY <1>1, <1>2 DEF Invoke, Syscalls, ExitGroup, CheckPermission, InterceptorLogs,
       CallsOriginal, DelUnlink, DelCount, DelTest, DelReset, Dies, Monitor, NoMemory, LockAndCheck
  <1>3. CASE InterceptSave(p)
    <2>1. my_table_lock = p
      BY <1>3, StepIs DEF InterceptSave, ModuleInv, InUseInv, Locked, TableSection
    <2> QED
      BY <1>3, <2>1 DEF InterceptSave, Saves, Keeps
  <1>4. CASE SetWritable(p)
    BY <1>4 DEF SetWritable, Keeps
  <1>5. CASE Publish(p)
    BY <1>5 DEF Publish, Publishes, Keeps
  <1>6. CASE Protect(p)
    BY <1>6 DEF Protect, Keeps
  <1>7. CASE Release(p)
    BY <1>7 DEF Release, Releases, Keeps
  <1> QED
    BY <1>2, <1>3, <1>4, <1>5, <1>6, <1>7, StepIs DEF Running, MySyscall

(* The loader's request is not given up before the call is released.       *)
LEMMA LoaderReleases ==
  ASSUME TypeInv, ModuleInv, NEW p \in Pid, Step(p), NEW s \in Syscall, Releasing(s)
  PROVE  Releasing(s)' \/ ~intercepted'[s]
  <1> USE LoaderIs DEF Releasing
  <1>1. CASE p # Loader
    BY <1>1, OthersStay
  <1>2. CASE p = Loader
    <2>1. req[p].cmd = "RELEASE" /\ pc[p] \in {"perm", "lock", "release"} /\ req[p].syscall = s
      BY <1>2 DEF ModuleInv, LoaderInv, LoaderCalls
    <2>2. CheckPermission(p) \/ LockAndCheck(p) \/ Release(p)
      BY <2>1, StepIs DEF Running, MySyscall, InterceptSave, SetWritable, Publish, Protect,
         Monitor, NoMemory, InterceptorLogs, CallsOriginal, DelUnlink, DelCount, DelTest,
         DelReset, Dies
    <2>3. CASE CheckPermission(p)
      BY <1>2, <2>1, <2>3 DEF CheckPermission, NullTask, Permitted, Goto, TypeInv, TypeOK
    <2>4. CASE LockAndCheck(p)
      BY <1>2, <2>1, <2>4 DEF LockAndCheck, Target, Refused, NotIntercepted, AlreadyIntercepted,
         StopInvalid, StartRefused, Goto, hookVars, TypeInv, TypeOK
    <2>5. CASE Release(p)
      BY <2>1, <2>5 DEF Release, TypeInv, TypeOK
    <2> QED
      BY <2>2, <2>3, <2>4, <2>5
  <1> QED
    BY <1>1, <1>2

LEMMA StepKeepsCall ==
  ASSUME TypeInv, ModuleInv, NEW p \in Pid, Step(p), NEW s \in Syscall, s \notin strays'
  PROVE  /\ f'[s] = "original"
         /\ \/ intercepted'[s] <=> sys_call_table'[s] = "interceptor"
            \/ \E q \in Pid : pc'[q] \in {"publish", "write"} /\ req'[q].syscall = s
         /\ mpc \in Loading => sys_call_table'[s] = "original" /\ ~intercepted'[s]
         /\ mpc \in Unloading /\ s \in InTable \ left => ~intercepted'[s] \/ Releasing(s)'
  <1> USE LoaderIs
  <1>0. /\ Locked /\ CheckedOrStray /\ PendingOrStray
        /\ mpc \in Loading => LoadInv
        /\ mpc \in Unloading => UnloadInv
        /\ left # {} => mpc \in {"scan", "releasing"}
    BY StepIs DEF ModuleInv, InUseInv, LoaderInv, ModuleTypeOK
  <1>1. s \notin strays /\ f[s] = "original" /\ sys_call_table[s] \in {"original", "interceptor"}
    BY StepIs DEF ModuleInv, InUseInv, TypeInv, TypeOK, Handler
  <1>2. /\ mpc \in Loading => sys_call_table[s] = "original" /\ ~intercepted[s]
        /\ mpc \in Unloading /\ s \in InTable \ left => ~intercepted[s] \/ Releasing(s)
    BY <1>0, <1>1 DEF LoadInv, UnloadInv
  <1>3. CASE Saves(p, s)
    <2>1. ~intercepted[s]
      BY <1>0, <1>3 DEF Saves, CheckedOrStray
    <2>2. \A q \in Pid : pc[q] \notin {"publish", "write"}
      BY <1>0, <1>3, PidAssumption DEF Saves, Locked, KernelSection
    <2>3. sys_call_table[s] = "original"
      BY <1>0, <1>1, <2>1, <2>2 DEF PendingOrStray
    <2>4. mpc = "in" \/ s \in left
      BY <1>3, StepIs DEF Saves, Stray
    <2>5. mpc \notin Loading
      BY <1>0, <2>4 DEF Loading
    <2>6. ~(mpc \in Unloading /\ s \in InTable \ left)
      BY <2>4 DEF Unloading
    <2> QED
      BY <1>3, <2>3, <2>5, <2>6 DEF Saves
  <1>4. CASE Publishes(p, s)
    <2>1. intercepted[s]
      BY <1>0, <1>1, <1>4 DEF Publishes, CheckedOrStray
    <2> QED
      BY <1>1, <1>2, <1>4, <2>1, LoaderReleases DEF Publishes
  <1>5. CASE Releases(p, s)
    BY <1>1, <1>5 DEF Releases
  <1>6. CASE Keeps(p, s)
    <2>1. \/ intercepted[s] <=> sys_call_table[s] = "interceptor"
          \/ \E q \in Pid : pc[q] \in {"publish", "write"} /\ req[q].syscall = s
      BY <1>0, <1>1 DEF PendingOrStray
    <2>2. ASSUME NEW q \in Pid, pc[q] \in {"publish", "write"} /\ req[q].syscall = s
          PROVE  pc'[q] \in {"publish", "write"} /\ req'[q].syscall = s
      BY <1>6, <2>2, OthersStay DEF Keeps
    <2>3. \/ intercepted'[s] <=> sys_call_table'[s] = "interceptor"
          \/ \E q \in Pid : pc'[q] \in {"publish", "write"} /\ req'[q].syscall = s
      BY <1>6, <2>1, <2>2 DEF Keeps
    <2>4. mpc \in Unloading /\ s \in InTable \ left => ~intercepted'[s] \/ Releasing(s)'
      BY <1>2, <1>6, LoaderReleases DEF Keeps
    <2> QED
      BY <1>1, <1>2, <1>6, <2>3, <2>4 DEF Keeps
  <1> QED
    BY <1>3, <1>4, <1>5, <1>6, StepTables

LEMMA StepKeeps == ASSUME TypeInv, ModuleInv, NEW p \in Pid, Step(p) PROVE ModuleInv'
  <1>1. mpc' = mpc /\ mpc # "out" /\ left' = left
    BY StepIs DEF loaderVars
  <1>2. PendingOrStray' /\ \A s \in Syscall \ strays' : f'[s] = "original"
    BY StepKeepsCall DEF PendingOrStray
  <1>3. mpc \in Loading => LoadInv'
    BY StepKeepsCall DEF LoadInv
  <1>4. mpc \in Unloading => UnloadInv'
    BY <1>1, StepKeepsCall DEF UnloadInv, InTable
  <1> QED
    BY <1>1, <1>2, <1>3, <1>4, StepKeepsLoader, StepLocked, StepChecked DEF ModuleInv, InUseInv

(* A process that is killed, or that exits past the hook, leaves the       *)
(* tables alone; the lock it may take with it was free.                    *)
LEMMA EndKeeps ==
  ASSUME TypeInv, ModuleInv, NEW p \in Pid, ExitUnhooked(p) \/ NullOops(p) \/ GoneOops(p)
  PROVE  ModuleInv'
  <1> USE LoaderIs
  <1>0. /\ UNCHANGED <<hookVars, sys_call_table_lock, moduleVars>>
        /\ pc'[p] \in {"dead", "oops"}
        /\ \A q \in Pid \ {p} : pc'[q] = pc[q] /\ req'[q] = req[q]
    BY DEF ExitUnhooked, NullOops, GoneOops, Killed, Goto, TypeInv, TypeOK, lockVars
  <1>1. pc[p] \notin {"publish", "write"} \/ mpc = "out"
    BY DEF ExitUnhooked, NullOops, FollowsNull, GoneOops
  <1>2. p # Loader
    BY DEF ExitUnhooked, NullOops, FollowsNull, GoneOops, Inside, ModuleInv, LoaderInv,
       LoaderCalls
  <1>3. LoaderInv'
    BY <1>0, <1>2 DEF ModuleInv, LoaderInv, ModuleTypeOK, LoaderCalls, LoaderLocked, EntriesInv,
       moduleVars, loaderVars, hookVars, InTable
  <1>4. mpc = "out" => OutInv'
    BY <1>0 DEF ModuleInv, OutInv, moduleVars, loaderVars, hookVars, InTable
  <1>5. ASSUME mpc # "out" PROVE InUseInv'
    <2>1. InUseInv
      BY <1>5 DEF ModuleInv
    <2>2. \/ my_table_lock' = my_table_lock
          \/ \A q \in Pid : my_table_lock # q
      BY <1>5, PidAssumption DEF ExitUnhooked, NullOops, FollowsNull, GoneOops, lockVars
    <2>3. Locked'
      BY <1>0, <2>1, <2>2 DEF InUseInv, Locked, TableSection, KernelSection
    <2>4. CheckedOrStray'
      BY <1>0, <2>1 DEF InUseInv, CheckedOrStray, hookVars, moduleVars
    <2>5. PendingOrStray'
      <3> SUFFICES ASSUME NEW s \in Syscall \ strays,
                          ~(intercepted[s] <=> sys_call_table[s] = "interceptor")
                   PROVE  \E q \in Pid : pc'[q] \in {"publish", "write"} /\ req'[q].syscall = s
        BY <1>0 DEF PendingOrStray, hookVars, moduleVars
      <3>1. PICK q \in Pid : pc[q] \in {"publish", "write"} /\ req[q].syscall = s
        BY <2>1 DEF InUseInv, PendingOrStray
      <3> QED
        BY <1>0, <1>1, <1>5, <3>1
    <2>6. (mpc \in Loading => LoadInv') /\ (mpc \in Unloading => UnloadInv')
      BY <1>0, <1>2, <2>1 DEF InUseInv, LoadInv, UnloadInv, Releasing, InTable, hookVars,
         moduleVars, loaderVars
    <2> QED
      BY <1>0, <2>1, <2>3, <2>4, <2>5, <2>6 DEF InUseInv, hookVars, moduleVars, loaderVars
  <1> QED
    BY <1>0, <1>3, <1>4, <1>5 DEF ModuleInv, moduleVars, loaderVars

LEMMA ModuleNextInv == TypeInv /\ ModuleInv /\ [ModuleNext]_allVars => (TypeInv /\ ModuleInv)'
  <1> SUFFICES ASSUME TypeInv, ModuleInv, [ModuleNext]_allVars PROVE TypeInv' /\ ModuleInv'
    OBVIOUS
  <1>1. TypeInv'
    BY ModuleType DEF ModuleInv, LoaderInv
  <1>2. CASE Load \/ BeginUnload \/ Unload
    <2>1. LoaderInv'
      BY <1>2, LoaderKeepsLoader
    <2>2. /\ mpc' = "out" => OutInv'
          /\ mpc' # "out" => InUseInv'
      BY <1>2, LoaderKeepsUse
    <2> QED
      BY <1>1, <2>1, <2>2 DEF ModuleInv
  <1>3. CASE UNCHANGED allVars
    <2>0. mpc' = mpc
      BY <1>3 DEF allVars, moduleVars, loaderVars
    <2>1. LoaderInv'
      BY <1>3 DEF ModuleInv, LoaderInv, ModuleTypeOK, LoaderCalls, LoaderLocked, EntriesInv,
         InTable, allVars, vars, moduleVars, loaderVars, hookVars, lockVars
    <2>2. mpc = "out" => OutInv'
      BY <1>3 DEF ModuleInv, OutInv, InTable, allVars, vars, moduleVars, loaderVars, hookVars
    <2>3. mpc # "out" => InUseInv'
      <3>1. /\ mpc # "out" => InUseInv
            /\ mpc' = mpc /\ left' = left
            /\ UNCHANGED <<monitorVars, hookVars, lockVars, alive, pc, req, delVars, strays>>
        BY <1>3 DEF ModuleInv, allVars, vars, moduleVars, loaderVars
      <3>2. UnloadInv => UnloadInv'
        BY <3>1 DEF UnloadInv, Releasing, InTable, hookVars
      <3> QED
        BY <3>1, <3>2, SameTables DEF InUseInv, hookVars, lockVars
    <2> QED
      BY <1>1, <2>0, <2>1, <2>2, <2>3 DEF ModuleInv
  <1>4. ASSUME NEW p \in Pid, \/ mpc # "out" /\ Enters(p) /\ UNCHANGED moduleVars
                              \/ mpc # "out" /\ Goes(p) /\ UNCHANGED loaderVars
        PROVE  ModuleInv'
    BY <1>4, StepKeeps DEF Step
  <1>5. ASSUME NEW p \in Pid, ExitUnhooked(p) \/ NullOops(p) \/ GoneOops(p) PROVE ModuleInv'
    BY <1>5, EndKeeps
  <1> QED
    BY <1>1, <1>2, <1>3, <1>4, <1>5 DEF ModuleNext

THEOREM ModuleInvariance == ModuleSpec => [](TypeInv /\ ModuleInv)
  BY InitModule, ModuleNextInv, PTL DEF ModuleSpec

(* Every variable of the interceptor and of its loader keeps its type, and *)
(* what init_function saves is always the kernel's own two entries.        *)
THEOREM ModuleTypeCorrect == ModuleSpec => []ModuleTypeOK
  <1>1. ModuleInv => ModuleTypeOK
    BY DEF ModuleInv, LoaderInv
  <1> QED
    BY ModuleInvariance, <1>1, PTL

(* While the module is loaded, the status of a system call in its table is *)
(* true of the kernel's, but for the calls intercepted before the table is *)
(* initialised or behind the loop of exit_function.                        *)
THEOREM StatusKeptCorrect == ModuleSpec => []StatusKept
  <1>1. TypeInv /\ ModuleInv => StatusKept
    BY PidAssumption DEF ModuleInv, InUseInv, Locked, PendingOrStray, KernelSection, StatusKept
  <1> QED
    BY ModuleInvariance, <1>1, PTL

(* When exit_function has returned, the kernel's table is the one from     *)
(* before insmod, but for those calls.                                     *)
THEOREM UnloadRestoresCorrect == ModuleSpec => []UnloadRestores
  <1>1. TypeInv /\ ModuleInv => UnloadRestores
    <2> SUFFICES ASSUME TypeInv, ModuleInv, mpc \in {"returned", "out"}
                 PROVE  /\ entry = Originals
                        /\ \A s \in InTable \ strays : sys_call_table[s] = "original"
      BY DEF UnloadRestores
    <2>1. entry = Originals
      BY DEF ModuleInv, LoaderInv, EntriesInv, ModuleTypeOK, Originals, Hooks
    <2>2. ASSUME NEW s \in InTable, s \notin strays, mpc = "returned"
          PROVE  sys_call_table[s] = "original"
      <3>1. s \in Syscall /\ ~intercepted[s]
        BY <2>2 DEF ModuleInv, InUseInv, LoaderInv, LoaderCalls, ModuleTypeOK, Unloading,
           UnloadInv, Releasing, InTable
      <3>2. ~ \E p \in Pid : pc[p] \in {"publish", "write"} /\ req[p].syscall = s
        BY <2>2, <3>1 DEF ModuleInv, InUseInv, CheckedOrStray
      <3>3. sys_call_table[s] # "interceptor"
        BY <2>2, <3>1, <3>2 DEF ModuleInv, InUseInv, PendingOrStray
      <3> QED
        BY <3>1, <3>3 DEF TypeInv, TypeOK, Handler
    <2> QED
      BY <2>1, <2>2 DEF ModuleInv, OutInv
  <1> QED
    BY ModuleInvariance, <1>1, PTL

(* The entries of MY_CUSTOM_SYSCALL and exit_group are written only while  *)
(* the page is writable, by the holder of sys_call_table_lock.             *)
THEOREM EntriesProtectedCorrect == ModuleSpec => EntriesProtected
  <1> DEFINE A == entry' # entry => writable /\ sys_call_table_lock = Loader
  <1>1. TypeInv /\ ModuleInv /\ [ModuleNext]_allVars => [A]_allVars
    <2> SUFFICES ASSUME ModuleInv, ModuleNext, entry' # entry
                 PROVE  writable /\ sys_call_table_lock = Loader
      OBVIOUS
    <2>1. ASSUME NEW p \in Pid PROVE ~(\/ UNCHANGED moduleVars
                                       \/ UNCHANGED loaderVars
                                       \/ ExitUnhooked(p) \/ NullOops(p) \/ GoneOops(p))
      BY DEF moduleVars, loaderVars, ExitUnhooked, NullOops, GoneOops
    <2>2. HijackCustom \/ HijackExit \/ RestoreCustom \/ RestoreExit
      BY <2>1 DEF ModuleNext, Load, Unload, BeginLoad, Seal, InitTable, BeginUnload,
         ScanAndRelease, Released, ScanEnds, BeginRestore, Reseal, FreeModule
    <2>3. mpc \in LoaderHolds
      BY <2>2 DEF HijackCustom, HijackExit, RestoreCustom, RestoreExit, LoaderAt, LoaderHolds
    <2> QED
      BY <2>3 DEF ModuleInv, LoaderInv, LoaderLocked
  <1> QED
    BY ModuleInvariance, <1>1, PTL DEF ModuleSpec, EntriesProtected
=============================================================================
