------------------------- MODULE TrafficFlowProofs -------------------------
(***************************************************************************)
(* Proofs about Traffic, continued: who holds the mutex of a lane, what    *)
(* has become of every car, and that the threads implement CarFlow.        *)
(***************************************************************************)
EXTENDS TrafficProofs, FiniteSetTheorems

(* The mutexes of the lanes.  A thread holds one exactly at these points   *)
(* of its program.                                                         *)
ArriveHolds(l, k) == k = l /\ arrive[l] \in {"locked", "relocked"}

CrossHolds(l, k) == \/ cross[l] \in {"locked", "relocked"} /\ k = l
                    \/ cross[l] = "append" /\ k = ExitLane(l)

HolderOf(k) ==
  \A l \in Lane : /\ lock[k] = <<"arrive", l>> <=> ArriveHolds(l, k)
                  /\ lock[k] = <<"cross", l>> <=> CrossHolds(l, k)

LockInv == \A k \in Lane : HolderOf(k)

LEMMA LockInvInit == Init => LockInv
BY FreeAssumption, LaneAssumption DEF Init, LockInv, HolderOf, ArriveHolds, CrossHolds

LEMMA Threads ==
  ASSUME NEW l \in Lane, NEW m \in Lane
  PROVE  /\ <<"arrive", l>> # <<"cross", m>>
         /\ <<"arrive", l>> = <<"arrive", m>> <=> l = m
         /\ <<"cross", l>> = <<"cross", m>> <=> l = m
         /\ Free # <<"arrive", l>> /\ Free # <<"cross", l>>
BY FreeAssumption, LaneAssumption

(* A step leaves the mutexes alone, or takes one, or gives one back.       *)
LEMMA LockKept ==
  ASSUME LockInv, lock' = lock,
         \A l, k \in Lane : /\ ArriveHolds(l, k)' <=> ArriveHolds(l, k)
                            /\ CrossHolds(l, k)' <=> CrossHolds(l, k)
  PROVE  LockInv'
BY DEF LockInv, HolderOf

LEMMA ArriveTakes ==
  ASSUME TypeInv, LockInv, NEW w \in Lane,
         lock[w] = Free, lock' = [lock EXCEPT ![w] = <<"arrive", w>>],
         \A l, k \in Lane : ArriveHolds(l, k)' <=> ArriveHolds(l, k) \/ (k = w /\ l = w),
         \A l, k \in Lane : CrossHolds(l, k)' <=> CrossHolds(l, k)
  PROVE  LockInv'
<1> SUFFICES ASSUME NEW k \in Lane, NEW l \in Lane
             PROVE  /\ lock'[k] = <<"arrive", l>> <=> ArriveHolds(l, k)'
                    /\ lock'[k] = <<"cross", l>> <=> CrossHolds(l, k)'
  BY DEF LockInv, HolderOf
<1>1. lock'[k] = IF k = w THEN <<"arrive", w>> ELSE lock[k]
  BY DEF TypeInv, BasicType
<1>2. /\ lock[k] = <<"arrive", l>> <=> ArriveHolds(l, k)
      /\ lock[k] = <<"cross", l>> <=> CrossHolds(l, k)
  BY DEF LockInv, HolderOf
<1>3. /\ ArriveHolds(l, k)' <=> ArriveHolds(l, k) \/ (k = w /\ l = w)
      /\ CrossHolds(l, k)' <=> CrossHolds(l, k)
  OBVIOUS
<1>4. k = w => ~ArriveHolds(l, k) /\ ~CrossHolds(l, k)
  BY <1>2, Threads
<1>5. /\ <<"arrive", w>> = <<"arrive", l>> <=> l = w
      /\ <<"arrive", w>> # <<"cross", l>>
  BY Threads
<1> QED
  BY ONLY <1>1, <1>2, <1>3, <1>4, <1>5

LEMMA ArriveGives ==
  ASSUME TypeInv, LockInv, NEW w \in Lane,
         lock' = [lock EXCEPT ![w] = Free],
         \A k \in Lane : lock[k] = <<"arrive", w>> <=> k = w,
         \A l, k \in Lane : ArriveHolds(l, k)' <=> ArriveHolds(l, k) /\ l # w,
         \A l, k \in Lane : CrossHolds(l, k)' <=> CrossHolds(l, k)
  PROVE  LockInv'
<1> SUFFICES ASSUME NEW k \in Lane, NEW l \in Lane
             PROVE  /\ lock'[k] = <<"arrive", l>> <=> ArriveHolds(l, k)'
                    /\ lock'[k] = <<"cross", l>> <=> CrossHolds(l, k)'
  BY DEF LockInv, HolderOf
<1>1. lock'[k] = IF k = w THEN Free ELSE lock[k]
  BY DEF TypeInv, BasicType
<1>2. /\ lock[k] = <<"arrive", l>> <=> ArriveHolds(l, k)
      /\ lock[k] = <<"cross", l>> <=> CrossHolds(l, k)
  BY DEF LockInv, HolderOf
<1>3. /\ ArriveHolds(l, k)' <=> ArriveHolds(l, k) /\ l # w
      /\ CrossHolds(l, k)' <=> CrossHolds(l, k)
  OBVIOUS
<1>4. lock[k] = <<"arrive", w>> <=> k = w
  OBVIOUS
<1>5. /\ Free # <<"arrive", l>> /\ Free # <<"cross", l>>
      /\ <<"arrive", w>> = <<"arrive", l>> <=> l = w
      /\ <<"arrive", w>> # <<"cross", l>>
  BY Threads
<1> QED
  BY ONLY <1>1, <1>2, <1>3, <1>4, <1>5

LEMMA CrossTakes ==
  ASSUME TypeInv, LockInv, NEW w \in Lane, NEW d \in Lane,
         lock[d] = Free, lock' = [lock EXCEPT ![d] = <<"cross", w>>],
         \A l, k \in Lane : CrossHolds(l, k)' <=> CrossHolds(l, k) \/ (k = d /\ l = w),
         \A l, k \in Lane : ArriveHolds(l, k)' <=> ArriveHolds(l, k)
  PROVE  LockInv'
<1> SUFFICES ASSUME NEW k \in Lane, NEW l \in Lane
             PROVE  /\ lock'[k] = <<"cross", l>> <=> CrossHolds(l, k)'
                    /\ lock'[k] = <<"arrive", l>> <=> ArriveHolds(l, k)'
  BY DEF LockInv, HolderOf
<1>1. lock'[k] = IF k = d THEN <<"cross", w>> ELSE lock[k]
  BY DEF TypeInv, BasicType
<1>2. /\ lock[k] = <<"cross", l>> <=> CrossHolds(l, k)
      /\ lock[k] = <<"arrive", l>> <=> ArriveHolds(l, k)
  BY DEF LockInv, HolderOf
<1>3. /\ CrossHolds(l, k)' <=> CrossHolds(l, k) \/ (k = d /\ l = w)
      /\ ArriveHolds(l, k)' <=> ArriveHolds(l, k)
  OBVIOUS
<1>4. k = d => ~CrossHolds(l, k) /\ ~ArriveHolds(l, k)
  BY <1>2, Threads
<1>5. /\ <<"cross", w>> = <<"cross", l>> <=> l = w
      /\ <<"cross", w>> # <<"arrive", l>>
  BY Threads
<1> QED
  BY ONLY <1>1, <1>2, <1>3, <1>4, <1>5

LEMMA CrossGives ==
  ASSUME TypeInv, LockInv, NEW w \in Lane, NEW d \in Lane,
         lock' = [lock EXCEPT ![d] = Free],
         \A k \in Lane : lock[k] = <<"cross", w>> <=> k = d,
         \A l, k \in Lane : CrossHolds(l, k)' <=> CrossHolds(l, k) /\ l # w,
         \A l, k \in Lane : ArriveHolds(l, k)' <=> ArriveHolds(l, k)
  PROVE  LockInv'
<1> SUFFICES ASSUME NEW k \in Lane, NEW l \in Lane
             PROVE  /\ lock'[k] = <<"cross", l>> <=> CrossHolds(l, k)'
                    /\ lock'[k] = <<"arrive", l>> <=> ArriveHolds(l, k)'
  BY DEF LockInv, HolderOf
<1>1. lock'[k] = IF k = d THEN Free ELSE lock[k]
  BY DEF TypeInv, BasicType
<1>2. /\ lock[k] = <<"cross", l>> <=> CrossHolds(l, k)
      /\ lock[k] = <<"arrive", l>> <=> ArriveHolds(l, k)
  BY DEF LockInv, HolderOf
<1>3. /\ CrossHolds(l, k)' <=> CrossHolds(l, k) /\ l # w
      /\ ArriveHolds(l, k)' <=> ArriveHolds(l, k)
  OBVIOUS
<1>4. lock[k] = <<"cross", w>> <=> k = d
  OBVIOUS
<1>5. /\ Free # <<"cross", l>> /\ Free # <<"arrive", l>>
      /\ <<"cross", w>> = <<"cross", l>> <=> l = w
      /\ <<"cross", w>> # <<"arrive", l>>
  BY Threads
<1> QED
  BY ONLY <1>1, <1>2, <1>3, <1>4, <1>5

LEMMA LockInvStep == TypeInv /\ LockInv /\ [Next]_vars => LockInv'
<1> SUFFICES ASSUME TypeInv, LockInv, [Next]_vars PROVE LockInv'
  OBVIOUS
<1>b. ASSUME NEW l \in Lane, NEW k \in Lane
      PROVE  /\ lock[k] = <<"arrive", l>> <=> ArriveHolds(l, k)
             /\ lock[k] = <<"cross", l>> <=> CrossHolds(l, k)
  BY DEF LockInv, HolderOf
<1>c. /\ arrive \in [Lane -> ArrivePc] /\ cross \in [Lane -> CrossPc]
      /\ cur_car \in [Lane -> SlotCar]
  BY DEF TypeInv, BasicType
<1>1. ASSUME NEW l \in Lane, ArriveLock(l) PROVE LockInv'
  <2>1. lock[l] = Free /\ lock' = [lock EXCEPT ![l] = <<"arrive", l>>]
    BY <1>1 DEF ArriveLock
  <2>2. /\ \A m, k \in Lane : ArriveHolds(m, k)' <=> ArriveHolds(m, k) \/ (k = l /\ m = l)
        /\ \A m, k \in Lane : CrossHolds(m, k)' <=> CrossHolds(m, k)
    <3>1. \A m \in Lane : /\ arrive'[m] \in {"locked", "relocked"}
                               <=> arrive[m] \in {"locked", "relocked"} \/ m = l
                          /\ cross'[m] = cross[m] /\ cur_car'[m] = cur_car[m]
      BY <1>1, <1>c DEF ArriveLock, localVars
    <3> QED
      BY <3>1 DEF ArriveHolds, CrossHolds, ExitLane
  <2> QED
    BY <2>1, <2>2, ArriveTakes
<1>2. ASSUME NEW l \in Lane, ArriveReturn(l) \/ ArriveWait(l) \/ ArriveInsert(l) PROVE LockInv'
  <2>1. lock' = [lock EXCEPT ![l] = Free] /\ ArriveHolds(l, l)
    BY <1>2 DEF ArriveReturn, ArriveWait, ArriveInsert, ArriveTests, Unlock, ArriveHolds
  <2>2. \A k \in Lane : lock[k] = <<"arrive", l>> <=> k = l
    BY <1>b, <2>1 DEF ArriveHolds, CrossHolds
  <2>3. \A m \in Lane : /\ arrive'[m] \in {"locked", "relocked"}
                             <=> arrive[m] \in {"locked", "relocked"} /\ m # l
                        /\ cross'[m] \in {"locked", "relocked"}
                             <=> cross[m] \in {"locked", "relocked"}
                        /\ cross'[m] = "append" <=> cross[m] = "append"
                        /\ cur_car'[m] = cur_car[m]
    BY <1>2, <1>c DEF ArriveReturn, ArriveWait, ArriveInsert, Signal, localVars
  <2>4. /\ \A m, k \in Lane : ArriveHolds(m, k)' <=> ArriveHolds(m, k) /\ m # l
        /\ \A m, k \in Lane : CrossHolds(m, k)' <=> CrossHolds(m, k)
    BY <2>3, Threads DEF ArriveHolds, CrossHolds, ExitLane
  <2> QED
    BY <2>1, <2>2, <2>4, ArriveGives
<1>3. ASSUME NEW l \in Lane, CrossLock(l) PROVE LockInv'
  <2>1. lock[l] = Free /\ lock' = [lock EXCEPT ![l] = <<"cross", l>>]
    BY <1>3 DEF CrossLock
  <2>2. /\ \A m, k \in Lane : ArriveHolds(m, k)' <=> ArriveHolds(m, k)
        /\ \A m, k \in Lane : CrossHolds(m, k)' <=> CrossHolds(m, k) \/ (k = l /\ m = l)
    <3>1. \A m \in Lane : /\ arrive'[m] = arrive[m]
                          /\ cross'[m] \in {"locked", "relocked"}
                               <=> cross[m] \in {"locked", "relocked"} \/ m = l
                          /\ cross'[m] = "append" <=> cross[m] = "append"
                          /\ cur_car'[m] = cur_car[m]
      BY <1>3, <1>c DEF CrossLock, localVars
    <3> QED
      BY <3>1 DEF ArriveHolds, CrossHolds, ExitLane
  <2> QED
    BY <2>1, <2>2, CrossTakes
<1>4. ASSUME NEW l \in Lane, CrossReturn(l) \/ CrossWait(l) \/ CrossTake(l) PROVE LockInv'
  <2>1. lock' = [lock EXCEPT ![l] = Free] /\ cross[l] \in {"locked", "relocked"}
    BY <1>4 DEF CrossReturn, CrossWait, CrossTake, CrossTests, Unlock
  <2>2. \A k \in Lane : lock[k] = <<"cross", l>> <=> k = l
    BY <1>b, <2>1 DEF ArriveHolds, CrossHolds
  <2>3. \A m \in Lane : /\ arrive'[m] \in {"locked", "relocked"}
                             <=> arrive[m] \in {"locked", "relocked"}
                        /\ cross'[m] \in {"locked", "relocked"}
                             <=> cross[m] \in {"locked", "relocked"} /\ m # l
                        /\ cross'[m] = "append" <=> cross[m] = "append" /\ m # l
                        /\ m # l => cur_car'[m] = cur_car[m]
    BY <1>4, <2>1, <1>c DEF CrossReturn, CrossWait, CrossTake, Signal, localVars
  <2>4. /\ \A m, k \in Lane : ArriveHolds(m, k)' <=> ArriveHolds(m, k)
        /\ \A m, k \in Lane : CrossHolds(m, k)' <=> CrossHolds(m, k) /\ m # l
    BY <2>3, Threads DEF ArriveHolds, CrossHolds, ExitLane
  <2> QED
    BY <2>1, <2>2, <2>4, CrossGives
<1>5. ASSUME NEW l \in Lane, LockExit(l) PROVE LockInv'
  <2>1. CASE ExitLane(l) \in Lane
    <3>1. lock[ExitLane(l)] = Free /\ lock' = [lock EXCEPT ![ExitLane(l)] = <<"cross", l>>]
      BY <1>5 DEF LockExit
    <3>2. /\ \A m, k \in Lane : ArriveHolds(m, k)' <=> ArriveHolds(m, k)
          /\ \A m, k \in Lane :
               CrossHolds(m, k)' <=> CrossHolds(m, k) \/ (k = ExitLane(l) /\ m = l)
      <4>1. \A m \in Lane : /\ arrive'[m] = arrive[m]
                            /\ cross'[m] \in {"locked", "relocked"}
                                 <=> cross[m] \in {"locked", "relocked"}
                            /\ cross'[m] = "append" <=> cross[m] = "append" \/ m = l
                            /\ cur_car'[m] = cur_car[m]
        BY <1>5, <1>c DEF LockExit, localVars
      <4> QED
        BY <4>1 DEF ArriveHolds, CrossHolds, ExitLane
    <3> QED
      BY <2>1, <3>1, <3>2, CrossTakes
  <2>2. CASE ExitLane(l) \notin Lane
    <3>1. lock' = lock
      BY <1>5, <2>2 DEF LockExit, TypeInv, BasicType
    <3>2. \A m, k \in Lane : /\ ArriveHolds(m, k)' <=> ArriveHolds(m, k)
                             /\ CrossHolds(m, k)' <=> CrossHolds(m, k)
      BY <1>5, <2>2, <1>c DEF LockExit, localVars, ArriveHolds, CrossHolds, ExitLane
    <3> QED
      BY <3>1, <3>2, LockKept
  <2> QED
    BY <2>1, <2>2
<1>6. ASSUME NEW l \in Lane, AppendCar(l) PROVE LockInv'
  <2>1. lock' = [lock EXCEPT ![ExitLane(l)] = Free] /\ cross[l] = "append"
    BY <1>6 DEF AppendCar, UnlockExit, Unlock
  <2>2. \A k \in Lane : lock[k] = <<"cross", l>> <=> k = ExitLane(l)
    BY <1>b, <2>1 DEF ArriveHolds, CrossHolds
  <2>3. \A m \in Lane : /\ arrive'[m] = arrive[m]
                        /\ m # l => cross'[m] = cross[m] /\ cur_car'[m] = cur_car[m]
                        /\ m = l => cross'[m] = "unlock"
    BY <1>6, <1>c DEF AppendCar
  <2>4. /\ \A m, k \in Lane : ArriveHolds(m, k)' <=> ArriveHolds(m, k)
        /\ \A m, k \in Lane : CrossHolds(m, k)' <=> CrossHolds(m, k) /\ m # l
    BY <2>3, Threads DEF ArriveHolds, CrossHolds, ExitLane
  <2>5. CASE ExitLane(l) \in Lane
    BY <2>1, <2>2, <2>4, <2>5, CrossGives
  <2>6. CASE ExitLane(l) \notin Lane
    <3>1. lock' = lock
      BY <2>1, <2>6 DEF TypeInv, BasicType
    <3>2. \A m, k \in Lane : CrossHolds(m, k)' <=> CrossHolds(m, k)
      BY <2>1, <2>4, <2>6 DEF CrossHolds
    <3> QED
      BY <2>4, <3>1, <3>2, LockKept
  <2> QED
    BY <2>5, <2>6
<1>7. ASSUME \/ \E l \in Lane : \/ CrossPath(l) \/ CrossPathInvalid(l)
                                \/ LockQuad(l) \/ UnlockQuad(l) \/ SpuriousWake(l)
             \/ Verify \/ UNCHANGED vars
      PROVE  LockInv'
  <2>1. lock' = lock /\ cur_car' = cur_car
    BY <1>7 DEF CrossPath, CrossPathInvalid, LockQuad, UnlockQuad, SpuriousWake, Verify,
                vars, localVars
  <2>2. \A m \in Lane : /\ arrive'[m] \in {"locked", "relocked"}
                             <=> arrive[m] \in {"locked", "relocked"}
                        /\ cross'[m] \in {"locked", "relocked"}
                             <=> cross[m] \in {"locked", "relocked"}
                        /\ cross'[m] = "append" <=> cross[m] = "append"
    BY <1>7, <1>c DEF CrossPath, CrossPathInvalid, LockQuad, UnlockQuad, SpuriousWake, Verify,
                      vars
  <2>3. \A m, k \in Lane : /\ ArriveHolds(m, k)' <=> ArriveHolds(m, k)
                           /\ CrossHolds(m, k)' <=> CrossHolds(m, k)
    BY <2>1, <2>2 DEF ArriveHolds, CrossHolds, ExitLane
  <2> QED
    BY <2>1, <2>3, LockKept
<1> QED
  BY <1>1, <1>2, <1>3, <1>4, <1>5, <1>6, <1>7
  DEF Next, ArriveStep, CrossStep, Terminated

THEOREM LockInvariance == Spec => []LockInv
<1>1. TypeInv /\ LockInv /\ [Next]_vars => LockInv'
  BY LockInvStep
<1> QED
  BY LockInvInit, <1>1, TypeInvariance, PTL DEF Spec

(* A crossing thread holds no lane mutex while it waits for quadrants or   *)
(* gives them back: lane mutexes come after quadrants in the lock order.   *)
THEOREM LaneLocksComeLastCorrect == Spec => []LaneLocksComeLast
<1>1. LockInv => LaneLocksComeLast
  BY DEF LockInv, HolderOf, CrossHolds, LaneLocksComeLast
<1> QED
  BY <1>1, LockInvariance, PTL

(* The fields of a lane are written only by the holder of its mutex.       *)
THEOREM WritesUnderLockCorrect == Spec => WritesUnderLock
<1> DEFINE Holder(l) == \E t \in Thread : lock[l] = t /\ PcOf(t)' # PcOf(t)
<1>1. ASSUME TypeInv, LockInv, [Next]_vars, NEW l \in Lane, LaneFields(l)' # LaneFields(l)
      PROVE  Holder(l)
  <2> USE DEF LaneFields
  <2> USE <1>1
  <2>1. \/ ArriveInsert(l) \/ CrossTake(l)
        \/ \E m \in Lane : AppendCar(m) /\ l = ExitLane(m)
    <3>1. ASSUME NEW m \in Lane, ArriveInsert(m) PROVE m = l
      BY <3>1 DEF ArriveInsert, TypeInv, BasicType
    <3>2. ASSUME NEW m \in Lane, CrossTake(m) PROVE m = l
      BY <3>2 DEF CrossTake, TypeInv, BasicType
    <3>3. ASSUME NEW m \in Lane, AppendCar(m) PROVE l = ExitLane(m)
      BY <3>3 DEF AppendCar, TypeInv, BasicType
    <3>4. ASSUME NEW m \in Lane,
                 \/ ArriveLock(m) \/ ArriveReturn(m) \/ ArriveWait(m)
                 \/ CrossLock(m) \/ CrossReturn(m) \/ CrossWait(m)
                 \/ CrossPath(m) \/ CrossPathInvalid(m) \/ LockQuad(m) \/ LockExit(m)
                 \/ UnlockQuad(m) \/ SpuriousWake(m)
          PROVE  FALSE
      BY <3>4 DEF ArriveLock, ArriveReturn, ArriveWait, CrossLock, CrossReturn, CrossWait,
                  CrossPath, CrossPathInvalid, LockQuad, LockExit, UnlockQuad, SpuriousWake, laneVars
    <3>5. ~Verify /\ ~UNCHANGED vars
      BY DEF Verify, vars, laneVars
    <3> QED
      BY <3>1, <3>2, <3>3, <3>4, <3>5 DEF Next, ArriveStep, CrossStep, Terminated
  <2>2. CASE ArriveInsert(l)
    <3>1. lock[l] = <<"arrive", l>> /\ arrive[l] # "lock" /\ arrive'[l] = "lock"
      BY <2>2 DEF ArriveInsert, ArriveTests, LockInv, HolderOf, ArriveHolds, TypeInv, BasicType
    <3>2. <<"arrive", l>> \in Thread /\ PcOf(<<"arrive", l>>) = arrive[l]
          /\ PcOf(<<"arrive", l>>)' = arrive'[l]
      BY DEF Thread, PcOf
    <3> QED
      BY <3>1, <3>2
  <2>3. CASE CrossTake(l)
    <3>1. lock[l] = <<"cross", l>> /\ cross[l] # "path" /\ cross'[l] = "path"
      BY <2>3 DEF CrossTake, CrossTests, LockInv, HolderOf, CrossHolds, TypeInv, BasicType
    <3>2. <<"cross", l>> \in Thread /\ PcOf(<<"cross", l>>) = cross[l]
          /\ PcOf(<<"cross", l>>)' = cross'[l]
      BY DEF Thread, PcOf
    <3> QED
      BY <3>1, <3>2
  <2>4. ASSUME NEW m \in Lane, AppendCar(m), l = ExitLane(m) PROVE Holder(l)
    <3>1. lock[l] = <<"cross", m>> /\ cross[m] # "unlock" /\ cross'[m] = "unlock"
      BY <2>4 DEF AppendCar, LockInv, HolderOf, CrossHolds, TypeInv, BasicType
    <3>2. <<"cross", m>> \in Thread /\ PcOf(<<"cross", m>>) = cross[m]
          /\ PcOf(<<"cross", m>>)' = cross'[m]
      BY DEF Thread, PcOf
    <3> QED
      BY <3>1, <3>2
  <2> QED
    BY <2>1, <2>2, <2>3, <2>4
<1>2. TypeInv /\ LockInv /\ [Next]_vars =>
        [\A l \in Lane : LaneFields(l)' # LaneFields(l) => Holder(l)]_vars
  BY <1>1
<1> QED
  BY <1>2, TypeInvariance, LockInvariance, PTL DEF Spec, WritesUnderLock
-----------------------------------------------------------------------------
(* The car on the road.  Taken(l) cars of the schedule have been taken by  *)
(* the crossing thread of l, Through(l) of them are in a list already.     *)
Carrying == {"path", "quads", "exit", "append"}

Taken(l) == Len(Arrivals[l]) - inc[l]
Through(l) == IF cross[l] \in Carrying THEN Taken(l) - 1 ELSE Taken(l)

CarInv ==
  \A l \in Lane :
    /\ cross[l] \in Carrying => Taken(l) > 0 /\ cur_car[l] = Arrivals[l][Taken(l)]
    /\ cross[l] \notin Carrying => cur_car[l] = NoCar
    /\ cross[l] \in Carrying \ {"path"} => ExitLane(l) \in Lane

LEMMA CarInvInit == Init => CarInv
BY LaneAssumption DEF Init, CarInv, Carrying

(* What CrossTake takes is the next car of the schedule.                   *)
LEMMA TakesNext ==
  ASSUME TypeInv, RingInv, NEW l \in Lane, CrossTake(l)
  PROVE  /\ cur_car'[l] = Arrivals[l][Taken(l)'] /\ Taken(l)' = Taken(l) + 1
         /\ Taken(l) \in Nat
<1> USE ArrivalsAssumption, CapacityAssumption
<1>1. /\ inc[l] \in Nat /\ in_buf[l] \in 1 .. Capacity /\ head[l] \in Slot
      /\ Len(Arrivals[l]) \in Nat /\ inc[l] <= Len(Arrivals[l])
  BY DEF TypeInv, BasicType, CrossTake, RingInv, Ring
<1>2. cur_car'[l] = buffer[l][head[l]] /\ inc'[l] = inc[l] - 1
  BY DEF CrossTake, TypeInv, BasicType
<1>3. buffer[l][Pos(head[l], 1 - 1)] = At(l, 1)
  BY <1>1 DEF RingInv, Ring
<1>4. Pos(head[l], 1 - 1) = head[l]
  BY <1>1, PosFacts
<1>5. Taken(l)' = Taken(l) + 1 /\ Taken(l) \in Nat
  BY <1>1, <1>2 DEF Taken
<1>6. At(l, 1) = Arrivals[l][Taken(l) + 1]
  BY DEF At, Taken
<1> QED
  BY <1>2, <1>3, <1>4, <1>5, <1>6

LEMMA CarKept ==
  ASSUME CarInv, UNCHANGED <<inc, cur_car>>,
         \A l \in Lane : cross'[l] = cross[l] \/ (cross[l] \notin Carrying /\ cross'[l] \notin Carrying)
                      \/ (cross[l] \in Carrying \ {"path"} /\ cross'[l] \in Carrying)
  PROVE  CarInv' /\ \A l \in Lane : Through(l)' = Through(l)
<1>1. \A l \in Lane : Taken(l)' = Taken(l) /\ ExitLane(l)' = ExitLane(l)
  BY DEF Taken, ExitLane
<1> HIDE DEF Taken, ExitLane
<1> QED
  BY <1>1 DEF CarInv, Through, Carrying

LEMMA CarInvStep ==
  ASSUME TypeInv, RingInv, CarInv, [Next]_vars
  PROVE  /\ CarInv'
         /\ \/ \A l \in Lane : Through(l)' = Through(l)
            \/ \E l \in Lane : AppendCar(l)
<1> DEFINE Goal == CarInv' /\ \A l \in Lane : Through(l)' = Through(l)
<1>c. cross \in [Lane -> CrossPc] /\ cur_car \in [Lane -> SlotCar] /\ inc \in [Lane -> Nat]
  BY DEF TypeInv, BasicType
<1>1. ASSUME \/ Verify \/ UNCHANGED vars
             \/ \E l \in Lane :
                  \/ ArriveStep(l) \/ SpuriousWake(l)
                  \/ CrossLock(l) \/ CrossReturn(l) \/ CrossWait(l) \/ CrossPathInvalid(l)
                  \/ LockQuad(l) \/ LockExit(l) \/ UnlockQuad(l)
      PROVE  Goal
  <2>1. UNCHANGED <<inc, cur_car>>
    BY <1>1 DEF ArriveStep, ArriveLock, ArriveReturn, ArriveWait, ArriveInsert, SpuriousWake,
         Verify, vars, CrossLock, CrossReturn, CrossWait, CrossPathInvalid, LockQuad, LockExit,
         UnlockQuad, laneVars, localVars
  <2>2. ASSUME NEW m \in Lane
        PROVE  \/ cross'[m] = cross[m] \/ (cross[m] \notin Carrying /\ cross'[m] \notin Carrying)
               \/ (cross[m] \in Carrying \ {"path"} /\ cross'[m] \in Carrying)
    <3>1. CASE (\E l \in Lane : ArriveStep(l) \/ SpuriousWake(l)) \/ Verify \/ UNCHANGED vars
      BY <1>c, <3>1 DEF ArriveStep, ArriveLock, ArriveReturn, ArriveWait, ArriveInsert, Signal,
         SpuriousWake, Verify, vars, Carrying
    <3>2. CASE \E l \in Lane : CrossLock(l) \/ CrossReturn(l) \/ CrossWait(l) \/ CrossPathInvalid(l)
      BY <1>c, <3>2 DEF CrossLock, CrossReturn, CrossWait, CrossTests, CrossPathInvalid, Carrying
    <3>3. CASE \E l \in Lane : LockQuad(l) \/ LockExit(l) \/ UnlockQuad(l)
      BY <1>c, <3>3 DEF LockQuad, LockExit, UnlockQuad, Carrying
    <3> QED
      BY <1>1, <3>1, <3>2, <3>3
  <2> QED
    BY <2>1, <2>2, CarKept
<1>2. ASSUME NEW l \in Lane, CrossTake(l) PROVE Goal
  <2>1. /\ cur_car'[l] = Arrivals[l][Taken(l)'] /\ Taken(l)' = Taken(l) + 1
        /\ Taken(l) \in Nat
    BY <1>2, TakesNext
  <2>2. cross[l] \notin Carrying /\ cross'[l] = "path"
    BY <1>2, <1>c DEF CrossTake, CrossTests, Carrying
  <2>3. \A m \in Lane : m # l => /\ cross'[m] = cross[m] /\ cur_car'[m] = cur_car[m]
                                 /\ Taken(m)' = Taken(m) /\ ExitLane(m)' = ExitLane(m)
    BY <1>2, <1>c DEF CrossTake, Taken, ExitLane
  <2>4. CarInv'
    BY <2>1, <2>2, <2>3 DEF CarInv, Carrying
  <2>5. \A m \in Lane : Through(m)' = Through(m)
    BY <2>1, <2>2, <2>3 DEF Through, Carrying
  <2> QED
    BY <2>4, <2>5
<1>3. ASSUME NEW l \in Lane, CrossPath(l) PROVE Goal
  <2>1. cross[l] = "path" /\ ExitLane(l) \in Dir /\ UNCHANGED <<cur_car, inc>>
        /\ \A m \in Lane : cross'[m] = IF m = l THEN "quads" ELSE cross[m]
    BY <1>3, <1>c DEF CrossPath, ValidDirections, ExitLane, laneVars
  <2>2. ExitLane(l) \in Lane
    BY <2>1, CarAssumption DEF RingInv, Carries, ExitLane
  <2>3. \A m \in Lane : Taken(m)' = Taken(m) /\ ExitLane(m)' = ExitLane(m)
    BY <2>1 DEF Taken, ExitLane
  <2> QED
    BY <2>1, <2>2, <2>3 DEF CarInv, Through, Carrying
<1>4. ASSUME NEW l \in Lane, AppendCar(l) PROVE CarInv'
  <2>1. /\ \A m \in Lane : /\ cross'[m] = IF m = l THEN "unlock" ELSE cross[m]
                           /\ cur_car'[m] = IF m = l THEN NoCar ELSE cur_car[m]
        /\ inc' = inc
    BY <1>4, <1>c DEF AppendCar
  <2>2. \A m \in Lane : Taken(m)' = Taken(m) /\ (m # l => ExitLane(m)' = ExitLane(m))
    BY <2>1 DEF Taken, ExitLane
  <2> QED
    BY <2>1, <2>2 DEF CarInv, Carrying
<1> QED
  BY <1>1, <1>2, <1>3, <1>4 DEF Next, CrossStep, Terminated

THEOREM CarInvariance == Spec => []CarInv
<1>1. TypeInv /\ RingInv /\ CarInv /\ [Next]_vars => CarInv'
  BY CarInvStep
<1> QED
  BY CarInvInit, <1>1, TypeInvariance, RingInvariance, PTL DEF Spec
-----------------------------------------------------------------------------
(* What has become of the cars.                                            *)
CarsIn(list) == {list[i] : i \in 1 .. Len(list)}

Listed(d) == CarsIn(out_cars[d])

Gone(d) == {c \in Car : /\ c.out_dir = d
                        /\ \E l \in Lane : \E k \in 1 .. Through(l) : c = Arrivals[l][k]}

OutInv ==
  /\ \A d \in Lane : /\ Listed(d) = Gone(d)
                     /\ IsFiniteSet(Listed(d))
                     /\ passed[d] = Len(out_cars[d])
                     /\ passed[d] = Cardinality(Listed(d))
  /\ status = "verified" => \A l \in Lane : cross[l] = "done"

LEMMA PutFirstIs ==
  ASSUME NEW S, NEW s \in Seq(S), NEW c \in S
  PROVE  /\ Len(PutFirst(c, s)) = Len(s) + 1
         /\ CarsIn(PutFirst(c, s)) = {c} \cup CarsIn(s)
<1> DEFINE t == PutFirst(c, s)
<1>1. /\ t \in Seq(S) /\ Len(t) = Len(s) + 1 /\ t[1] = c
      /\ \A i \in 1 .. Len(s) : t[i + 1] = s[i]
  BY DEF PutFirst
<1> HIDE DEF t
<1>2. ASSUME NEW i \in 1 .. Len(t) PROVE t[i] \in {c} \cup {s[j] : j \in 1 .. Len(s)}
  <2>1. CASE i = 1
    BY <1>1, <2>1
  <2>2. CASE i # 1
    <3>1. i - 1 \in 1 .. Len(s) /\ (i - 1) + 1 = i
      BY <1>1, <2>2
    <3>2. t[i] = s[i - 1]
      BY <1>1, <3>1
    <3> QED
      BY <3>1, <3>2
  <2> QED
    BY <2>1, <2>2
<1>3. ASSUME NEW i \in 1 .. Len(s) PROVE s[i] \in {t[j] : j \in 1 .. Len(t)}
  <2>1. i + 1 \in 1 .. Len(t) /\ t[i + 1] = s[i]
    BY <1>1
  <2> QED
    BY <2>1
<1>4. c \in {t[j] : j \in 1 .. Len(t)}
  <2>1. 1 \in 1 .. Len(t)
    BY <1>1
  <2> QED
    BY <1>1, <2>1
<1>5. {t[i] : i \in 1 .. Len(t)} = {c} \cup {s[i] : i \in 1 .. Len(s)}
  BY <1>2, <1>3, <1>4
<1> QED
  BY <1>1, <1>5 DEF t, CarsIn

LEMMA OutInvInit == Init => OutInv
<1> SUFFICES ASSUME Init, NEW d \in Lane
             PROVE  /\ Listed(d) = Gone(d) /\ IsFiniteSet(Listed(d))
                    /\ passed[d] = Len(out_cars[d]) /\ passed[d] = Cardinality(Listed(d))
  BY DEF OutInv, Init
<1>1. out_cars[d] = <<>> /\ passed[d] = 0
  BY DEF Init
<1>2. Listed(d) = {}
  BY <1>1 DEF Listed, CarsIn
<1>3. ASSUME NEW l \in Lane PROVE Through(l) = 0
  <2>1. inc[l] = Len(Arrivals[l]) /\ cross[l] = "lock" /\ Len(Arrivals[l]) \in Nat
    BY ArrivalsAssumption DEF Init
  <2> QED
    BY <2>1 DEF Through, Taken, Carrying
<1>4. Gone(d) = {}
  BY <1>3 DEF Gone
<1> QED
  BY <1>1, <1>2, <1>4, FS_EmptySet

(* No other step touches the lists.                                        *)
LEMMA ListsKept ==
  ASSUME TypeInv, [Next]_vars, \A l \in Lane : ~AppendCar(l)
  PROVE  UNCHANGED <<out_cars, passed>>
BY DEF Next, ArriveStep, CrossStep, Terminated, ArriveLock, ArriveReturn, ArriveWait,
   ArriveInsert, CrossLock, CrossReturn, CrossWait, CrossTake, CrossPath, CrossPathInvalid,
   LockQuad, LockExit, UnlockQuad, SpuriousWake, Verify, vars, laneVars

(* The car appended is in no list yet: each car of a schedule crosses once. *)
LEMMA AppendsNew ==
  ASSUME TypeInv, RingInv, CarInv, OutInv, NEW l \in Lane, AppendCar(l)
  PROVE  /\ cur_car[l] \in Car /\ ExitLane(l) \in Lane
         /\ cur_car[l] \notin Gone(ExitLane(l))
         /\ \A d \in Lane : Gone(d)' = IF d = ExitLane(l) THEN Gone(d) \cup {cur_car[l]}
                                                         ELSE Gone(d)
<1> DEFINE c == cur_car[l]
<1>1. /\ cross[l] = "append" /\ c \in Car /\ c.in_dir = l /\ c.out_dir = ExitLane(l)
      /\ ExitLane(l) \in Lane /\ Taken(l) > 0 /\ c = Arrivals[l][Taken(l)]
  BY DEF AppendCar, RingInv, Carries, CarInv, Carrying, ExitLane
<1>2. ASSUME NEW m \in Lane PROVE Taken(m) \in Nat /\ Taken(m) <= Len(Arrivals[m])
  <2>1. inc[m] \in Nat /\ inc[m] <= Len(Arrivals[m]) /\ Len(Arrivals[m]) \in Nat
    BY ArrivalsAssumption DEF TypeInv, BasicType, RingInv, Ring
  <2> QED
    BY <2>1 DEF Taken
<1>3. /\ Through(l) = Taken(l) - 1 /\ Through(l)' = Taken(l)
      /\ \A m \in Lane : m # l => Through(m)' = Through(m)
  BY <1>1 DEF AppendCar, TypeInv, BasicType, Through, Taken, Carrying
<1>4. ASSUME NEW m \in Lane PROVE Through(m) \in Int /\ Through(m) <= Taken(m)
  BY <1>2 DEF Through
<1> HIDE DEF c
<1>5. c \notin Gone(ExitLane(l))
  <2> SUFFICES ASSUME NEW m \in Lane, NEW k \in 1 .. Through(m), c = Arrivals[m][k] PROVE FALSE
    BY DEF Gone
  <2>1. k \in 1 .. Len(Arrivals[m])
    BY <1>2, <1>4
  <2>2. m = l
    BY <2>1, <1>1, ArrivalsAssumption
  <2>3. Taken(l) \in 1 .. Len(Arrivals[l])
    BY <1>1, <1>2
  <2>4. k = Taken(l)
    <3>1. k \in 1 .. Len(Arrivals[l]) /\ Arrivals[l][k] = Arrivals[l][Taken(l)]
      BY <1>1, <2>1, <2>2
    <3> QED
      BY ONLY <2>3, <3>1, l \in Lane, DistinctAssumption
  <2> QED
    BY <1>2, <1>3, <2>2, <2>4
<1>6. ASSUME NEW m \in Lane, NEW k
      PROVE  k \in 1 .. Through(m)' <=> k \in 1 .. Through(m) \/ (m = l /\ k = Taken(l))
  <2>1. CASE m = l
    BY <1>1, <1>2, <1>3, <2>1
  <2>2. CASE m # l
    BY <1>3, <2>2
  <2> QED
    BY <2>1, <2>2
<1>7. ASSUME NEW e PROVE (\E m \in Lane : \E k \in 1 .. Through(m)' : e = Arrivals[m][k])
                       <=> e = c \/ \E m \in Lane : \E k \in 1 .. Through(m) : e = Arrivals[m][k]
  BY <1>1, <1>6
<1>8. ASSUME NEW d \in Lane
      PROVE  Gone(d)' = IF d = ExitLane(l) THEN Gone(d) \cup {c} ELSE Gone(d)
  <2>1. ASSUME NEW e \in Car, e.out_dir = d
        PROVE  e \in Gone(d)' <=> (d = ExitLane(l) /\ e = c) \/ e \in Gone(d)
    BY <1>1, <1>7, <2>1 DEF Gone
  <2>2. \A e \in Gone(d) \cup Gone(d)' : e \in Car /\ e.out_dir = d
    BY DEF Gone
  <2> QED
    BY <1>1, <2>1, <2>2
<1> QED
  BY <1>1, <1>5, <1>8 DEF c

LEMMA OutInvStep ==
  ASSUME TypeInv, RingInv, CarInv, OutInv, [Next]_vars
  PROVE  OutInv'
<1> DEFINE Kept(d) == /\ Listed(d) = Gone(d) /\ IsFiniteSet(Listed(d))
                      /\ passed[d] = Len(out_cars[d])
                      /\ passed[d] = Cardinality(Listed(d))
<1>1. ASSUME NEW l \in Lane, AppendCar(l), NEW d \in Lane PROVE Kept(d)'
  <2>1. /\ cur_car[l] \in Car /\ ExitLane(l) \in Lane
        /\ cur_car[l] \notin Gone(ExitLane(l))
        /\ Gone(d)' = IF d = ExitLane(l) THEN Gone(d) \cup {cur_car[l]} ELSE Gone(d)
    BY <1>1, AppendsNew
  <2>2. Kept(d) /\ out_cars[d] \in Seq(Car)
    BY DEF OutInv, RingInv
  <2>3. CASE d = ExitLane(l)
    <3>1. out_cars'[d] = PutFirst(cur_car[l], out_cars[d]) /\ passed'[d] = passed[d] + 1
      BY <1>1, <2>1, <2>3 DEF AppendCar, TypeInv, BasicType
    <3>2. /\ Len(out_cars'[d]) = Len(out_cars[d]) + 1
          /\ Listed(d)' = {cur_car[l]} \cup Listed(d)
      <4>1. cur_car[l] \in Car /\ out_cars[d] \in Seq(Car)
        BY <2>1, <2>2
      <4>2. /\ Len(PutFirst(cur_car[l], out_cars[d])) = Len(out_cars[d]) + 1
            /\ CarsIn(PutFirst(cur_car[l], out_cars[d])) = {cur_car[l]} \cup CarsIn(out_cars[d])
        BY <4>1, PutFirstIs
      <4> QED
        BY <3>1, <4>2 DEF Listed
    <3>3. cur_car[l] \notin Listed(d)
      BY <2>1, <2>2, <2>3
    <3>4. /\ IsFiniteSet(Listed(d) \cup {cur_car[l]})
          /\ Cardinality(Listed(d) \cup {cur_car[l]}) = Cardinality(Listed(d)) + 1
      BY <2>2, <3>3, FS_AddElement
    <3>5. Listed(d)' = Listed(d) \cup {cur_car[l]}
      BY <3>2
    <3> QED
      BY <2>1, <2>2, <2>3, <3>1, <3>2, <3>4, <3>5
  <2>4. CASE d # ExitLane(l)
    <3>1. out_cars'[d] = out_cars[d] /\ passed'[d] = passed[d]
      BY <1>1, <2>4 DEF AppendCar, TypeInv, BasicType
    <3>2. Listed(d)' = Listed(d)
      BY <3>1 DEF Listed
    <3> QED
      BY <2>1, <2>2, <2>4, <3>1, <3>2
  <2> QED
    BY <2>3, <2>4
<1>2. ASSUME \A l \in Lane : ~AppendCar(l), NEW d \in Lane PROVE Kept(d)'
  <2>1. UNCHANGED <<out_cars, passed>> /\ \A l \in Lane : Through(l)' = Through(l)
    BY <1>2, ListsKept, CarInvStep
  <2>2. Listed(d)' = Listed(d) /\ Gone(d)' = Gone(d)
    BY <2>1 DEF Listed, Gone
  <2> QED
    BY <2>1, <2>2 DEF OutInv
<1>3. status' = "verified" => \A l \in Lane : cross'[l] = "done"
  <2>1. CASE status = "running"
    <3>1. status' = "verified" => Verify
      BY <2>1 DEF Next, ArriveStep, CrossStep, Terminated, ArriveLock, ArriveReturn, ArriveWait,
         ArriveInsert, CrossLock, CrossReturn, CrossWait, CrossTake, CrossPath, CrossPathInvalid,
         LockQuad, LockExit, AppendCar, UnlockQuad, SpuriousWake, vars
    <3> QED
      BY <3>1 DEF Verify
  <2>2. CASE status # "running"
    <3>1. UNCHANGED vars
      BY <2>2 DEF Next, ArriveStep, CrossStep, Terminated, ArriveLock, ArriveReturn, ArriveWait,
         ArriveInsert, CrossLock, CrossReturn, CrossWait, CrossTake, CrossPath, CrossPathInvalid,
         LockQuad, LockExit, AppendCar, UnlockQuad, SpuriousWake, Verify, Running
    <3> QED
      BY <3>1 DEF vars, OutInv
  <2> QED
    BY <2>1, <2>2
<1> QED
  BY <1>1, <1>2, <1>3 DEF OutInv

(* When main reads the lists, each holds exactly the cars that leave by    *)
(* its lane, each once, whatever the threads did.                          *)
THEOREM DeliveredCorrect == Spec => []Delivered
<1>1. TypeInv /\ RingInv /\ CarInv /\ OutInv /\ [Next]_vars => OutInv'
  BY OutInvStep
<1>2. Init => WaitInv
  BY LaneAssumption DEF Init, WaitInv, NoLostWakeup
<1>3. TypeInv /\ WaitInv /\ [Next]_vars => WaitInv'
  BY WaitInvStep
<1>4. TypeInv /\ WaitInv /\ OutInv => Delivered
  <2> SUFFICES ASSUME TypeInv, WaitInv, OutInv, status = "verified", NEW d \in Lane
               PROVE  /\ passed[d] = Len(out_cars[d]) /\ passed[d] = Cardinality(Listed(d))
                      /\ Listed(d)
                           = {c \in UNION {{Arrivals[l][i] : i \in 1 .. Len(Arrivals[l])} : l \in Lane} :
                                c.out_dir = d}
    BY DEF Delivered, Listed, CarsIn
  <2>1. ASSUME NEW l \in Lane PROVE Through(l) = Len(Arrivals[l])
    <3>1. cross[l] = "done" /\ inc[l] = 0 /\ Len(Arrivals[l]) \in Nat
      BY ArrivalsAssumption DEF OutInv, WaitInv
    <3> QED
      BY <3>1 DEF Through, Taken, Carrying
  <2>2. ASSUME NEW l \in Lane, NEW i \in 1 .. Len(Arrivals[l]) PROVE Arrivals[l][i] \in Car
    BY ArrivalsAssumption
  <2>3. Gone(d) = {c \in UNION {{Arrivals[l][i] : i \in 1 .. Len(Arrivals[l])} : l \in Lane} :
                     c.out_dir = d}
    BY <2>1, <2>2 DEF Gone
  <2> QED
    BY <2>3 DEF OutInv
<1> QED
  BY OutInvInit, <1>1, <1>2, <1>3, <1>4, TypeInvariance, RingInvariance, CarInvariance, PTL
  DEF Spec
-----------------------------------------------------------------------------
(* The threads implement CarFlow.                                          *)
WindowIs(l) == /\ Window(l) \in Seq(Car) /\ Len(Window(l)) = in_buf[l]
               /\ \A k \in 1 .. in_buf[l] : Window(l)[k] = At(l, k)

LEMMA WindowFacts == TypeInv /\ RingInv => \A l \in Lane : WindowIs(l)
<1> SUFFICES ASSUME TypeInv, RingInv, NEW l \in Lane PROVE WindowIs(l)
  OBVIOUS
<1> USE ArrivalsAssumption, CapacityAssumption
<1>1. /\ in_buf[l] \in 0 .. Capacity /\ inc[l] \in Nat /\ head[l] \in Slot
      /\ Len(Arrivals[l]) \in Nat /\ inc[l] <= Len(Arrivals[l]) /\ Arrivals[l] \in Seq(Car)
      /\ in_cars[l] \in Seq(Car) /\ inc[l] = Len(in_cars[l]) + in_buf[l]
  BY DEF TypeInv, BasicType, Counted, RingInv, Ring
<1>2. ASSUME NEW k \in 1 .. in_buf[l] PROVE Window(l)[k] = At(l, k) /\ At(l, k) \in Car
  <2>1. Window(l)[k] = At(l, k)
    BY DEF RingInv, Ring, Window
  <2>2. Len(Arrivals[l]) - inc[l] + k \in 1 .. Len(Arrivals[l])
    BY <1>1
  <2> QED
    BY <1>1, <2>1, <2>2 DEF At
<1>3. Window(l) = [k \in 1 .. in_buf[l] |-> Window(l)[k]]
  BY DEF Window
<1>4. Window(l) \in Seq(Car) /\ Len(Window(l)) = in_buf[l]
  <2>1. Window(l) \in [1 .. in_buf[l] -> Car]
    BY <1>2, <1>3
  <2>2. in_buf[l] \in Nat
    BY <1>1
  <2> HIDE DEF Window
  <2> QED
    BY <2>1, <2>2
<1> QED
  BY <1>2, <1>4 DEF WindowIs

LEMMA WindowFactsNext == TypeInv' /\ RingInv' => \A l \in Lane : WindowIs(l)'
<1>1. (TypeInv /\ RingInv => \A l \in Lane : WindowIs(l))'
  BY WindowFacts, PTL
<1> QED
  BY <1>1

LEMMA WindowInsert ==
  ASSUME TypeInv, RingInv, TypeInv', RingInv', NEW l \in Lane, ArriveInsert(l)
  PROVE  /\ Window(l)' = Append(Window(l), Head(in_cars[l]))
         /\ in_cars[l] # <<>> /\ Len(Window(l)) < Capacity
<1>1. /\ in_cars[l] \in Seq(Car) /\ in_cars[l] # <<>> /\ in_buf[l] \in Nat
      /\ in_buf[l] < Capacity
  BY CapacityAssumption DEF TypeInv, BasicType, Counted, ArriveInsert, ArriveTests, AllArrived
<1>2. in_buf'[l] = in_buf[l] + 1 /\ inc' = inc
  BY DEF ArriveInsert, TypeInv, BasicType
<1>3. \A k : At(l, k)' = At(l, k)
  BY <1>2 DEF At
<1>4. /\ Window(l) \in Seq(Car) /\ Len(Window(l)) = in_buf[l]
      /\ \A k \in 1 .. in_buf[l] : Window(l)[k] = At(l, k)
  BY WindowFacts DEF WindowIs
<1>5. /\ Window(l)' \in Seq(Car) /\ Len(Window(l)') = in_buf[l] + 1
      /\ \A k \in 1 .. in_buf[l] + 1 : Window(l)'[k] = At(l, k)
  <2>1. /\ Window(l)' \in Seq(Car) /\ Len(Window(l)') = in_buf'[l]
        /\ \A k \in 1 .. in_buf'[l] : Window(l)'[k] = At(l, k)'
    BY WindowFactsNext DEF WindowIs
  <2> QED
    BY <2>1, <1>2, <1>3
<1>6. Head(in_cars[l]) = At(l, in_buf[l] + 1) /\ Head(in_cars[l]) \in Car
  <2>1. 1 \in 1 .. Len(in_cars[l]) /\ Head(in_cars[l]) = in_cars[l][1]
    BY <1>1
  <2> QED
    BY <2>1, <1>1 DEF RingInv, Ring
<1> DEFINE w == Window(l)
           v == Window(l)'
           u == Append(w, Head(in_cars[l]))
<1> HIDE DEF w, v
<1>7. /\ u \in Seq(Car) /\ Len(u) = in_buf[l] + 1
      /\ \A k \in 1 .. in_buf[l] + 1 : u[k] = At(l, k)
  <2>1. w \in Seq(Car) /\ Len(w) = in_buf[l] /\ \A k \in 1 .. in_buf[l] : w[k] = At(l, k)
    BY <1>4 DEF w
  <2>2. u \in Seq(Car) /\ Len(u) = in_buf[l] + 1
    BY <2>1, <1>6
  <2>3. u[in_buf[l] + 1] = Head(in_cars[l]) /\ \A k \in 1 .. in_buf[l] : u[k] = w[k]
    BY <2>1, <1>6
  <2> QED
    BY <2>1, <2>2, <2>3, <1>6, <1>1
<1> HIDE DEF u
<1>8. v \in Seq(Car) /\ Len(v) = in_buf[l] + 1 /\ \A k \in 1 .. in_buf[l] + 1 : v[k] = At(l, k)
  BY <1>5 DEF v
<1>9. v = u
  BY <1>7, <1>8, SeqEqual
<1> QED
  BY <1>1, <1>4, <1>9 DEF u, v, w

LEMMA WindowTake ==
  ASSUME TypeInv, RingInv, TypeInv', RingInv', NEW l \in Lane, CrossTake(l)
  PROVE  /\ Window(l) # <<>> /\ Window(l)' = Tail(Window(l))
         /\ cur_car'[l] = Head(Window(l)) /\ cur_car'[l] \in Car
<1>1. in_buf[l] \in 1 .. Capacity /\ head[l] \in Slot /\ inc[l] \in Nat /\ Len(Arrivals[l]) \in Nat
  BY CapacityAssumption, ArrivalsAssumption DEF TypeInv, BasicType, CrossTake
<1>2. in_buf'[l] = in_buf[l] - 1 /\ inc'[l] = inc[l] - 1 /\ cur_car'[l] = buffer[l][head[l]]
  BY DEF CrossTake, TypeInv, BasicType
<1>3. \A k \in Int : At(l, k)' = At(l, k + 1)
  <2>1. ASSUME NEW n \in Nat, NEW i \in Nat, NEW j, j = i - 1, NEW k \in Int
        PROVE  n - j + k = n - i + (k + 1)
    BY ONLY <2>1
  <2> SUFFICES ASSUME NEW k \in Int PROVE At(l, k)' = At(l, k + 1)
    OBVIOUS
  <2>2. Len(Arrivals[l]) - inc'[l] + k = Len(Arrivals[l]) - inc[l] + (k + 1)
    BY <1>1, <1>2, <2>1
  <2> QED
    BY <2>2 DEF At
<1>4. /\ Window(l) \in Seq(Car) /\ Len(Window(l)) = in_buf[l]
      /\ \A k \in 1 .. in_buf[l] : Window(l)[k] = At(l, k)
  BY WindowFacts DEF WindowIs
<1>5. /\ Window(l)' \in Seq(Car) /\ Len(Window(l)') = in_buf[l] - 1
      /\ \A k \in 1 .. in_buf[l] - 1 : Window(l)'[k] = At(l, k + 1)
  <2>1. /\ Window(l)' \in Seq(Car) /\ Len(Window(l)') = in_buf'[l]
        /\ \A k \in 1 .. in_buf'[l] : Window(l)'[k] = At(l, k)'
    BY WindowFactsNext DEF WindowIs
  <2>2. \A k \in 1 .. in_buf[l] - 1 : At(l, k)' = At(l, k + 1)
    BY <1>1, <1>3
  <2> QED
    BY ONLY <2>1, <2>2, <1>2
<1>6. Window(l)[1] = buffer[l][head[l]]
  <2>1. Pos(head[l], 1 - 1) = head[l] /\ 1 \in 1 .. in_buf[l]
    BY <1>1, CapacityAssumption DEF Pos, Slot
  <2> QED
    BY <2>1 DEF Window
<1> DEFINE w == Window(l)
           v == Window(l)'
           u == Tail(w)
<1> HIDE DEF w, v
<1>7. /\ w # <<>> /\ Head(w) = w[1] /\ w[1] \in Car
      /\ u \in Seq(Car) /\ Len(u) = in_buf[l] - 1
      /\ \A k \in 1 .. in_buf[l] - 1 : u[k] = At(l, k + 1)
  <2>1. w \in Seq(Car) /\ Len(w) = in_buf[l] /\ \A k \in 1 .. in_buf[l] : w[k] = At(l, k)
    BY <1>4 DEF w
  <2>2. w # <<>> /\ Head(w) = w[1] /\ w[1] \in Car /\ u \in Seq(Car) /\ Len(u) = in_buf[l] - 1
    BY <2>1, <1>1
  <2>3. \A k \in 1 .. in_buf[l] - 1 : u[k] = w[k + 1] /\ k + 1 \in 1 .. in_buf[l]
    BY <2>1, <1>1
  <2> QED
    BY <2>1, <2>2, <2>3
<1> HIDE DEF u
<1>8. v \in Seq(Car) /\ Len(v) = in_buf[l] - 1
      /\ \A k \in 1 .. in_buf[l] - 1 : v[k] = At(l, k + 1)
  BY <1>5 DEF v
<1>9. v = u
  BY <1>7, <1>8, SeqEqual
<1> QED
  BY <1>2, <1>6, <1>7, <1>9 DEF u, v, w

LEMMA FlowInit == Init => Flow!Init
<1> SUFFICES ASSUME Init PROVE Flow!Init
  OBVIOUS
<1>1. ASSUME NEW l \in Lane PROVE Window(l) = <<>> /\ OnTheRoad(l) = <<>>
  BY <1>1 DEF Init, Window, OnTheRoad
<1> QED
  BY <1>1 DEF Init, Flow!Init

(* Putting a car into the buffer, taking it out and putting it into a list *)
(* are the steps of CarFlow; every other step changes nothing of it.       *)
LEMMA FlowStep ==
  ASSUME TypeInv, RingInv, CarInv, TypeInv', RingInv', [Next]_vars
  PROVE  [Flow!Next]_(Flow!vars)
<1>c. /\ cur_car \in [Lane -> SlotCar] /\ in_cars \in [Lane -> Seq(Car)]
      /\ NoCar \notin Car
  BY CarAssumption DEF TypeInv, BasicType
<1>0. ASSUME NEW l \in Lane,
             UNCHANGED <<in_buf[l], buffer[l], head[l]>>
      PROVE  Window(l)' = Window(l)
  BY <1>0 DEF Window
<1>1. ASSUME NEW l \in Lane, ArriveInsert(l) PROVE Flow!Arrive(l)
  <2>1. /\ Window(l)' = Append(Window(l), Head(in_cars[l]))
        /\ in_cars[l] # <<>> /\ Len(Window(l)) < Capacity
    BY <1>1, WindowInsert
  <2>2. \A m \in Lane : m # l => Window(m)' = Window(m)
    BY <1>1, <1>0 DEF ArriveInsert, TypeInv, BasicType
  <2>3. \A m \in Lane : OnTheRoad(m)' = OnTheRoad(m)
    BY <1>1 DEF ArriveInsert, localVars, OnTheRoad
  <2>4. in_cars' = [in_cars EXCEPT ![l] = Tail(@)] /\ out_cars' = out_cars
    BY <1>1 DEF ArriveInsert
  <2> HIDE DEF Window, OnTheRoad
  <2> QED
    BY <2>1, <2>2, <2>3, <2>4 DEF Flow!Arrive
<1>2. ASSUME NEW l \in Lane, CrossTake(l) PROVE Flow!Enter(l)
  <2>1. /\ Window(l) # <<>> /\ Window(l)' = Tail(Window(l))
        /\ cur_car'[l] = Head(Window(l)) /\ cur_car'[l] \in Car
    BY <1>2, WindowTake
  <2>2. \A m \in Lane : m # l => Window(m)' = Window(m)
    BY <1>2, <1>0 DEF CrossTake, TypeInv, BasicType
  <2>3. OnTheRoad(l) = <<>> /\ OnTheRoad(l)' = <<Head(Window(l))>>
    <3>1. cur_car[l] = NoCar /\ cur_car'[l] # NoCar
      BY <1>2, <1>c, <2>1 DEF CrossTake, CrossTests, CarInv, Carrying
    <3> QED
      BY <2>1, <3>1 DEF OnTheRoad
  <2>4. \A m \in Lane : m # l => OnTheRoad(m)' = OnTheRoad(m)
    BY <1>2, <1>c DEF CrossTake, OnTheRoad
  <2>5. UNCHANGED <<in_cars, out_cars>>
    BY <1>2 DEF CrossTake
  <2> HIDE DEF Window, OnTheRoad
  <2> QED
    BY <2>1, <2>2, <2>3, <2>4, <2>5 DEF Flow!Enter
<1>3. ASSUME NEW l \in Lane, AppendCar(l) PROVE Flow!Leave(l)
  <2>1. \A m \in Lane : Window(m)' = Window(m)
    BY <1>3 DEF AppendCar, Window
  <2>2. cur_car[l] # NoCar
    BY <1>3, <1>c DEF AppendCar, RingInv, Carries
  <2>3. OnTheRoad(l) = <<cur_car[l]>> /\ OnTheRoad(l)' = <<>>
    BY <1>3, <1>c, <2>2 DEF AppendCar, OnTheRoad
  <2>4. \A m \in Lane : m # l => OnTheRoad(m)' = OnTheRoad(m)
    BY <1>3, <1>c DEF AppendCar, OnTheRoad
  <2>5. /\ in_cars' = in_cars
        /\ out_cars' = [out_cars EXCEPT ![cur_car[l].out_dir] = <<cur_car[l]>> \o @]
    BY <1>3 DEF AppendCar, PutFirst, ExitLane
  <2> DEFINE road == [m \in Lane |-> OnTheRoad(m)]
             queue == [m \in Lane |-> Window(m)]
  <2>6. road[l] = <<cur_car[l]>> /\ road[l] # <<>> /\ ExitOf(road[l][1]) = cur_car[l].out_dir
    BY <2>3 DEF ExitOf
  <2>7. road' = [road EXCEPT ![l] = <<>>] /\ queue' = queue
    <3> HIDE DEF Window, OnTheRoad
    <3> QED
      BY <2>1, <2>3, <2>4
  <2>8. out_cars' = [out_cars EXCEPT ![ExitOf(road[l][1])] = road[l] \o @]
    BY <2>5, <2>6
  <2> HIDE DEF road, queue
  <2>9. road[l] # <<>> /\ in_cars' = in_cars
    BY <2>5, <2>6
  <2> QED
    BY ONLY <2>7, <2>8, <2>9 DEF Flow!Leave, road, queue
<1>4. ASSUME \A l \in Lane : ~ArriveInsert(l) /\ ~CrossTake(l) /\ ~AppendCar(l)
      PROVE  UNCHANGED Flow!vars
  <2>1. UNCHANGED <<in_cars, out_cars, buffer, head, in_buf, cur_car>>
    BY <1>4 DEF Next, ArriveStep, CrossStep, Terminated, ArriveLock, ArriveReturn, ArriveWait,
       CrossLock, CrossReturn, CrossWait, CrossPath, CrossPathInvalid, LockQuad, LockExit,
       UnlockQuad, SpuriousWake, Verify, vars, laneVars, localVars
  <2>2. \A l \in Lane : Window(l)' = Window(l) /\ OnTheRoad(l)' = OnTheRoad(l)
    BY <2>1 DEF Window, OnTheRoad
  <2> QED
    BY <2>1, <2>2 DEF Flow!vars
<1> QED
  BY <1>1, <1>2, <1>3, <1>4 DEF Flow!Next

(* Refinement, but for the fairness of CarFlow: the lanes are bounded FIFO *)
(* queues, one car of a lane crosses at a time, and none is lost.          *)
THEOREM CarFlowImplemented == Spec => Flow!Steps
<1>1. TypeInv /\ RingInv /\ CarInv /\ TypeInv' /\ RingInv' /\ [Next]_vars
        => [Flow!Next]_(Flow!vars)
  BY FlowStep
<1> QED
  BY FlowInit, <1>1, TypeInvariance, RingInvariance, CarInvariance, PTL DEF Spec, Flow!Steps
=============================================================================
