--------------------------- MODULE TrafficProofs ---------------------------
(***************************************************************************)
(* Proofs about Traffic, for any number of lanes and cars, any capacity,   *)
(* any number of locked path elements and any content of fresh memory.     *)
(***************************************************************************)
EXTENDS TrafficProperties, SequenceTheorems, TLAPS

(* compute_path: what is proved of the route array                         *)

LEMMA ArmType ==
  ASSUME NEW d \in Dir
  PROVE  /\ Arm(d)[1] \in Seq(Quad) /\ Arm(d)[2] \in Seq(Quad)
         /\ Arm(d)[3] \in Seq(Quad) /\ Arm(d)[4] \in Seq(Quad)
<1>0. 0 \in Quad /\ 1 \in Quad /\ 2 \in Quad /\ 3 \in Quad
  BY DEF Quad
<1>1. CASE d = NORTH
  BY <1>0, <1>1 DEF Arm
<1>2. CASE d = EAST
  BY <1>0, <1>2 DEF Arm, NORTH, EAST
<1>3. CASE d = SOUTH
  BY <1>0, <1>3 DEF Arm, NORTH, EAST, SOUTH
<1>4. CASE d = WEST
  BY <1>0, <1>4 DEF Arm, NORTH, EAST, SOUTH, WEST
<1> QED
  BY <1>1, <1>2, <1>3, <1>4 DEF Dir

LEMMA AssignType ==
  ASSUME NEW r \in [Quad -> Quad], NEW w \in Seq(Quad)
  PROVE  Assign(r, w) \in [Quad -> Quad]
BY DEF Assign, Quad

LEMMA FallThroughType ==
  ASSUME NEW r \in [Quad -> Quad], NEW o \in Dir, NEW d \in Dir
  PROVE  FallThrough(r, o, Label(d), Arm(d)) \in [Quad -> Quad]
<1> DEFINE a == Arm(d)
           b == Label(d)
           r1 == IF o = b[1] THEN Assign(r, a[1]) ELSE r
           r2 == IF o \in {b[1], b[2]} THEN Assign(r1, a[2]) ELSE r1
           r3 == IF o # b[4] THEN Assign(r2, a[3]) ELSE r2
<1>1. a[1] \in Seq(Quad) /\ a[2] \in Seq(Quad) /\ a[3] \in Seq(Quad) /\ a[4] \in Seq(Quad)
  BY ArmType
<1> HIDE DEF a, b
<1>2. r1 \in [Quad -> Quad]
  BY <1>1, AssignType
<1> HIDE DEF r1
<1>3. r2 \in [Quad -> Quad]
  BY <1>1, <1>2, AssignType
<1> HIDE DEF r2
<1>4. r3 \in [Quad -> Quad]
  BY <1>1, <1>3, AssignType
<1> HIDE DEF r3
<1>5. Assign(r3, a[4]) \in [Quad -> Quad]
  BY <1>1, <1>4, AssignType
<1> QED
  BY <1>5 DEF FallThrough, r3, r2, r1, a, b

(* compute_path only names quadrants, when fresh memory only holds them    *)
LEMMA ComputePathType ==
  ASSUME NEW i \in Dir, NEW o \in Dir, NEW r \in [Quad -> Quad]
  PROVE  ComputePath(i, o, r) \in [Quad -> Quad]
<1> DEFINE n == IF i = NORTH THEN FallThrough(r, o, Label(NORTH), Arm(NORTH)) ELSE r
           e == IF i \in {NORTH, EAST} THEN FallThrough(n, o, Label(EAST), Arm(EAST)) ELSE n
           s == IF i # WEST THEN FallThrough(e, o, Label(SOUTH), Arm(SOUTH)) ELSE e
<1>0. NORTH \in Dir /\ EAST \in Dir /\ SOUTH \in Dir /\ WEST \in Dir
  BY DEF Dir
<1>1. n \in [Quad -> Quad]
  BY <1>0, FallThroughType
<1> HIDE DEF n
<1>2. e \in [Quad -> Quad]
  BY <1>0, <1>1, FallThroughType
<1> HIDE DEF e
<1>3. s \in [Quad -> Quad]
  BY <1>0, <1>2, FallThroughType
<1> HIDE DEF s
<1>4. FallThrough(s, o, Label(WEST), Arm(WEST)) \in [Quad -> Quad]
  BY <1>0, <1>3, FallThroughType
<1> QED
  BY <1>4 DEF ComputePath, s, e, n

(* The fall-through ends in the arm of WEST to SOUTH, so every route       *)
(* begins with quadrant 2.                                                 *)
LEMMA PathStartsAtTwo ==
  ASSUME NEW i, NEW o, NEW r
  PROVE  ComputePath(i, o, r)[0] = 2
<1>1. Arm(WEST)[4] = <<2>>
  BY DEF Arm, NORTH, EAST, SOUTH, WEST
<1>2. ASSUME NEW t PROVE Assign(t, <<2>>)[0] = 2
  BY DEF Assign, Quad
<1>3. ASSUME NEW s PROVE FallThrough(s, o, Label(WEST), Arm(WEST))[0] = 2
  BY <1>1, <1>2 DEF FallThrough
<1> QED
  BY <1>3 DEF ComputePath
-----------------------------------------------------------------------------
(* Types and counts.  The lists may still hold NoCar here: that they do    *)
(* not is a consequence of the ring's content, proved below.               *)
SlotCar == Car \cup {NoCar}

BasicType ==
  /\ in_cars \in [Lane -> Seq(Car)]
  /\ out_cars \in [Lane -> Seq(SlotCar)]
  /\ inc \in [Lane -> Nat]
  /\ passed \in [Lane -> Nat]
  /\ buffer \in [Lane -> [Slot -> SlotCar]]
  /\ head \in [Lane -> Slot]
  /\ tail \in [Lane -> Slot]
  /\ in_buf \in [Lane -> 0 .. Capacity]
  /\ lock \in [Lane -> Thread \cup {Free}]
  /\ quad \in [Quad -> Lane \cup {Free}]
  /\ arrive \in [Lane -> ArrivePc]
  /\ cross \in [Lane -> CrossPc]
  /\ cur_car \in [Lane -> SlotCar]
  /\ path \in [Lane -> [Quad -> Quad]]
  /\ x \in [Lane -> 0 .. PathSlots]
  /\ status \in {"running", "verified", "exit1"}

(* inc counts the cars not yet taken; a thread that has gone to wait once  *)
(* still has a car to move: neither loop needs its first test again.       *)
Counted(l) ==
  /\ inc[l] = Len(in_cars[l]) + in_buf[l]
  /\ arrive[l] \in {"wait", "relock", "relocked"} => in_cars[l] # <<>>
  /\ cross[l] \in {"wait", "relock", "relocked"} => inc[l] > 0
  /\ cross[l] \in {"quads", "unlock"} => x[l] < PathSlots

TypeInv == BasicType /\ \A l \in Lane : Counted(l)

LEMMA TypeInvInit == Init => TypeInv
<1> SUFFICES ASSUME Init PROVE TypeInv
  OBVIOUS
<1> USE LaneAssumption, ArrivalsAssumption, CapacityAssumption, PathAssumption
<1>1. BasicType
  BY DEF Init, BasicType, SlotCar, Slot, Quad, EmptyPath, ArrivePc, CrossPc
<1>2. \A l \in Lane : Counted(l)
  BY DEF Init, Counted
<1> QED
  BY <1>1, <1>2 DEF TypeInv

LEMMA SignalType ==
  ASSUME NEW l \in Lane
  PROVE  /\ arrive \in [Lane -> ArrivePc] => Signal(arrive, l) \in [Lane -> ArrivePc]
         /\ cross \in [Lane -> CrossPc] => Signal(cross, l) \in [Lane -> CrossPc]
BY DEF Signal, ArrivePc, CrossPc

LEMMA CountType ==
  ASSUME NEW f \in [Lane -> Nat], NEW e
  PROVE  [f EXCEPT ![e] = @ + 1] \in [Lane -> Nat]
<1> SUFFICES ASSUME NEW k \in Lane PROVE [f EXCEPT ![e] = @ + 1][k] \in Nat
  OBVIOUS
<1> QED
  BY f[k] \in Nat

LEMMA TypeInvStep == TypeInv /\ [Next]_vars => TypeInv'
<1> SUFFICES ASSUME TypeInv, [Next]_vars PROVE TypeInv'
  OBVIOUS
<1> USE LaneAssumption, CapacityAssumption, PathAssumption
<1> USE DEF TypeInv, BasicType, Counted
<1>1. ASSUME NEW l \in Lane, ArriveLock(l) PROVE TypeInv'
  BY <1>1 DEF ArriveLock, laneVars, localVars, Thread, ArrivePc
<1>2. ASSUME NEW l \in Lane, ArriveReturn(l) PROVE TypeInv'
  BY <1>2 DEF ArriveReturn, Unlock, Signal, laneVars, localVars, ArrivePc
<1>3. ASSUME NEW l \in Lane, ArriveWait(l) PROVE TypeInv'
  BY <1>3 DEF ArriveWait, ArriveTests, AllArrived, Unlock, laneVars, localVars, ArrivePc
<1>4. ASSUME NEW l \in Lane, ArriveInsert(l) PROVE TypeInv'
  <2>1. in_cars[l] # <<>> /\ in_cars[l] \in Seq(Car)
    BY <1>4 DEF ArriveInsert, ArriveTests, AllArrived
  <2>2. Head(in_cars[l]) \in Car /\ Tail(in_cars[l]) \in Seq(Car)
        /\ Len(Tail(in_cars[l])) = Len(in_cars[l]) - 1
    BY <2>1
  <2>3. Advance(tail[l]) \in Slot
    BY DEF Advance, Slot
  <2>4. BasicType'
    <3>1. buffer' \in [Lane -> [Slot -> SlotCar]]
      BY <1>4, <2>2 DEF ArriveInsert, SlotCar
    <3>2. in_cars' \in [Lane -> Seq(Car)] /\ tail' \in [Lane -> Slot]
      BY <1>4, <2>2, <2>3 DEF ArriveInsert
    <3>3. in_buf' \in [Lane -> 0 .. Capacity]
      BY <1>4 DEF ArriveInsert
    <3>4. cross' \in [Lane -> CrossPc] /\ arrive' \in [Lane -> ArrivePc]
      BY <1>4, SignalType DEF ArriveInsert, ArrivePc
    <3> QED
      BY <1>4, <3>1, <3>2, <3>3, <3>4 DEF ArriveInsert, Unlock, localVars
  <2>5. \A k \in Lane : Counted(k)'
    <3>1. in_cars' = [in_cars EXCEPT ![l] = Tail(@)] /\ in_buf' = [in_buf EXCEPT ![l] = @ + 1]
          /\ arrive' = [arrive EXCEPT ![l] = "lock"] /\ inc' = inc /\ x' = x
      BY <1>4 DEF ArriveInsert, localVars
    <3>2. \A k \in Lane : cross'[k] \in {"wait", "relock", "relocked"}
                            => cross[k] \in {"wait", "relock", "relocked"}
      BY <1>4 DEF ArriveInsert, Signal
    <3>3. \A k \in Lane : cross'[k] \in {"quads", "unlock"} => cross[k] \in {"quads", "unlock"}
      BY <1>4 DEF ArriveInsert, Signal
    <3>4. \A k \in Lane : k # l => in_cars'[k] = in_cars[k] /\ in_buf'[k] = in_buf[k]
                                   /\ arrive'[k] = arrive[k]
      BY <3>1
    <3>5. /\ Len(in_cars'[l]) = Len(in_cars[l]) - 1 /\ in_buf'[l] = in_buf[l] + 1
          /\ arrive'[l] = "lock" /\ in_buf[l] \in Int /\ Len(in_cars[l]) \in Int
      BY <2>1, <2>2, <3>1
    <3>6. Len(in_cars'[l]) + in_buf'[l] = Len(in_cars[l]) + in_buf[l]
      BY ONLY <3>5
    <3> SUFFICES ASSUME NEW k \in Lane PROVE Counted(k)'
      OBVIOUS
    <3>7. CASE k = l
      BY <3>1, <3>2, <3>3, <3>5, <3>6, <3>7
    <3>8. CASE k # l
      BY <3>1, <3>2, <3>3, <3>4, <3>8
    <3> QED
      BY <3>7, <3>8
  <2> QED
    BY <2>4, <2>5
<1>5. ASSUME NEW l \in Lane, CrossLock(l) PROVE TypeInv'
  BY <1>5 DEF CrossLock, laneVars, localVars, Thread, CrossPc
<1>6. ASSUME NEW l \in Lane, CrossReturn(l) PROVE TypeInv'
  BY <1>6 DEF CrossReturn, Unlock, laneVars, localVars, CrossPc
<1>7. ASSUME NEW l \in Lane, CrossWait(l) PROVE TypeInv'
  BY <1>7 DEF CrossWait, CrossTests, AllCrossed, Unlock, laneVars, localVars, CrossPc
<1>8. ASSUME NEW l \in Lane, CrossTake(l) PROVE TypeInv'
  <2>1. inc[l] > 0 /\ in_buf[l] > 0
    BY <1>8 DEF CrossTake, CrossTests, AllCrossed
  <2>2. Advance(head[l]) \in Slot
    BY DEF Advance, Slot
  <2>3. buffer[l][head[l]] \in SlotCar
    OBVIOUS
  <2>4. BasicType'
    BY <1>8, <2>1, <2>2, <2>3, SignalType DEF CrossTake, Unlock, CrossPc
  <2>5. \A k \in Lane : Counted(k)'
    <3>1. /\ in_buf' = [in_buf EXCEPT ![l] = @ - 1] /\ inc' = [inc EXCEPT ![l] = @ - 1]
          /\ cross' = [cross EXCEPT ![l] = "path"] /\ UNCHANGED <<in_cars, x>>
      BY <1>8 DEF CrossTake
    <3>2. \A k \in Lane : arrive'[k] \in {"wait", "relock", "relocked"}
                            => arrive[k] \in {"wait", "relock", "relocked"}
      BY <1>8 DEF CrossTake, Signal
    <3>3. \A k \in Lane : k # l => in_buf'[k] = in_buf[k] /\ inc'[k] = inc[k] /\ cross'[k] = cross[k]
      BY <3>1
    <3>4. in_buf'[l] = in_buf[l] - 1 /\ inc'[l] = inc[l] - 1 /\ cross'[l] = "path"
      BY <3>1
    <3>5. inc[l] \in Int /\ in_buf[l] \in Int /\ Len(in_cars[l]) \in Int
      OBVIOUS
    <3>6. inc[l] = Len(in_cars[l]) + in_buf[l]
      OBVIOUS
    <3>7. inc'[l] = Len(in_cars[l]) + in_buf'[l]
      BY ONLY <3>4, <3>5, <3>6
    <3> SUFFICES ASSUME NEW k \in Lane PROVE Counted(k)'
      OBVIOUS
    <3>8. CASE k = l
      BY <3>1, <3>2, <3>4, <3>7, <3>8
    <3>9. CASE k # l
      BY <3>1, <3>2, <3>3, <3>9
    <3> QED
      BY <3>8, <3>9
  <2> QED
    BY <2>4, <2>5
<1>9. ASSUME NEW l \in Lane, CrossPath(l) PROVE TypeInv'
  <2>1. PICK s \in Stale :
          path' = [path EXCEPT ![l] = ComputePath(cur_car[l].in_dir, cur_car[l].out_dir,
                                                  [k \in Quad |-> s])]
    BY <1>9 DEF CrossPath
  <2>2. [k \in Quad |-> s] \in [Quad -> Quad]
    OBVIOUS
  <2>3. ComputePath(cur_car[l].in_dir, cur_car[l].out_dir, [k \in Quad |-> s])
          \in [Quad -> Quad]
    BY <1>9, <2>2, ComputePathType DEF CrossPath, ValidDirections
  <2>4. path' \in [Lane -> [Quad -> Quad]]
    BY <2>1, <2>3
  <2>5. BasicType'
    <3>1. x' \in [Lane -> 0 .. PathSlots] /\ cross' \in [Lane -> CrossPc]
      BY <1>9 DEF CrossPath, CrossPc
    <3>2. UNCHANGED <<laneVars, lock, quad, arrive, cur_car, status>>
      BY <1>9 DEF CrossPath
    <3> QED
      BY <2>4, <3>1, <3>2 DEF laneVars
  <2>6. \A k \in Lane : Counted(k)'
    BY <1>9 DEF CrossPath, laneVars, CrossPc
  <2> QED
    BY <2>5, <2>6
<1>10. ASSUME NEW l \in Lane, CrossPathInvalid(l) PROVE TypeInv'
  BY <1>10 DEF CrossPathInvalid, laneVars, localVars
<1>11. ASSUME NEW l \in Lane, LockQuad(l) PROVE TypeInv'
  <2>1. x[l] \in Quad /\ path[l][x[l]] \in Quad
    BY <1>11 DEF LockQuad, Quad
  <2>2. BasicType'
    BY <1>11, <2>1 DEF LockQuad, laneVars, CrossPc
  <2>3. \A k \in Lane : Counted(k)'
    BY <1>11 DEF LockQuad, laneVars, CrossPc
  <2> QED
    BY <2>2, <2>3
<1>12. ASSUME NEW l \in Lane, LockExit(l) PROVE TypeInv'
  BY <1>12 DEF LockExit, laneVars, localVars, CrossPc, Thread
<1>13. ASSUME NEW l \in Lane, AppendCar(l) PROVE TypeInv'
  <2>1. \A s \in Seq(SlotCar) : <<cur_car[l]>> \o s \in Seq(SlotCar)
    OBVIOUS
  <2>2. out_cars' \in [Lane -> Seq(SlotCar)]
    BY <1>13, <2>1 DEF AppendCar, PutFirst
  <2>3. passed' \in [Lane -> Nat]
    <3>1. passed' = [passed EXCEPT ![ExitLane(l)] = @ + 1]
      BY <1>13 DEF AppendCar
    <3> QED
      BY <3>1, CountType
  <2>4. lock' \in [Lane -> Thread \cup {Free}]
    BY <1>13 DEF AppendCar, UnlockExit, Unlock
  <2>5. /\ x' \in [Lane -> 0 .. PathSlots] /\ cross' \in [Lane -> CrossPc]
        /\ cur_car' \in [Lane -> SlotCar]
    BY <1>13 DEF AppendCar, CrossPc, SlotCar
  <2>6. BasicType'
    BY <1>13, <2>2, <2>3, <2>4, <2>5 DEF AppendCar
  <2>7. \A k \in Lane : Counted(k)'
    BY <1>13 DEF AppendCar, CrossPc
  <2> QED
    BY <2>6, <2>7
<1>14. ASSUME NEW l \in Lane, UnlockQuad(l) PROVE TypeInv'
  <2>0. x[l] \in 0 .. PathSlots /\ x[l] < PathSlots
    BY <1>14 DEF UnlockQuad
  <2>1. x[l] \in Quad /\ path[l][x[l]] \in Quad
    BY <2>0 DEF Quad
  <2>2. EmptyPath \in [Quad -> Quad]
    BY DEF EmptyPath, Quad
  <2>3. BasicType'
    <3>1. quad' \in [Quad -> Lane \cup {Free}]
      BY <1>14, <2>1 DEF UnlockQuad
    <3>2. x' \in [Lane -> 0 .. PathSlots]
      <4>1. \/ x' = [x EXCEPT ![l] = @ + 1] /\ x[l] + 1 < PathSlots
            \/ x' = [x EXCEPT ![l] = 0]
        BY <1>14 DEF UnlockQuad
      <4>2. PathSlots \in Nat /\ x \in [Lane -> 0 .. PathSlots]
        OBVIOUS
      <4>3. \A v \in 0 .. PathSlots : [x EXCEPT ![l] = v] \in [Lane -> 0 .. PathSlots]
        BY <4>2
      <4>4. 0 \in 0 .. PathSlots /\ (x[l] + 1 < PathSlots => x[l] + 1 \in 0 .. PathSlots)
        BY <2>0, <4>2
      <4> QED
        BY <4>1, <4>3, <4>4
    <3>3. path' \in [Lane -> [Quad -> Quad]]
      BY <1>14, <2>2 DEF UnlockQuad
    <3>4. cross' \in [Lane -> CrossPc]
      <4>1. cross' = cross \/ cross' = [cross EXCEPT ![l] = "lock"]
        BY <1>14 DEF UnlockQuad
      <4> QED
        BY <4>1 DEF CrossPc
    <3> QED
      BY <1>14, <3>1, <3>2, <3>3, <3>4 DEF UnlockQuad, laneVars
  <2>4. \A k \in Lane : Counted(k)'
    <3>1. CASE x[l] + 1 < PathSlots
      BY <1>14, <2>0, <3>1 DEF UnlockQuad, laneVars
    <3>2. CASE ~(x[l] + 1 < PathSlots)
      BY <1>14, <3>2 DEF UnlockQuad, laneVars
    <3> QED
      BY <3>1, <3>2
  <2> QED
    BY <2>3, <2>4
<1>15. ASSUME NEW l \in Lane, SpuriousWake(l) PROVE TypeInv'
  BY <1>15 DEF SpuriousWake, laneVars, localVars, ArrivePc, CrossPc
<1>16. ASSUME Verify PROVE TypeInv'
  BY <1>16 DEF Verify, laneVars, localVars
<1>17. ASSUME UNCHANGED vars PROVE TypeInv'
  BY <1>17 DEF vars, laneVars, localVars
<1> QED
  BY <1>1, <1>2, <1>3, <1>4, <1>5, <1>6, <1>7, <1>8, <1>9, <1>10, <1>11, <1>12,
     <1>13, <1>14, <1>15, <1>16, <1>17
  DEF Next, ArriveStep, CrossStep, Terminated

THEOREM TypeInvariance == Spec => []TypeInv
<1>1. Init => TypeInv
  BY TypeInvInit
<1>2. TypeInv /\ [Next]_vars => TypeInv'
  BY TypeInvStep
<1> QED
  BY <1>1, <1>2, PTL DEF Spec
-----------------------------------------------------------------------------
(* The circular buffer.  At(l, k) is the k-th car of lane l that its       *)
(* crossing thread has not yet taken.                                      *)
At(l, k) == Arrivals[l][Len(Arrivals[l]) - inc[l] + k]

Ring(l) ==
  /\ inc[l] <= Len(Arrivals[l])
  /\ tail[l] = Pos(head[l], in_buf[l])
  /\ \A k \in 1 .. in_buf[l] : buffer[l][Pos(head[l], k - 1)] = At(l, k)
  /\ \A k \in 1 .. Len(in_cars[l]) : in_cars[l][k] = At(l, in_buf[l] + k)

(* What the crossing thread holds is a car that came in by its lane.       *)
Carries(l) ==
  cross[l] \in {"path", "quads", "exit", "append"} =>
    cur_car[l] \in Car /\ cur_car[l].in_dir = l

RingInv ==
  /\ \A l \in Lane : Ring(l) /\ Carries(l)
  /\ out_cars \in [Lane -> Seq(Car)]

LEMMA PosFacts ==
  ASSUME NEW h \in Slot, NEW i \in 0 .. Capacity - 1
  PROVE  /\ Pos(h, i) \in Slot
         /\ Advance(Pos(h, i)) = Pos(h, i + 1)
         /\ Pos(Advance(h), i) = Pos(h, i + 1)
         /\ Pos(h, 0) = h
         /\ \A j \in 0 .. Capacity - 1 : i # j => Pos(h, i) # Pos(h, j)
BY CapacityAssumption DEF Pos, Advance, Slot

LEMMA RingInvInit == Init => RingInv
<1> SUFFICES ASSUME Init PROVE RingInv
  OBVIOUS
<1> USE LaneAssumption, ArrivalsAssumption, CapacityAssumption
<1>1. ASSUME NEW l \in Lane PROVE Ring(l) /\ Carries(l)
  BY DEF Init, Ring, Carries, At, Pos
<1>2. out_cars \in [Lane -> Seq(Car)]
  BY DEF Init
<1> QED
  BY <1>1, <1>2 DEF RingInv

(* The threads touch the ring of a lane in ArriveInsert and CrossTake only *)
LEMMA RingUnchanged ==
  ASSUME NEW l \in Lane, Ring(l),
         UNCHANGED <<in_cars[l], inc[l], buffer[l], head[l], tail[l], in_buf[l]>>
  PROVE  Ring(l)'
BY DEF Ring, At

LEMMA RingInsert ==
  ASSUME TypeInv, NEW l \in Lane, Ring(l), ArriveInsert(l)
  PROVE  Ring(l)'
<1> USE CapacityAssumption, ArrivalsAssumption
<1>1. /\ in_cars[l] # <<>> /\ in_cars[l] \in Seq(Car)
      /\ in_buf[l] \in 0 .. Capacity - 1 /\ head[l] \in Slot /\ inc[l] \in Nat
      /\ buffer[l] \in [Slot -> SlotCar]
      /\ inc[l] = Len(in_cars[l]) + in_buf[l]
  BY DEF TypeInv, BasicType, Counted, ArriveInsert, ArriveTests, AllArrived
<1>2. /\ buffer'[l] = [buffer[l] EXCEPT ![tail[l]] = Head(in_cars[l])]
      /\ tail'[l] = Advance(tail[l])
      /\ in_buf'[l] = in_buf[l] + 1
      /\ in_cars'[l] = Tail(in_cars[l])
      /\ head'[l] = head[l] /\ inc'[l] = inc[l]
  BY DEF ArriveInsert, TypeInv, BasicType
<1>3. tail[l] = Pos(head[l], in_buf[l]) /\ tail'[l] = Pos(head[l], in_buf[l] + 1)
  BY <1>1, <1>2, PosFacts DEF Ring
<1>4. ASSUME NEW k \in 1 .. in_buf[l] + 1
      PROVE  buffer'[l][Pos(head[l], k - 1)] = At(l, k)
  <2>1. CASE k = in_buf[l] + 1
    <3>1. buffer'[l][tail[l]] = in_cars[l][1]
      BY <1>1, <1>2, <1>3, PosFacts
    <3>2. in_cars[l][1] = At(l, in_buf[l] + 1)
      BY <1>1 DEF Ring
    <3>3. k - 1 = in_buf[l]
      BY <2>1, <1>1
    <3>4. Pos(head[l], k - 1) = tail[l]
      BY <3>3, <1>3
    <3>5. At(l, k) = At(l, in_buf[l] + 1)
      BY <2>1
    <3> QED
      BY ONLY <3>1, <3>2, <3>4, <3>5
  <2>2. CASE k # in_buf[l] + 1
    <3>1. k \in 1 .. in_buf[l] /\ k - 1 \in 0 .. Capacity - 1 /\ k - 1 # in_buf[l]
      BY <2>2, <1>1
    <3>2. Pos(head[l], k - 1) \in Slot /\ Pos(head[l], k - 1) # tail[l]
      BY <3>1, <1>1, <1>3, PosFacts
    <3>3. buffer'[l][Pos(head[l], k - 1)] = buffer[l][Pos(head[l], k - 1)]
      BY <3>2, <1>1, <1>2
    <3> QED
      BY <3>1, <3>3 DEF Ring
  <2> QED
    BY <2>1, <2>2
<1>5. ASSUME NEW k \in 1 .. Len(in_cars[l]) - 1
      PROVE  Tail(in_cars[l])[k] = At(l, in_buf[l] + 1 + k)
  <2>1. Tail(in_cars[l])[k] = in_cars[l][k + 1] /\ k + 1 \in 1 .. Len(in_cars[l])
    BY <1>1
  <2>2. in_cars[l][k + 1] = At(l, in_buf[l] + (k + 1))
    BY <2>1 DEF Ring
  <2>3. in_buf[l] + (k + 1) = in_buf[l] + 1 + k
    BY <1>1
  <2> QED
    BY <2>1, <2>2, <2>3
<1>6. Len(Tail(in_cars[l])) = Len(in_cars[l]) - 1
  BY <1>1
<1> QED
  BY <1>1, <1>2, <1>3, <1>4, <1>5, <1>6 DEF Ring, At

LEMMA RingTake ==
  ASSUME TypeInv, NEW l \in Lane, Ring(l), CrossTake(l)
  PROVE  /\ Ring(l)'
         /\ cur_car'[l] \in Car /\ cur_car'[l].in_dir = l
<1> USE CapacityAssumption, ArrivalsAssumption
<1>1. /\ in_cars[l] \in Seq(Car) /\ inc[l] \in Nat /\ inc[l] > 0
      /\ in_buf[l] \in 1 .. Capacity /\ head[l] \in Slot
      /\ inc[l] = Len(in_cars[l]) + in_buf[l]
  BY DEF TypeInv, BasicType, Counted, CrossTake, CrossTests, AllCrossed
<1>2. /\ cur_car'[l] = buffer[l][head[l]]
      /\ head'[l] = Advance(head[l])
      /\ in_buf'[l] = in_buf[l] - 1
      /\ inc'[l] = inc[l] - 1
      /\ UNCHANGED <<buffer, in_cars, tail>>
  BY DEF CrossTake, TypeInv, BasicType
<1> DEFINE Next1(k) == Arrivals[l][Len(Arrivals[l]) - inc'[l] + k]
<1>3. \A k \in Int : Next1(k) = At(l, k + 1)
  <2>1. Len(Arrivals[l]) \in Nat
    OBVIOUS
  <2>2. ASSUME NEW n \in Nat, NEW i \in Nat, NEW k \in Int
        PROVE  n - (i - 1) + k = n - i + (k + 1)
    OBVIOUS
  <2>3. inc'[l] = inc[l] - 1 /\ inc[l] \in Nat
    BY <1>1, <1>2
  <2> SUFFICES ASSUME NEW k \in Int PROVE Next1(k) = At(l, k + 1)
    OBVIOUS
  <2>4. Len(Arrivals[l]) - (inc[l] - 1) + k = Len(Arrivals[l]) - inc[l] + (k + 1)
    BY <2>1, <2>2, <2>3
  <2>5. Len(Arrivals[l]) - inc'[l] + k = Len(Arrivals[l]) - inc[l] + (k + 1)
    BY <2>3, <2>4
  <2> QED
    BY <2>5 DEF At
<1>4. ASSUME NEW k \in 1 .. in_buf[l] - 1
      PROVE  buffer[l][Pos(Advance(head[l]), k - 1)] = Next1(k)
  <2>1. k \in Int /\ k - 1 \in 0 .. Capacity - 1 /\ k + 1 \in 1 .. in_buf[l]
    BY <1>1
  <2>2. Pos(Advance(head[l]), k - 1) = Pos(head[l], (k + 1) - 1)
    BY <2>1, <1>1, PosFacts
  <2>3. buffer[l][Pos(head[l], (k + 1) - 1)] = At(l, k + 1)
    BY <2>1 DEF Ring
  <2> QED
    BY <2>1, <2>2, <2>3, <1>3
<1>5. tail[l] = Pos(Advance(head[l]), in_buf[l] - 1)
  <2>1. in_buf[l] - 1 \in 0 .. Capacity - 1 /\ (in_buf[l] - 1) + 1 = in_buf[l]
    BY <1>1
  <2> QED
    BY <2>1, <1>1, PosFacts DEF Ring
<1>6. ASSUME NEW k \in 1 .. Len(in_cars[l])
      PROVE  in_cars[l][k] = Next1(in_buf[l] - 1 + k)
  <2>1. (in_buf[l] - 1 + k) + 1 = in_buf[l] + k /\ in_buf[l] - 1 + k \in Int
    BY <1>1
  <2>2. in_cars[l][k] = At(l, in_buf[l] + k)
    BY DEF Ring
  <2> QED
    BY <2>1, <2>2, <1>3
<1>7. Ring(l)'
  <2>1. inc'[l] <= Len(Arrivals[l])
    BY <1>1, <1>2 DEF Ring
  <2>2. tail'[l] = Pos(head'[l], in_buf'[l])
    BY <1>2, <1>5
  <2>3. \A k \in 1 .. in_buf'[l] : buffer'[l][Pos(head'[l], k - 1)] = Next1(k)
    BY <1>2, <1>4
  <2>4. \A k \in 1 .. Len(in_cars'[l]) : in_cars'[l][k] = Next1(in_buf'[l] + k)
    BY <1>2, <1>6
  <2> QED
    BY <2>1, <2>2, <2>3, <2>4 DEF Ring, At, Pos
<1>8. cur_car'[l] = At(l, 1)
  <2>0. 0 \in 0 .. Capacity - 1 /\ 1 \in 1 .. in_buf[l] /\ 1 - 1 = 0
    BY ONLY <1>1, CapacityAssumption
  <2>1. 1 \in 1 .. in_buf[l] /\ Pos(head[l], 1 - 1) = head[l]
    BY <1>1, <2>0, PosFacts
  <2> QED
    BY <2>1, <1>2 DEF Ring
<1>9. Len(Arrivals[l]) - inc[l] + 1 \in 1 .. Len(Arrivals[l]) /\ Arrivals[l] \in Seq(Car)
  <2>1. inc[l] <= Len(Arrivals[l])
    BY DEF Ring
  <2>2. Arrivals[l] \in Seq(Car) /\ Len(Arrivals[l]) \in Nat
    OBVIOUS
  <2> QED
    BY ONLY <1>1, <2>1, <2>2
<1> QED
  BY <1>7, <1>8, <1>9 DEF At

LEMMA RingInvStep == TypeInv /\ RingInv /\ [Next]_vars => RingInv'
<1> SUFFICES ASSUME TypeInv, RingInv, [Next]_vars PROVE RingInv'
  OBVIOUS
<1> DEFINE SameRing(k) ==
      UNCHANGED <<in_cars[k], inc[k], buffer[k], head[k], tail[k], in_buf[k]>>
<1>1. ASSUME NEW l \in Lane, ArriveInsert(l) PROVE RingInv'
  <2>1. Ring(l)'
    BY <1>1, RingInsert DEF RingInv
  <2>2. ASSUME NEW k \in Lane, k # l PROVE Ring(k)'
    <3>1. SameRing(k)
      BY <1>1, <2>2 DEF ArriveInsert, TypeInv, BasicType
    <3> QED
      BY <3>1, RingUnchanged DEF RingInv
  <2>3. \A k \in Lane : Carries(k)'
    BY <1>1 DEF ArriveInsert, Signal, localVars, Carries, RingInv, TypeInv, BasicType
  <2> QED
    BY <1>1, <2>1, <2>2, <2>3 DEF ArriveInsert, RingInv
<1>2. ASSUME NEW l \in Lane, CrossTake(l) PROVE RingInv'
  <2>1. Ring(l)' /\ cur_car'[l] \in Car /\ cur_car'[l].in_dir = l
    BY <1>2, RingTake DEF RingInv
  <2>2. ASSUME NEW k \in Lane, k # l PROVE Ring(k)'
    <3>1. SameRing(k)
      BY <1>2, <2>2 DEF CrossTake, TypeInv, BasicType
    <3> QED
      BY <3>1, RingUnchanged DEF RingInv
  <2>3. \A k \in Lane : Carries(k)'
    BY <1>2, <2>1 DEF CrossTake, Carries, RingInv, TypeInv, BasicType
  <2> QED
    BY <1>2, <2>1, <2>2, <2>3 DEF CrossTake, RingInv
<1>3. ASSUME NEW l \in Lane, AppendCar(l) PROVE RingInv'
  <2>1. \A k \in Lane : SameRing(k)
    BY <1>3 DEF AppendCar
  <2>2. \A k \in Lane : Ring(k)'
    BY <2>1, RingUnchanged DEF RingInv
  <2>3. \A k \in Lane : Carries(k)'
    BY <1>3 DEF AppendCar, Carries, RingInv, TypeInv, BasicType
  <2>4. cur_car[l] \in Car
    BY <1>3 DEF AppendCar, Carries, RingInv
  <2>5. \A s \in Seq(Car) : <<cur_car[l]>> \o s \in Seq(Car)
    BY <2>4
  <2>6. out_cars' \in [Lane -> Seq(Car)]
    BY <1>3, <2>5 DEF AppendCar, PutFirst, RingInv
  <2> QED
    BY <2>2, <2>3, <2>6 DEF RingInv
<1>4. ASSUME UNCHANGED laneVars, \A k \in Lane : Carries(k)' PROVE RingInv'
  <2>1. \A k \in Lane : SameRing(k)
    BY <1>4 DEF laneVars
  <2>2. \A k \in Lane : Ring(k)'
    BY <2>1, RingUnchanged DEF RingInv
  <2> QED
    BY <1>4, <2>2 DEF RingInv, laneVars
<1> USE DEF Carries, RingInv, TypeInv, BasicType
<1>5. ASSUME NEW l \in Lane,
             ArriveLock(l) \/ ArriveReturn(l) \/ ArriveWait(l)
      PROVE  RingInv'
  <2>1. UNCHANGED laneVars
    BY <1>5 DEF ArriveLock, ArriveReturn, ArriveWait
  <2>2. \A k \in Lane : Carries(k)'
    BY <1>5 DEF ArriveLock, ArriveReturn, ArriveWait, localVars
  <2> QED
    BY <1>4, <2>1, <2>2
<1>6. ASSUME NEW l \in Lane, CrossLock(l) \/ CrossReturn(l) \/ CrossWait(l)
      PROVE  RingInv'
  <2>1. UNCHANGED laneVars
    BY <1>6 DEF CrossLock, CrossReturn, CrossWait
  <2>2. \A k \in Lane : Carries(k)'
    BY <1>6 DEF CrossLock, CrossReturn, CrossWait, localVars
  <2> QED
    BY <1>4, <2>1, <2>2
<1>7. ASSUME NEW l \in Lane, CrossPath(l) \/ CrossPathInvalid(l) PROVE RingInv'
  <2>1. UNCHANGED laneVars
    BY <1>7 DEF CrossPath, CrossPathInvalid
  <2>2. \A k \in Lane : Carries(k)'
    BY <1>7 DEF CrossPath, CrossPathInvalid, localVars
  <2> QED
    BY <1>4, <2>1, <2>2
<1>8. ASSUME NEW l \in Lane, LockQuad(l) \/ LockExit(l) PROVE RingInv'
  <2>1. UNCHANGED laneVars
    BY <1>8 DEF LockQuad, LockExit
  <2>2. \A k \in Lane : Carries(k)'
    BY <1>8 DEF LockQuad, LockExit, localVars
  <2> QED
    BY <1>4, <2>1, <2>2
<1>9. ASSUME NEW l \in Lane, UnlockQuad(l) PROVE RingInv'
  BY <1>4, <1>9 DEF UnlockQuad
<1>10. ASSUME NEW l \in Lane, SpuriousWake(l) PROVE RingInv'
  BY <1>4, <1>10 DEF SpuriousWake, localVars
<1>11. ASSUME Verify PROVE RingInv'
  BY <1>4, <1>11 DEF Verify, localVars
<1>12. ASSUME UNCHANGED vars PROVE RingInv'
  BY <1>4, <1>12 DEF vars, localVars
<1> QED
  BY <1>1, <1>2, <1>3, <1>5, <1>6, <1>7, <1>8, <1>9, <1>10, <1>11, <1>12
  DEF Next, ArriveStep, CrossStep, Terminated

THEOREM RingInvariance == Spec => [](TypeInv /\ RingInv)
<1>1. Init => RingInv
  BY RingInvInit
<1>2. TypeInv /\ RingInv /\ [Next]_vars => RingInv'
  BY RingInvStep
<1> QED
  BY <1>1, <1>2, TypeInvariance, PTL DEF Spec

(* No variable ever leaves its type.                                       *)
THEOREM TypeCorrect == Spec => []TypeOK
<1>1. TypeInv /\ RingInv => TypeOK
  BY DEF TypeInv, BasicType, RingInv, TypeOK, SlotCar
<1> QED
  BY <1>1, RingInvariance, PTL

LEMMA LastOnes ==
  ASSUME NEW S, NEW t \in Seq(S), NEW i \in Nat, i <= Len(t)
  PROVE  LET s == SubSeq(t, Len(t) - i + 1, Len(t))
         IN  /\ s \in Seq(S) /\ Len(s) = i
             /\ \A k \in 1 .. i : s[k] = t[Len(t) - i + k]
<1>1. Len(t) - i + 1 \in 1 .. Len(t) + 1 /\ Len(t) \in Nat
  OBVIOUS
<1>2. Len(t) - (Len(t) - i + 1) + 1 = i
  BY <1>1
<1> QED
  BY <1>1, <1>2, SubSeqProperties

LEMMA JoinIs ==
  ASSUME NEW S, NEW T, NEW v \in Seq(S), NEW w \in Seq(T), NEW s \in Seq(T),
         Len(s) = Len(v) + Len(w),
         \A k \in 1 .. Len(v) : v[k] = s[k],
         \A k \in 1 .. Len(w) : w[k] = s[Len(v) + k]
  PROVE  v \o w = s
<1>1. v \in Seq(S \cup T) /\ w \in Seq(S \cup T) /\ s \in Seq(S \cup T)
  OBVIOUS
<1>2. v \o w \in Seq(S \cup T) /\ Len(v \o w) = Len(s)
  BY <1>1
<1>3. ASSUME NEW k \in 1 .. Len(s) PROVE (v \o w)[k] = s[k]
  <2>1. CASE k <= Len(v)
    BY <1>1, <2>1
  <2>2. CASE k > Len(v)
    <3>1. k - Len(v) \in 1 .. Len(w) /\ Len(v) + (k - Len(v)) = k
      BY <2>2
    <3>2. (v \o w)[k] = w[k - Len(v)]
      BY <1>1, <2>2
    <3> QED
      BY <3>1, <3>2
  <2> QED
    BY <2>1, <2>2
<1> QED
  BY <1>1, <1>2, <1>3, SeqEqual

(* Buffer and in_cars hold, in order, exactly the cars still to be taken.  *)
THEOREM QueueOrderCorrect == Spec => []QueueOrder
<1>1. ASSUME TypeInv, RingInv, NEW l \in Lane
      PROVE  Window(l) \o in_cars[l]
               = SubSeq(Arrivals[l], Len(Arrivals[l]) - inc[l] + 1, Len(Arrivals[l]))
  <2> DEFINE n == Len(Arrivals[l])
             w == Window(l)
             s == SubSeq(Arrivals[l], n - inc[l] + 1, n)
  <2>1. /\ in_cars[l] \in Seq(Car) /\ inc[l] \in Nat /\ in_buf[l] \in 0 .. Capacity
        /\ inc[l] = Len(in_cars[l]) + in_buf[l] /\ head[l] \in Slot
        /\ buffer[l] \in [Slot -> SlotCar]
    BY <1>1 DEF TypeInv, BasicType, Counted
  <2>2. Arrivals[l] \in Seq(Car) /\ n \in Nat /\ inc[l] <= n
    BY <1>1, ArrivalsAssumption DEF RingInv, Ring
  <2>3. w \in Seq(SlotCar) /\ Len(w) = in_buf[l]
    <3>1. \A k \in 1 .. in_buf[l] : Pos(head[l], k - 1) \in Slot
      BY <2>1, CapacityAssumption, PosFacts
    <3> QED
      BY <2>1, <3>1 DEF Window
  <2>4. /\ s \in Seq(Car) /\ Len(s) = inc[l]
        /\ \A k \in 1 .. inc[l] : s[k] = Arrivals[l][n - inc[l] + k]
    BY <2>1, <2>2, LastOnes
  <2> HIDE DEF s
  <2>5. ASSUME NEW k \in 1 .. in_buf[l] PROVE w[k] = s[k]
    <3>1. w[k] = At(l, k)
      BY <1>1 DEF RingInv, Ring, Window
    <3>2. k \in 1 .. inc[l]
      BY <2>1
    <3> QED
      BY <3>1, <3>2, <2>4 DEF At
  <2>6. ASSUME NEW k \in 1 .. Len(in_cars[l]) PROVE in_cars[l][k] = s[in_buf[l] + k]
    <3>1. in_cars[l][k] = At(l, in_buf[l] + k)
      BY <1>1 DEF RingInv, Ring
    <3>2. in_buf[l] + k \in 1 .. inc[l]
      BY <2>1
    <3> QED
      BY <3>1, <3>2, <2>4 DEF At
  <2> HIDE DEF w, n
  <2>7. Len(s) = Len(w) + Len(in_cars[l])
    BY <2>1, <2>3, <2>4
  <2>8. w \o in_cars[l] = s
    <3>1. /\ \A k \in 1 .. Len(w) : w[k] = s[k]
          /\ \A k \in 1 .. Len(in_cars[l]) : in_cars[l][k] = s[Len(w) + k]
      BY <2>3, <2>5, <2>6
    <3>2. w \in Seq(SlotCar) /\ in_cars[l] \in Seq(SlotCar) /\ s \in Seq(SlotCar)
      BY <2>1, <2>3, <2>4 DEF SlotCar
    <3> QED
      BY <3>1, <3>2, <2>7, JoinIs
  <2> QED
    BY <2>8 DEF w, s, n
<1>2. TypeInv /\ RingInv => QueueOrder
  BY <1>1 DEF QueueOrder
<1> QED
  BY <1>2, RingInvariance, PTL
-----------------------------------------------------------------------------
(* No wakeup is lost.                                                      *)
WaitInv ==
  /\ NoLostWakeup
  /\ \A l \in Lane : /\ arrive[l] = "done" => in_cars[l] = <<>>
                     /\ cross[l] = "done" => inc[l] = 0

LEMMA WaitInvStep == TypeInv /\ WaitInv /\ [Next]_vars => WaitInv'
<1> SUFFICES ASSUME TypeInv, WaitInv, [Next]_vars PROVE WaitInv'
  OBVIOUS
<1> USE CapacityAssumption
<1> USE DEF WaitInv, NoLostWakeup, TypeInv, BasicType, Counted
<1>1. ASSUME NEW l \in Lane, ArriveLock(l) PROVE WaitInv'
  BY <1>1 DEF ArriveLock, laneVars
<1>2. ASSUME NEW l \in Lane, ArriveReturn(l) PROVE WaitInv'
  BY <1>2 DEF ArriveReturn, AllArrived, Signal, laneVars
<1>3. ASSUME NEW l \in Lane, ArriveWait(l) PROVE WaitInv'
  <2>1. in_buf[l] = Capacity /\ Capacity > 0 /\ inc[l] > 0
    BY <1>3 DEF ArriveWait
  <2>2. cross[l] # "wait" /\ cross[l] # "done"
    BY <2>1
  <2> QED
    BY <1>3, <2>1, <2>2 DEF ArriveWait, laneVars
<1>4. ASSUME NEW l \in Lane, ArriveInsert(l) PROVE WaitInv'
  BY <1>4 DEF ArriveInsert, Signal
<1>5. ASSUME NEW l \in Lane, CrossLock(l) PROVE WaitInv'
  BY <1>5 DEF CrossLock, laneVars
<1>6. ASSUME NEW l \in Lane, CrossReturn(l) PROVE WaitInv'
  BY <1>6 DEF CrossReturn, AllCrossed, laneVars
<1>7. ASSUME NEW l \in Lane, CrossWait(l) PROVE WaitInv'
  BY <1>7 DEF CrossWait, CrossTests, AllCrossed, laneVars
<1>8. ASSUME NEW l \in Lane, CrossTake(l) PROVE WaitInv'
  BY <1>8 DEF CrossTake, Signal
<1>9. ASSUME NEW l \in Lane, CrossPath(l) \/ CrossPathInvalid(l) PROVE WaitInv'
  <2>1. UNCHANGED <<in_cars, inc, in_buf, arrive>>
    BY <1>9 DEF CrossPath, CrossPathInvalid, laneVars
  <2>2. \A k \in Lane : cross'[k] = cross[k] \/ cross'[k] \notin {"wait", "done"}
    BY <1>9 DEF CrossPath, CrossPathInvalid
  <2> QED
    BY <2>1, <2>2
<1>10. ASSUME NEW l \in Lane, LockQuad(l) \/ UnlockQuad(l) PROVE WaitInv'
  <2>1. UNCHANGED <<in_cars, inc, in_buf, arrive>>
    BY <1>10 DEF LockQuad, UnlockQuad, laneVars
  <2>2. \A k \in Lane : cross'[k] = cross[k] \/ cross'[k] \notin {"wait", "done"}
    BY <1>10 DEF LockQuad, UnlockQuad
  <2> QED
    BY <2>1, <2>2
<1>11. ASSUME NEW l \in Lane, LockExit(l) \/ AppendCar(l) PROVE WaitInv'
  <2>1. UNCHANGED <<in_cars, inc, in_buf, arrive>>
    BY <1>11 DEF LockExit, AppendCar, laneVars
  <2>2. \A k \in Lane : cross'[k] = cross[k] \/ cross'[k] \notin {"wait", "done"}
    BY <1>11 DEF LockExit, AppendCar
  <2> QED
    BY <2>1, <2>2
<1>12. ASSUME NEW l \in Lane, SpuriousWake(l) PROVE WaitInv'
  BY <1>12 DEF SpuriousWake, laneVars
<1>13. ASSUME Verify \/ UNCHANGED vars PROVE WaitInv'
  BY <1>13 DEF Verify, vars, laneVars
<1> QED
  BY <1>1, <1>2, <1>3, <1>4, <1>5, <1>6, <1>7, <1>8, <1>9, <1>10, <1>11, <1>12, <1>13
  DEF Next, ArriveStep, CrossStep, Terminated

(* A thread sleeps only while the other thread of its lane still has the   *)
(* step to make that wakes it.                                             *)
THEOREM NoLostWakeupCorrect == Spec => []NoLostWakeup
<1>1. Init => WaitInv
  BY LaneAssumption DEF Init, WaitInv, NoLostWakeup
<1>2. TypeInv /\ WaitInv /\ [Next]_vars => WaitInv'
  BY WaitInvStep
<1>3. WaitInv => NoLostWakeup
  BY DEF WaitInv
<1> QED
  BY <1>1, <1>2, <1>3, TypeInvariance, PTL DEF Spec
-----------------------------------------------------------------------------
(* The quadrants.  Held(l) are the elements of its path that the crossing  *)
(* thread of l has locked and not yet unlocked.                            *)
Held(l) == CASE cross[l] = "quads" -> 0 .. x[l] - 1
             [] cross[l] \in {"exit", "append"} -> 0 .. PathSlots - 1
             [] cross[l] = "unlock" -> x[l] .. PathSlots - 1
             [] OTHER -> {}

Holds(l) ==
  /\ cross[l] \in {"quads", "exit", "append", "unlock"} => path[l][0] = 2
  /\ \A k \in Held(l) : quad[path[l][k]] = l
  /\ \A j, k \in Held(l) : j # k => path[l][j] # path[l][k]

QuadInv == \A l \in Lane : Holds(l)

LEMMA HeldInPath ==
  ASSUME TypeInv, NEW l \in Lane, NEW k \in Held(l)
  PROVE  k \in Quad /\ path[l][k] \in Quad
<1>1. k \in Quad
  BY PathAssumption DEF TypeInv, BasicType, Counted, Held, Quad, CrossPc
<1> QED
  BY <1>1 DEF TypeInv, BasicType

(* program points where a crossing thread has no path                      *)
Outside == {"lock", "locked", "wait", "relock", "relocked", "path", "done"}

StaysOut(l) == \/ cross'[l] = cross[l]
               \/ cross[l] \in Outside /\ cross'[l] \in Outside

LEMMA QuadUnchanged ==
  ASSUME QuadInv, UNCHANGED <<quad, path, x>>,
         \A l \in Lane : StaysOut(l)
  PROVE  QuadInv'
<1> SUFFICES ASSUME NEW l \in Lane PROVE Holds(l)'
  BY DEF QuadInv
<1>1. CASE cross'[l] = cross[l]
  BY <1>1 DEF QuadInv, Holds, Held
<1>2. CASE cross'[l] \in Outside
  BY <1>2 DEF Holds, Held, Outside
<1> QED
  BY <1>1, <1>2 DEF StaysOut

LEMMA QuadInvStep == TypeInv /\ QuadInv /\ [Next]_vars => QuadInv'
<1> SUFFICES ASSUME TypeInv, QuadInv, [Next]_vars PROVE QuadInv'
  OBVIOUS
<1> USE PathAssumption
<1>2. ASSUME NEW l \in Lane,
             ArriveLock(l) \/ ArriveReturn(l) \/ ArriveWait(l) \/ ArriveInsert(l)
      PROVE  QuadInv'
  <2>1. UNCHANGED <<quad, path, x>>
    BY <1>2 DEF ArriveLock, ArriveReturn, ArriveWait, ArriveInsert, localVars
  <2>2. \A k \in Lane : StaysOut(k)
    BY <1>2 DEF StaysOut, Outside, ArriveLock, ArriveReturn, ArriveWait, ArriveInsert, Signal, TypeInv, BasicType
  <2> QED
    BY <2>1, <2>2, QuadUnchanged
<1>3. ASSUME NEW l \in Lane,
             CrossLock(l) \/ CrossReturn(l) \/ CrossWait(l) \/ CrossTake(l)
      PROVE  QuadInv'
  <2>1. UNCHANGED <<quad, path, x>>
    BY <1>3 DEF CrossLock, CrossReturn, CrossWait, CrossTake, localVars
  <2>2. \A k \in Lane : StaysOut(k)
    BY <1>3 DEF StaysOut, Outside, CrossLock, CrossReturn, CrossWait, CrossTake, CrossTests, TypeInv, BasicType
  <2> QED
    BY <2>1, <2>2, QuadUnchanged
<1>4. ASSUME NEW l \in Lane, SpuriousWake(l) \/ CrossPathInvalid(l) PROVE QuadInv'
  <2>1. UNCHANGED <<quad, path, x>>
    BY <1>4 DEF SpuriousWake, CrossPathInvalid, localVars
  <2>2. \A k \in Lane : StaysOut(k)
    BY <1>4 DEF StaysOut, Outside, SpuriousWake, CrossPathInvalid, TypeInv, BasicType
  <2> QED
    BY <2>1, <2>2, QuadUnchanged
<1>5. ASSUME Verify \/ UNCHANGED vars PROVE QuadInv'
  <2>1. UNCHANGED <<quad, path, x>>
    BY <1>5 DEF Verify, vars, localVars
  <2>2. \A k \in Lane : StaysOut(k)
    BY <1>5 DEF Verify, vars, StaysOut
  <2> QED
    BY <2>1, <2>2, QuadUnchanged
<1>6. ASSUME NEW l \in Lane, CrossPath(l) PROVE QuadInv'
  <2> SUFFICES ASSUME NEW k \in Lane PROVE Holds(k)'
    BY DEF QuadInv
  <2>1. CASE k # l
    BY <1>6, <2>1 DEF CrossPath, QuadInv, Holds, Held, TypeInv, BasicType
  <2>2. CASE k = l
    <3>1. path'[l][0] = 2
      BY <1>6, PathStartsAtTwo DEF CrossPath, TypeInv, BasicType
    <3>2. cross'[l] = "quads" /\ x'[l] = 0
      BY <1>6 DEF CrossPath, TypeInv, BasicType
    <3>3. Held(l)' = {}
      BY <3>2 DEF Held
    <3> QED
      BY <2>2, <3>1, <3>3 DEF Holds
  <2> QED
    BY <2>1, <2>2
<1>7. ASSUME NEW l \in Lane, LockQuad(l) PROVE QuadInv'
  <2> DEFINE q == path[l][x[l]]
  <2>1. /\ cross[l] = "quads" /\ quad[q] = Free /\ q \in Quad
        /\ quad' = [quad EXCEPT ![q] = l] /\ path' = path
        /\ x[l] \in 0 .. PathSlots - 1 /\ x'[l] = x[l] + 1
    <3>1. cross[l] = "quads" /\ x[l] \in 0 .. PathSlots - 1
      BY <1>7 DEF LockQuad, TypeInv, BasicType, Counted
    <3>2. x[l] \in Quad /\ q \in Quad
      BY <3>1 DEF TypeInv, BasicType, Quad
    <3> QED
      BY <1>7, <3>1, <3>2 DEF LockQuad, TypeInv, BasicType
  <2>2. ASSUME NEW k \in Lane, k # l PROVE Holds(k)'
    <3>1. cross'[k] = cross[k] /\ x'[k] = x[k] /\ Held(k)' = Held(k)
      BY <1>7, <2>2 DEF LockQuad, TypeInv, BasicType, Held
    <3>2. ASSUME NEW i \in Held(k) PROVE quad'[path[k][i]] = k
      <4>1. quad[path[k][i]] = k /\ path[k][i] \in Quad
        BY HeldInPath DEF QuadInv, Holds
      <4>2. k # Free
        BY FreeAssumption, LaneAssumption
      <4> QED
        BY <2>1, <4>1, <4>2 DEF TypeInv, BasicType
    <3> QED
      BY <2>1, <3>1, <3>2 DEF QuadInv, Holds
  <2>3. Holds(l)'
    <3>1. Held(l) = 0 .. x[l] - 1
      BY <2>1 DEF Held
    <3>2. Held(l)' = 0 .. x[l]
      BY <1>7, <2>1 DEF LockQuad, TypeInv, BasicType, Held
    <3>3. l # Free
      BY FreeAssumption, LaneAssumption
    <3>4. ASSUME NEW i \in 0 .. x[l] - 1
          PROVE  path[l][i] \in Quad /\ quad[path[l][i]] = l /\ path[l][i] # q
      BY <2>1, <3>1, <3>3, HeldInPath DEF QuadInv, Holds
    <3>5. \A i \in 0 .. x[l] : quad'[path[l][i]] = l
      BY <2>1, <3>4 DEF TypeInv, BasicType
    <3>6. \A i, j \in 0 .. x[l] : i # j => path[l][i] # path[l][j]
      <4> SUFFICES ASSUME NEW i \in 0 .. x[l], NEW j \in 0 .. x[l], i # j
                   PROVE  path[l][i] # path[l][j]
        OBVIOUS
      <4>1. CASE i = x[l]
        BY <2>1, <3>4, <4>1
      <4>2. CASE j = x[l]
        BY <2>1, <3>4, <4>2
      <4>3. CASE i # x[l] /\ j # x[l]
        BY <2>1, <3>1, <4>3 DEF QuadInv, Holds
      <4> QED
        BY <4>1, <4>2, <4>3
    <3>7. path[l][0] = 2
      BY <2>1 DEF QuadInv, Holds
    <3> QED
      BY <2>1, <3>2, <3>5, <3>6, <3>7 DEF Holds
  <2> QED
    BY <2>2, <2>3 DEF QuadInv
<1>8. ASSUME NEW l \in Lane, LockExit(l) PROVE QuadInv'
  <2> SUFFICES ASSUME NEW k \in Lane PROVE Holds(k)'
    BY DEF QuadInv
  <2>1. UNCHANGED <<quad, path, x>> /\ Held(k)' = Held(k)
    BY <1>8 DEF LockExit, localVars, Held, TypeInv, BasicType
  <2>2. cross'[k] \in {"quads", "exit", "append", "unlock"}
          => cross[k] \in {"quads", "exit", "append", "unlock"}
    BY <1>8 DEF LockExit, TypeInv, BasicType
  <2> QED
    BY <2>1, <2>2 DEF QuadInv, Holds
<1>9. ASSUME NEW l \in Lane, AppendCar(l) PROVE QuadInv'
  <2> SUFFICES ASSUME NEW k \in Lane PROVE Holds(k)'
    BY DEF QuadInv
  <2>1. UNCHANGED <<quad, path>> /\ Held(k)' = Held(k)
    BY <1>9 DEF AppendCar, Held, TypeInv, BasicType
  <2>2. cross'[k] \in {"quads", "exit", "append", "unlock"}
          => cross[k] \in {"quads", "exit", "append", "unlock"}
    BY <1>9 DEF AppendCar, TypeInv, BasicType
  <2> QED
    BY <2>1, <2>2 DEF QuadInv, Holds
<1>10. ASSUME NEW l \in Lane, UnlockQuad(l) PROVE QuadInv'
  <2> DEFINE q == path[l][x[l]]
  <2>1. /\ cross[l] = "unlock" /\ x[l] \in 0 .. PathSlots - 1
        /\ q \in Quad /\ quad' = [quad EXCEPT ![q] = Free]
    BY <1>10 DEF UnlockQuad, TypeInv, BasicType, Counted, Quad
  <2>2. Held(l) = x[l] .. PathSlots - 1 /\ x[l] \in Held(l)
    BY <2>1 DEF Held
  <2>3. ASSUME NEW k \in Lane, k # l PROVE Holds(k)'
    <3>1. cross'[k] = cross[k] /\ x'[k] = x[k] /\ path'[k] = path[k] /\ Held(k)' = Held(k)
      BY <1>10, <2>3 DEF UnlockQuad, TypeInv, BasicType, Held
    <3>2. ASSUME NEW i \in Held(k) PROVE quad'[path[k][i]] = k
      <4>1. quad[path[k][i]] = k /\ path[k][i] \in Quad /\ quad[q] = l
        BY <2>2, HeldInPath DEF QuadInv, Holds
      <4> QED
        BY <2>1, <2>3, <4>1 DEF TypeInv, BasicType
    <3> QED
      BY <3>1, <3>2 DEF QuadInv, Holds
  <2>4. CASE x[l] + 1 < PathSlots
    <3>1. cross'[l] = "unlock" /\ x'[l] = x[l] + 1 /\ path' = path
      BY <1>10, <2>1, <2>4 DEF UnlockQuad, TypeInv, BasicType
    <3>2. Held(l)' = x[l] + 1 .. PathSlots - 1
      BY <3>1 DEF Held
    <3>3. ASSUME NEW i \in x[l] + 1 .. PathSlots - 1 PROVE quad'[path[l][i]] = l
      <4>1. i \in Held(l) /\ i # x[l]
        BY <2>1, <2>2
      <4>2. quad[path[l][i]] = l /\ path[l][i] # q /\ path[l][i] \in Quad
        BY <2>2, <4>1, HeldInPath DEF QuadInv, Holds
      <4> QED
        BY <2>1, <4>2 DEF TypeInv, BasicType
    <3>4. \A i, j \in x[l] + 1 .. PathSlots - 1 : i # j => path[l][i] # path[l][j]
      BY <2>1, <2>2 DEF QuadInv, Holds
    <3> QED
      BY <2>1, <2>3, <3>1, <3>2, <3>3, <3>4 DEF QuadInv, Holds
  <2>5. CASE ~(x[l] + 1 < PathSlots)
    <3>1. cross'[l] = "lock"
      BY <1>10, <2>5 DEF UnlockQuad, TypeInv, BasicType
    <3>2. Holds(l)'
      BY <3>1 DEF Holds, Held
    <3> QED
      BY <2>3, <3>2 DEF QuadInv
  <2> QED
    BY <2>4, <2>5
<1> QED
  BY <1>2, <1>3, <1>4, <1>5, <1>6, <1>7, <1>8, <1>9, <1>10
  DEF Next, ArriveStep, CrossStep, Terminated

THEOREM QuadInvariance == Spec => []QuadInv
<1>1. Init => QuadInv
  BY DEF Init, QuadInv, Holds, Held
<1>2. TypeInv /\ QuadInv /\ [Next]_vars => QuadInv'
  BY QuadInvStep
<1> QED
  BY <1>1, <1>2, TypeInvariance, PTL DEF Spec

(* Every route begins with quadrant 2, so at most one car is in the box    *)
(* and no two collide, however many elements of its path a car locks and   *)
(* whatever the unwritten ones hold.                                       *)
THEOREM NoCollisionCorrect == Spec => []NoCollision
<1>1. ASSUME QuadInv, NEW l \in InBox, NEW m \in InBox PROVE l = m
  <2>1. 0 \in Held(l) /\ 0 \in Held(m)
    BY PathAssumption DEF InBox, Held
  <2>2. path[l][0] = 2 /\ path[m][0] = 2
    BY <1>1 DEF QuadInv, Holds, InBox
  <2>3. quad[2] = l /\ quad[2] = m
    BY <1>1, <2>1, <2>2 DEF QuadInv, Holds, InBox
  <2> QED
    BY <2>3
<1>2. QuadInv => NoCollision
  BY <1>1 DEF NoCollision
<1> QED
  BY <1>2, QuadInvariance, PTL
=============================================================================
