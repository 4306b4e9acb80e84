------------------------- MODULE TrafficProperties -------------------------
(***************************************************************************)
(* What the intersection simulation of Assignment2 must guarantee.         *)
(***************************************************************************)
EXTENDS Traffic

(* The cars of the buffer, oldest first: the in_buf slots from head on.    *)
Pos(i, k) == IF i + k < Capacity THEN i + k ELSE i + k - Capacity

Window(l) == [k \in 1 .. in_buf[l] |-> buffer[l][Pos(head[l], k - 1)]]

(* The car the crossing thread of l has taken and not yet put into a list. *)
OnTheRoad(l) == IF cur_car[l] = NoCar THEN <<>> ELSE <<cur_car[l]>>

(* Crossing threads that hold every quadrant they asked for.               *)
InBox == {l \in Lane : cross[l] \in {"exit", "append"}}

(* Crossing threads that hold at least the first quadrant of their path.   *)
HoldsFirst(l) == \/ cross[l] = "quads" /\ x[l] > 0
                 \/ cross[l] \in {"exit", "append"}
                 \/ cross[l] = "unlock" /\ x[l] = 0

(* A default pthread mutex is not recursive: the thread never wakes up.    *)
WaitsForItself(l) == cross[l] = "quads" /\ quad[path[l][x[l]]] = l

-----------------------------------------------------------------------------
(* Every variable keeps its type: indices stay inside the buffer, counts   *)
(* inside the capacity, and the locks are held by threads of the program.  *)
TypeOK ==
  /\ in_cars \in [Lane -> Seq(Car)]
  /\ out_cars \in [Lane -> Seq(Car)]
  /\ inc \in [Lane -> Nat]
  /\ passed \in [Lane -> Nat]
  /\ buffer \in [Lane -> [Slot -> Car \cup {NoCar}]]
  /\ head \in [Lane -> Slot]
  /\ tail \in [Lane -> Slot]
  /\ in_buf \in [Lane -> 0 .. Capacity]
  /\ lock \in [Lane -> Thread \cup {Free}]
  /\ quad \in [Quad -> Lane \cup {Free}]
  /\ arrive \in [Lane -> ArrivePc]
  /\ cross \in [Lane -> CrossPc]
  /\ cur_car \in [Lane -> Car \cup {NoCar}]
  /\ path \in [Lane -> [Quad -> Quad]]
  /\ x \in [Lane -> 0 .. PathSlots]
  /\ status \in {"running", "verified", "exit1"}

(* No car is lost, duplicated or overtaken inside its lane: the cars not   *)
(* yet taken by the crossing thread are the last inc cars of the schedule, *)
(* the older ones in the circular buffer (in order, across the wrap of     *)
(* head and tail), the newer ones still in in_cars.                        *)
QueueOrder ==
  \A l \in Lane :
    Window(l) \o in_cars[l]
      = SubSeq(Arrivals[l], Len(Arrivals[l]) - inc[l] + 1, Len(Arrivals[l]))

(* A thread sleeps on a condition variable only while the condition it     *)
(* waits for is false and the other thread of the lane can still make it   *)
(* true: no signal is lost, and the two never sleep together.              *)
NoLostWakeup ==
  \A l \in Lane :
    /\ arrive[l] = "wait" => in_buf[l] = Capacity /\ cross[l] \notin {"wait", "done"}
    /\ cross[l] = "wait" => in_buf[l] = 0 /\ arrive[l] \notin {"wait", "done"}

(* Cars in the intersection at the same time do not drive through a common *)
(* quadrant: the locks taken for compute_path's result exclude all         *)
(* collisions, whatever route the cars really drive.                       *)
NoCollision ==
  \A l, m \in InBox :
    l # m => Geometry(l, ExitLane(l)) \cap Geometry(m, ExitLane(m)) = {}

(* A thread that waits for a quadrant, or lets quadrants go, holds no lane *)
(* mutex: lane mutexes come after quadrants in the lock order, so waiting  *)
(* for the box never blocks an arrival.                                    *)
LaneLocksComeLast ==
  \A l \in Lane :
    \A k \in Lane : lock[k] = <<"cross", l>> =>
      \/ cross[l] \in {"locked", "relocked"} /\ k = l
      \/ cross[l] = "append" /\ k = ExitLane(l)

(* main reads the out_cars lists after joining the eight threads: by then  *)
(* each list holds exactly the cars that leave by its lane, each once, and *)
(* passed counts them.                                                     *)
Delivered ==
  status = "verified" =>
    \A d \in Lane :
      LET out == {out_cars[d][i] : i \in 1 .. Len(out_cars[d])}
      IN  /\ passed[d] = Len(out_cars[d]) /\ passed[d] = Cardinality(out)
          /\ out = {c \in UNION {{Arrivals[l][i] : i \in 1 .. Len(Arrivals[l])} : l \in Lane} :
                      c.out_dir = d}

(* The fields of a lane change only in a step of the thread that holds the *)
(* lane's mutex, the crossing threads of other lanes included.             *)
LaneFields(l) == <<in_cars[l], out_cars[l], inc[l], passed[l], buffer[l],
                   head[l], tail[l], in_buf[l]>>

PcOf(t) == IF t[1] = "arrive" THEN arrive[t[2]] ELSE cross[t[2]]

WritesUnderLock ==
  [][\A l \in Lane : LaneFields(l)' # LaneFields(l) =>
        \E t \in Thread : lock[l] = t /\ PcOf(t)' # PcOf(t)]_vars

(* The process ends: when the directions of all cars are valid, all        *)
(* threads return and main prints the lists; otherwise compute_path ends   *)
(* the process.  No thread blocks for ever on a mutex or a condition       *)
(* variable, whoever wins the contended ones, but for one kind of car: the *)
(* element of the route that compute_path leaves unwritten may send the    *)
(* thread of a car from WEST to SOUTH to the quadrant it already holds.    *)
HalfWritten(l) == cur_car[l].in_dir = WEST /\ cur_car[l].out_dir = SOUTH

Termination ==
  <>(\/ status = IF \A c \in Car : c.out_dir \in Dir THEN "verified" ELSE "exit1"
     \/ \E l \in Lane : WaitsForItself(l) /\ HalfWritten(l))
-----------------------------------------------------------------------------
(* The threads implement bounded FIFO lanes whose cars cross one by one,   *)
(* and go on until all have left, unless a thread waits for itself.        *)
ExitOf(car) == car.out_dir

Flow == INSTANCE CarFlow WITH
          Bound <- Capacity,
          Exit <- ExitOf,
          pending <- in_cars,
          queue <- [l \in Lane |-> Window(l)],
          crossing <- [l \in Lane |-> OnTheRoad(l)],
          left <- out_cars

ImplementsCarFlow ==
  /\ Flow!Steps
  /\ Flow!Progress \/ <>(\E l \in Lane : WaitsForItself(l) /\ HalfWritten(l))
-----------------------------------------------------------------------------
(* traffic.h:77: "Locks are ordered in priority 1 > 2 > 3 > 4, to avoid    *)
(* deadlock": a thread that asks for a quadrant holds no later one, nor    *)
(* the same.                                                               *)
QuadsInOrder ==
  \A l \in Lane :
    cross[l] = "quads" => \A q \in Quad : quad[q] = l => q < path[l][x[l]]
=============================================================================
