------------------------------ MODULE Traffic ------------------------------
(***************************************************************************)
(* Assignment2: the intersection simulation (cars.c, traffic.c).           *)
(*                                                                         *)
(* Each lane has an arrival thread, which moves the cars of the schedule   *)
(* into the lane's circular buffer, and a crossing thread, which takes     *)
(* them out, locks quadrants of the intersection and prepends each car to  *)
(* the out_cars list of the lane it leaves by.  A lane's fields belong to  *)
(* its mutex; the two condition variables of a lane have one possible      *)
(* waiter each, so their wait sets are the threads whose pc is "wait".     *)
(***************************************************************************)
EXTENDS Routes, FiniteSets

CONSTANTS Lane,       \* the lanes of the instance (the code has all of Dir)
          Car,        \* records with at least in_dir and out_dir
          Arrivals,   \* the in_cars lists that parse_schedule leaves
          Capacity,   \* LANE_LENGTH
          PathSlots,  \* sizeof(path)/sizeof(int), path being a pointer
          Stale,      \* what an unwritten int of a malloc'ed route may hold
          Free,       \* owner of an unlocked mutex
          NoCar

ASSUME LaneAssumption == Lane \subseteq Dir /\ IsFiniteSet(Lane)
ASSUME CarAssumption == /\ \A c \in Car : c.out_dir \in Dir => c.out_dir \in Lane
                        /\ NoCar \notin Car
ASSUME ArrivalsAssumption ==
  /\ Arrivals \in [Lane -> Seq(Car)]
  /\ \A l \in Lane : \A i \in 1 .. Len(Arrivals[l]) : Arrivals[l][i].in_dir = l
(* Each line of the schedule is a car of its own, "id uniquely identifies   *)
(* each car" (traffic.h)                                                   *)
ASSUME DistinctAssumption ==
  \A l \in Lane : \A i, j \in 1 .. Len(Arrivals[l]) :
    Arrivals[l][i] = Arrivals[l][j] => i = j
ASSUME CapacityAssumption == Capacity \in Nat \ {0}
ASSUME PathAssumption == PathSlots \in 1 .. 4 /\ Stale \subseteq Quad
ASSUME FreeAssumption == Free \notin Dir /\ Free \notin {"arrive", "cross"} \X Dir

VARIABLES in_cars, out_cars,           \* lists, first car first
          inc, passed,
          buffer, head, tail, in_buf,  \* circular buffer
          lock,                        \* thread that holds lanes[l].lock
          quad,                        \* lane whose crossing thread holds quad[q]
          arrive, cross,               \* program counters, one per lane
          cur_car, path, x,            \* locals of car_cross
          status                       \* of the process

laneVars == <<in_cars, out_cars, inc, passed, buffer, head, tail, in_buf>>
localVars == <<cur_car, path, x>>
vars == <<laneVars, lock, quad, arrive, cross, localVars, status>>
-----------------------------------------------------------------------------
Thread == {"arrive", "cross"} \X Lane
Slot == 0 .. Capacity - 1
EmptyPath == [k \in Quad |-> 0]

ArrivePc == {"lock", "locked", "wait", "relock", "relocked", "done"}
CrossPc == {"lock", "locked", "wait", "relock", "relocked", "path", "quads",
            "exit", "append", "unlock", "done"}

Init ==
  /\ in_cars = Arrivals
  /\ out_cars = [l \in Lane |-> <<>>]
  /\ inc = [l \in Lane |-> Len(Arrivals[l])]
  /\ passed = [l \in Lane |-> 0]
  /\ buffer = [l \in Lane |-> [i \in Slot |-> NoCar]]
  /\ head = [l \in Lane |-> 0]
  /\ tail = [l \in Lane |-> 0]
  /\ in_buf = [l \in Lane |-> 0]
  /\ lock = [l \in Lane |-> Free]
  /\ quad = [q \in Quad |-> Free]
  /\ arrive = [l \in Lane |-> "lock"]
  /\ cross = [l \in Lane |-> "lock"]
  /\ cur_car = [l \in Lane |-> NoCar]
  /\ path = [l \in Lane |-> EmptyPath]
  /\ x = [l \in Lane |-> 0]
  /\ status = "running"

(* defects of Advance, for the mutants: the wrap one slot late, or early *)
AdvanceLate(i) == IF i + 1 > Capacity THEN 0 ELSE i + 1
AdvanceEarly(i) == IF i + 1 >= Capacity - 1 THEN 0 ELSE i + 1

(* i++, back to 0 at capacity *)
Advance(i) == IF i + 1 >= Capacity THEN 0 ELSE i + 1

(* defect of Signal: it is forgotten *)
NoSignal(pc, l) == pc

(* pthread_cond_signal: the waiter of this lane, if any, must now reacquire *)
(* the mutex.  pc is the program counter of the threads that may wait.      *)
Signal(pc, l) == IF pc[l] = "wait" THEN [pc EXCEPT ![l] = "relock"] ELSE pc

(* exit() ends every thread *)
Running == status = "running"

(* pthread_mutex_unlock of the lane's mutex *)
Unlock(l) == lock' = [lock EXCEPT ![l] = Free]
-----------------------------------------------------------------------------
(* car_arrive *)

(* pthread_mutex_lock, or the reacquisition inside pthread_cond_wait *)
ArriveLock(l) ==
  /\ Running
  /\ arrive[l] \in {"lock", "relock"}
  /\ lock[l] = Free
  /\ lock' = [lock EXCEPT ![l] = <<"arrive", l>>]
  /\ arrive' = [arrive EXCEPT ![l] = IF @ = "lock" THEN "locked" ELSE "relocked"]
  /\ UNCHANGED <<laneVars, quad, cross, localVars, status>>

AllArrived(l) == inc[l] <= 0 \/ in_cars[l] = <<>>

ArriveReturn(l) ==
  /\ Running
  /\ arrive[l] = "locked"
  /\ AllArrived(l)
  /\ arrive' = [Signal(arrive, l) EXCEPT ![l] = "done"]
  /\ Unlock(l)
  /\ UNCHANGED <<laneVars, quad, cross, localVars, status>>

(* at the test of `while (in_buf == capacity)': only the first test comes   *)
(* after the test of the early return                                       *)
ArriveTests(l) == \/ arrive[l] = "locked" /\ ~AllArrived(l)
                  \/ arrive[l] = "relocked"

ArriveWait(l) ==
  /\ Running
  /\ ArriveTests(l)
  /\ in_buf[l] = Capacity
  /\ arrive' = [arrive EXCEPT ![l] = "wait"]
  /\ Unlock(l)
  /\ UNCHANGED <<laneVars, quad, cross, localVars, status>>

ArriveInsert(l) ==
  /\ Running
  /\ ArriveTests(l)
  /\ in_buf[l] # Capacity
  /\ buffer' = [buffer EXCEPT ![l][tail[l]] = Head(in_cars[l])]
  /\ tail' = [tail EXCEPT ![l] = Advance(@)]
  /\ in_buf' = [in_buf EXCEPT ![l] = @ + 1]
  /\ in_cars' = [in_cars EXCEPT ![l] = Tail(@)]
  /\ cross' = Signal(cross, l)
  /\ arrive' = [arrive EXCEPT ![l] = "lock"]
  /\ Unlock(l)
  /\ UNCHANGED <<out_cars, inc, passed, head, quad, localVars, status>>
-----------------------------------------------------------------------------
(* car_cross: taking a car out of the lane's buffer *)

CrossLock(l) ==
  /\ Running
  /\ cross[l] \in {"lock", "relock"}
  /\ lock[l] = Free
  /\ lock' = [lock EXCEPT ![l] = <<"cross", l>>]
  /\ cross' = [cross EXCEPT ![l] = IF @ = "lock" THEN "locked" ELSE "relocked"]
  /\ UNCHANGED <<laneVars, quad, arrive, localVars, status>>

(* defect of AllCrossed: the thread returns one car early *)
LastCarLeft(l) == inc[l] <= 1

AllCrossed(l) == inc[l] <= 0

CrossReturn(l) ==
  /\ Running
  /\ cross[l] = "locked"
  /\ AllCrossed(l)
  /\ cross' = [cross EXCEPT ![l] = "done"]
  /\ Unlock(l)
  /\ UNCHANGED <<laneVars, quad, arrive, localVars, status>>

CrossTests(l) == \/ cross[l] = "locked" /\ ~AllCrossed(l)
                 \/ cross[l] = "relocked"

CrossWait(l) ==
  /\ Running
  /\ CrossTests(l)
  /\ in_buf[l] = 0
  /\ cross' = [cross EXCEPT ![l] = "wait"]
  /\ Unlock(l)
  /\ UNCHANGED <<laneVars, quad, arrive, localVars, status>>

CrossTake(l) ==
  /\ Running
  /\ CrossTests(l)
  /\ in_buf[l] # 0
  /\ cur_car' = [cur_car EXCEPT ![l] = buffer[l][head[l]]]
  /\ head' = [head EXCEPT ![l] = Advance(@)]
  /\ in_buf' = [in_buf EXCEPT ![l] = @ - 1]
  /\ inc' = [inc EXCEPT ![l] = @ - 1]
  /\ arrive' = Signal(arrive, l)
  /\ cross' = [cross EXCEPT ![l] = "path"]
  /\ Unlock(l)
  /\ UNCHANGED <<in_cars, out_cars, passed, buffer, tail, quad, path, x, status>>
-----------------------------------------------------------------------------
(* car_cross: through the intersection *)

ValidDirections(c) == c.in_dir \in Dir /\ c.out_dir \in Dir

(* compute_path ends the process when a direction is not one of the four *)
CrossPathInvalid(l) ==
  /\ Running
  /\ cross[l] = "path"
  /\ ~ValidDirections(cur_car[l])
  /\ status' = "exit1"
  /\ UNCHANGED <<laneVars, lock, quad, arrive, cross, localVars>>

CrossPath(l) ==
  /\ Running
  /\ cross[l] = "path"
  /\ ValidDirections(cur_car[l])
  /\ \E s \in Stale :
       path' = [path EXCEPT ![l] = ComputePath(cur_car[l].in_dir, cur_car[l].out_dir,
                                               [k \in Quad |-> s])]
  /\ x' = [x EXCEPT ![l] = 0]
  /\ cross' = [cross EXCEPT ![l] = "quads"]
  /\ UNCHANGED <<laneVars, lock, quad, arrive, cur_car, status>>

LockQuad(l) ==
  /\ Running
  /\ cross[l] = "quads"
  /\ quad[path[l][x[l]]] = Free
  /\ quad' = [quad EXCEPT ![path[l][x[l]]] = l]
  /\ x' = [x EXCEPT ![l] = @ + 1]
  /\ cross' = [cross EXCEPT ![l] = IF x[l] + 1 < PathSlots THEN "quads" ELSE "exit"]
  /\ UNCHANGED <<laneVars, lock, arrive, cur_car, path, status>>

ExitLane(l) == cur_car[l].out_dir

(* defect of LockExit: the list is changed without the lock *)
SkipLockExit(l) ==
  /\ Running
  /\ cross[l] = "exit"
  /\ cross' = [cross EXCEPT ![l] = "append"]
  /\ UNCHANGED <<laneVars, lock, quad, arrive, localVars, status>>

LockExit(l) ==
  /\ Running
  /\ cross[l] = "exit"
  /\ lock[ExitLane(l)] = Free
  /\ lock' = [lock EXCEPT ![ExitLane(l)] = <<"cross", l>>]
  /\ cross' = [cross EXCEPT ![l] = "append"]
  /\ UNCHANGED <<laneVars, quad, arrive, localVars, status>>

(* defects of the two helpers: the wrong lane is unlocked, the wrong end   *)
(* of the list is taken                                                    *)
UnlockOwnLane(l) == Unlock(l)
PutLast(car, list) == list \o <<car>>

UnlockExit(l) == Unlock(ExitLane(l))
PutFirst(car, list) == <<car>> \o list

(* y = 0 afterwards: the unlocking loop restarts at path[0] *)
AppendCar(l) ==
  /\ Running
  /\ cross[l] = "append"
  /\ out_cars' = [out_cars EXCEPT ![ExitLane(l)] = PutFirst(cur_car[l], @)]
  /\ passed' = [passed EXCEPT ![ExitLane(l)] = @ + 1]
  /\ UnlockExit(l)
  /\ x' = [x EXCEPT ![l] = 0]
  /\ cur_car' = [cur_car EXCEPT ![l] = NoCar]
  /\ cross' = [cross EXCEPT ![l] = "unlock"]
  /\ UNCHANGED <<in_cars, inc, buffer, head, tail, in_buf, quad, arrive, path, status>>

UnlockQuad(l) ==
  /\ Running
  /\ cross[l] = "unlock"
  /\ quad' = [quad EXCEPT ![path[l][x[l]]] = Free]
  /\ IF x[l] + 1 < PathSlots
       THEN x' = [x EXCEPT ![l] = @ + 1] /\ UNCHANGED <<cross, path>>
       ELSE /\ x' = [x EXCEPT ![l] = 0]
            /\ path' = [path EXCEPT ![l] = EmptyPath]  \* free(path)
            /\ cross' = [cross EXCEPT ![l] = "lock"]
  /\ UNCHANGED <<laneVars, lock, arrive, cur_car, status>>
-----------------------------------------------------------------------------
(* A condition wait may end without a signal *)
SpuriousWake(l) ==
  /\ Running
  /\ \/ arrive[l] = "wait" /\ arrive' = [arrive EXCEPT ![l] = "relock"] /\ UNCHANGED cross
     \/ cross[l] = "wait" /\ cross' = [cross EXCEPT ![l] = "relock"] /\ UNCHANGED arrive
  /\ UNCHANGED <<laneVars, lock, quad, localVars, status>>

(* main: joins every thread, then verify() reads the out_cars lists *)
Verify ==
  /\ Running
  /\ \A l \in Lane : arrive[l] = "done" /\ cross[l] = "done"
  /\ status' = "verified"
  /\ UNCHANGED <<laneVars, lock, quad, arrive, cross, localVars>>

ArriveStep(l) == ArriveLock(l) \/ ArriveReturn(l) \/ ArriveWait(l) \/ ArriveInsert(l)

CrossStep(l) ==
  \/ CrossLock(l) \/ CrossReturn(l) \/ CrossWait(l) \/ CrossTake(l)
  \/ CrossPath(l) \/ CrossPathInvalid(l) \/ LockQuad(l) \/ LockExit(l)
  \/ AppendCar(l) \/ UnlockQuad(l)

(* The process is gone; the self-loop tells its end from a deadlock.       *)
Terminated == ~Running /\ UNCHANGED vars

Next ==
  \/ \E l \in Lane : ArriveStep(l) \/ CrossStep(l) \/ SpuriousWake(l)
  \/ Verify
  \/ Terminated

Spec == Init /\ [][Next]_vars

(* The threads are scheduled by the kernel: a thread that can run goes on  *)
(* running.  Nothing is assumed of who gets a contended mutex.  A wait may *)
(* end spuriously, but not for ever.                                       *)
Fairness ==
  /\ \A l \in Lane : WF_vars(ArriveStep(l))
  /\ \A l \in Lane : WF_vars(CrossStep(l))
  /\ WF_vars(Verify)
  /\ <>[][~ \E l \in Lane : SpuriousWake(l)]_vars

FairSpec == Spec /\ Fairness
=============================================================================
