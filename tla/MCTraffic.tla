----------------------------- MODULE MCTraffic -----------------------------
(***************************************************************************)
(* Schedules for model checking.  A schedule is the list of lines of the   *)
(* schedule file; parse_schedule turns it into one list per lane.          *)
(***************************************************************************)
EXTENDS TrafficProperties, SequencesExt

CarAt(id, i, o) == [id |-> id, in_dir |-> i, out_dir |-> o]

(* parse_schedule: every line's car becomes the head of its lane's list    *)
ParseSchedule(lines) ==
  FoldLeft(LAMBDA lists, c : [lists EXCEPT ![c.in_dir] = <<c>> \o @],
           [l \in Lane |-> <<>>], lines)

(* One long lane: the ring of two slots wraps twice.  The last car of the  *)
(* other lane has an out_dir no lane has: compute_path calls exit(1).      *)
Convoy == << CarAt(6, SOUTH, "MAX_DIRECTION"), CarAt(1, WEST, SOUTH), CarAt(2, WEST, NORTH),
             CarAt(3, WEST, SOUTH), CarAt(4, WEST, WEST), CarAt(5, SOUTH, WEST) >>

(* Three lanes, one with two cars, leaving by each other's lanes; among    *)
(* them the car whose route compute_path leaves half unwritten.            *)
ThreeWays == << CarAt(1, NORTH, NORTH), CarAt(2, SOUTH, WEST),
                CarAt(3, WEST, SOUTH), CarAt(4, SOUTH, WEST) >>

CarsOf(lines) == {lines[i] : i \in 1 .. Len(lines)}

ConvoyArrivals == ParseSchedule(Convoy)
ConvoyCars == CarsOf(Convoy)
ThreeWaysArrivals == ParseSchedule(ThreeWays)
ThreeWaysCars == CarsOf(ThreeWays)
=============================================================================
