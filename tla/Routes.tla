------------------------------- MODULE Routes -------------------------------
(***************************************************************************)
(* compute_path of Assignment2/cars.c: the list of quadrants a crossing    *)
(* thread locks for a car.  The nested switch statements have no `break'   *)
(* between their cases, so control falls through every later case label    *)
(* and every later assignment overwrites a prefix of the malloc'ed array.  *)
(* The operators below execute that fall-through as the code does.         *)
(***************************************************************************)
EXTENDS Naturals, Sequences

NORTH == "NORTH"
WEST  == "WEST"
SOUTH == "SOUTH"
EAST  == "EAST"

(* enum direction *)
Dir == {NORTH, WEST, SOUTH, EAST}

(* isection.quad[4], numbered as in the diagram of compute_path *)
Quad == 0 .. 3

(* route[0] = w[1]; route[1] = w[2]; ... for the arm of one case label *)
Assign(route, w) == [k \in Quad |-> IF k < Len(w) THEN w[k + 1] ELSE route[k]]

(* One inner switch (out_dir): from the label out_dir on, every arm runs.  *)
FallThrough(route, out_dir, label, arm) ==
  LET r1 == IF out_dir = label[1] THEN Assign(route, arm[1]) ELSE route
      r2 == IF out_dir \in {label[1], label[2]} THEN Assign(r1, arm[2]) ELSE r1
      r3 == IF out_dir # label[4] THEN Assign(r2, arm[3]) ELSE r2
  IN  Assign(r3, arm[4])

(* The case labels of each inner switch, and what each label assigns.      *)
Label(in_dir) ==
  CASE in_dir = NORTH -> <<NORTH, EAST, SOUTH, WEST>>
    [] in_dir = EAST  -> <<EAST, SOUTH, WEST, NORTH>>
    [] in_dir = SOUTH -> <<SOUTH, WEST, NORTH, EAST>>
    [] in_dir = WEST  -> <<WEST, NORTH, EAST, SOUTH>>

Arm(in_dir) ==
  CASE in_dir = NORTH -> << <<0, 1, 2, 3>>, <<1, 2, 3>>, <<1, 2>>, <<1>> >>
    [] in_dir = EAST  -> << <<0, 1, 2, 3>>, <<0, 1, 2>>, <<0, 1>>, <<0>> >>
    [] in_dir = SOUTH -> << <<0, 1, 2, 3>>, <<0, 1, 3>>, <<0, 3>>, <<3>> >>
    [] in_dir = WEST  -> << <<0, 1, 2, 3>>, <<0, 2, 3>>, <<2, 3>>, <<2>> >>

(* ComputePath as its author meant it, with a break after every case: a    *)
(* mutant, which shows what the fall-through hides.                        *)
BreakingPath(in_dir, out_dir, fresh) ==
  Assign(fresh, Arm(in_dir)[CHOOSE i \in 1 .. 4 : Label(in_dir)[i] = out_dir])

(* The outer switch (in_dir) falls through as well: NORTH, EAST, SOUTH,    *)
(* WEST.  `fresh' is the content of the malloc'ed array before any write.  *)
ComputePath(in_dir, out_dir, fresh) ==
  LET Case(d, r) == FallThrough(r, out_dir, Label(d), Arm(d))
      n == IF in_dir = NORTH THEN Case(NORTH, fresh) ELSE fresh
      e == IF in_dir \in {NORTH, EAST} THEN Case(EAST, n) ELSE n
      s == IF in_dir # WEST THEN Case(SOUTH, e) ELSE e
  IN  Case(WEST, s)

(* The quadrants the car drives through: what the arm labelled with the    *)
(* car's own two directions assigns, before anything overwrites it.        *)
Geometry(in_dir, out_dir) ==
  LET i == CHOOSE i \in 1 .. 4 : Label(in_dir)[i] = out_dir
      w == Arm(in_dir)[i]
  IN  {w[j] : j \in 1 .. Len(w)}
=============================================================================
