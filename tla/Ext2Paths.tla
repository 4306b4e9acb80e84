----------------------------- MODULE Ext2Paths -----------------------------
(***************************************************************************)
(* Assignment4: what the tools make of the paths they are given.  A path   *)
(* is absolute: the names between its slashes, and whether it ends in one. *)
(* Runs of slashes are left out, and the paths that do not begin with one, *)
(* which every tool refuses.                                               *)
(***************************************************************************)
EXTENDS Ext2Directory

Paths(lists) == [names : lists, slash : BOOLEAN]

NoEntry == Blank

Lookup(img, d, n) ==
  LET found == find_entry(img, d, n)
  IN IF found = {} THEN NoEntry ELSE RecordAt(img, d, First(found))

(* The entry that names lead to, through entries of type directory; the    *)
(* root's is its own ".".                                                  *)
Descend(img, names) ==
  LET entry[k \in 0 .. Len(names)] ==
        IF k = 0 THEN Lookup(img, Root, ".")
        ELSE LET by == entry[k - 1]
             IN IF by.type = "dir" THEN Lookup(img, by.inode, names[k]) ELSE NoEntry
  IN entry[Len(names)]

(* The directory that is to contain the last name, 0 if there is none      *)
Container(img, names) ==
  IF names = <<>> THEN Root
  ELSE LET entry == Descend(img, Front(names))
       IN IF entry.type = "dir" THEN entry.inode ELSE 0
-----------------------------------------------------------------------------
(* Where a tool goes on: a directory and a name in it, or an exit.         *)
At(d, n) == [dir |-> d, name |-> n, exit |-> "0"]
Fails(exit) == [dir |-> 0, name |-> "", exit |-> exit]

mkdir_target(img, path) ==
  LET d == Container(img, path.names)
  IN IF path.names = <<>> THEN Fails("EEXIST")
     ELSE IF d = 0 THEN Fails("ENOENT")
     ELSE IF find_entry(img, d, Last(path.names)) # {} THEN Fails("EEXIST")
     ELSE At(d, Last(path.names))

(* ext2_rm looks at the last entry, too *)
rm_target(img, path) ==
  LET d == Container(img, path.names)
  IN IF d = 0 THEN Fails("ENOENT")
     ELSE IF path.names # <<>> /\ find_entry(img, d, Last(path.names)) = {} THEN Fails("ENOENT")
     ELSE IF path.slash THEN Fails("EISDIR")
     ELSE At(d, Last(path.names))

restore_target(img, path) ==
  LET d == Container(img, path.names)
  IN IF d = 0 THEN Fails("ENOENT")
     ELSE IF path.slash THEN Fails("EISDIR")
     ELSE At(d, Last(path.names))

(* defect of create_target: what is left of the path behind a name that is *)
(* not there is not looked at                                              *)
create_anywhere(img, path, own) ==
  LET entry == Descend(img, path.names)
      d == Container(img, path.names)
  IN IF entry.type = "dir" THEN At(entry.inode, own)
     ELSE IF d = 0 THEN Fails("ENOENT")
     ELSE IF entry = NoEntry THEN At(d, Last(path.names))
     ELSE IF path.slash THEN Fails("ENOENT") ELSE Fails("EEXIST")

(* of cp and ln: in a directory that is there, by the source's own name;   *)
(* else by the last name                                                   *)
create_target(img, path, own) ==
  LET entry == Descend(img, path.names)
      d == Container(img, path.names)
  IN IF entry.type = "dir" THEN At(entry.inode, own)
     ELSE IF d = 0 \/ path.slash THEN Fails("ENOENT")
     ELSE IF entry = NoEntry THEN At(d, Last(path.names))
     ELSE Fails("EEXIST")

(* of ln: the source's entry *)
find_dir_entry(img, path) ==
  LET entry == Descend(img, path.names)
  IN IF path.slash /\ entry.type # "dir" THEN NoEntry ELSE entry
=============================================================================
