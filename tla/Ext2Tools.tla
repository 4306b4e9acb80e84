----------------------------- MODULE Ext2Tools -----------------------------
(***************************************************************************)
(* Assignment4: the tools, run one after the other on one image.  A run is *)
(* one step: the tools share nothing but the image and nobody runs two of  *)
(* them at once.                                                           *)
(***************************************************************************)
EXTENDS Ext2Checker, Ext2Paths

CONSTANTS MaxRuns,     \* bound on the runs that change the image
          CorruptBy    \* the corruptor is among the first so many of them

(* UsedDisk needs them: room for two names behind the root's own, two      *)
(* inodes for them, and a file that fills the disk and can hold it all.    *)
ASSUME DiskAssumption ==
  /\ Words >= 13 /\ Cardinality(Inode) >= 3
  /\ Cardinality(Block) \in Direct + 4 .. Direct + Pointers + 3

ASSUME RunsAssumption ==
  {MaxRuns, CorruptBy} \subseteq Nat /\ MaxRuns >= 2 /\ CorruptBy <= MaxRuns

VARIABLES image, status, runs

vars == <<image, status, runs>>

Status == {"whole", "corrupt", "damaged", "undefined"}

RootBlock == Min(Block)

(* after mke2fs, without lost+found *)
EmptyDisk ==
  [inode_bitmap |-> {Root}, block_bitmap |-> {RootBlock},
   sb |-> [free_inodes |-> Cardinality(Inode) - 1, free_blocks |-> Cardinality(Block) - 1],
   gd |-> [free_inodes |-> Cardinality(Inode) - 1, free_blocks |-> Cardinality(Block) - 1,
           used_dirs |-> 1],
   inode |-> [i \in Inode |->
     IF i = Root THEN [mode |-> "dir", links |-> 2, dtime |-> FALSE,
                       direct |-> <<RootBlock>>, indirect |-> 0]
     ELSE [mode |-> "unknown", links |-> 0, dtime |-> FALSE,
           direct |-> <<>>, indirect |-> 0]],
   records |-> [b \in Block |-> IF b # RootBlock THEN <<>> ELSE [w \in 0 .. 5 |->
     CASE w = 0 -> [inode |-> Root, rec_len |-> 3, name |-> ".", type |-> "dir"]
       [] w = 3 -> [inode |-> Root, rec_len |-> Words - 3, name |-> "..", type |-> "dir"]
       [] w \notin {0, 3} -> Rest]],
   pointers |-> [b \in Block |-> <<>>],
   text |-> {}]

(* a disk from which two files were removed, the second of which filled it *)
UsedDisk(m, n) ==
  LET i == Min(FreeInodes(EmptyDisk))
      j == Min(FreeInodes(EmptyDisk) \ {i})
      bs == NextBlocks(EmptyDisk, Cardinality(Block) - 1)
      last == bs[Direct + 2]
      behind == 6 + actual_len(m)
      Header(k, w, name) == [inode |-> k, rec_len |-> Words - w, name |-> name, type |-> "reg"]
      Removed(direct, indirect) == [mode |-> "reg", links |-> 0, dtime |-> TRUE,
                                    direct |-> direct, indirect |-> indirect]
  IN [Enter(Enter(EmptyDisk, Root, <<1, 6>>, Header(i, 6, m)),
            Root, <<1, behind>>, Header(j, behind, n)) EXCEPT
        !.inode[i] = Removed(<<bs[1]>>, 0),
        !.inode[j] = Removed(SubSeq(bs, 2, Direct + 1), last),
        !.pointers[last] = SubSeq(bs, Direct + 3, Len(bs)),
        !.text = ToSet(bs) \ {last}]

Count == runs' = IF image' = image THEN runs ELSE runs + 1

(* What a tool does to the image, and whether it leaves it half done.      *)
Run(outcome) ==
  /\ status = "whole" /\ runs < MaxRuns
  /\ image' = outcome.image
  /\ status' = CASE outcome.exit = "half" -> "damaged"
                 [] outcome.exit = "undefined" -> "undefined"
                 [] outcome.exit \notin {"half", "undefined"} -> "whole"
  /\ Count

(* What paths lead to (Ext2Paths); a path that leads nowhere is refused.    *)
(* A path may end in a dot, too: a directory that a mkdir without space    *)
(* left without its own two takes them as it takes any other name.         *)
Given == Name \cup {".", ".."}

Directories == {i \in image.inode_bitmap : IsDir(image, i)}

Entries == UNION {{RecordAt(image, d, e) : e \in LiveEntries(image, d)} : d \in Directories}

mkdir(img, d, n) ==
  LET i == NextInode(img)
      Used(m) == Ends([m EXCEPT !.gd.used_dirs = @ + 1], "0")
      Self(m) == create_dir_entry(m, i, i, ".", "dir")
      Parent(m) == create_dir_entry(m, i, d, "..", "dir")
  IN Then(Then(Then(create_dir_entry(img, d, 0, n, "dir"), Used), Self), Parent)

Mkdir == \E d \in Directories, n \in Given : Run(mkdir(image, d, n))

(* defect of direct_blocks: one block too many *)
direct_blocks_and_one(bs) == SubSeq(bs, 1, Smaller(Direct + 1, Len(bs)))

direct_blocks(bs) == SubSeq(bs, 1, Smaller(Direct, Len(bs)))

(* Blocks are taken one by one, so the ones there are when the disk is     *)
(* full; what does not fit in the last indirect pointer is dropped.        *)
copy_sourcefile_data(img, i, size) ==
  LET kept == Smaller(size, Direct + Pointers)
      wanted == IF kept > Direct THEN kept + 1 ELSE kept
      bs == NextBlocks(img, Smaller(wanted, Cardinality(FreeBlocks(img))))
      indirect == IF Len(bs) > Direct THEN bs[Direct + 1] ELSE 0
      copied == [allocate_blocks(img, ToSet(bs)) EXCEPT
                   !.inode[i].direct = direct_blocks(bs), !.inode[i].indirect = indirect,
                   !.text = @ \cup (ToSet(bs) \ {indirect})]
  IN Ends(IF indirect = 0 THEN copied
          ELSE [copied EXCEPT !.pointers[indirect] = SubSeq(bs, Direct + 2, Len(bs))],
          IF Len(bs) < wanted THEN "ENOMEM" ELSE "0")

cp(img, d, n, size) ==
  LET i == NextInode(img)
      Copy(m) == copy_sourcefile_data(m, i, size)
  IN Then(create_dir_entry(img, d, 0, n, "reg"), Copy)

Cp == \E d \in Directories, n \in Given, size \in 0 .. Direct + Pointers + 1 :
        Run(cp(image, d, n, size))

(* A link to a symbolic link is typed as a regular file.                   *)
ln(img, source, d, n) ==
  IF source.type = "dir" THEN Ends(img, "EISDIR")
  ELSE create_dir_entry(img, d, source.inode, n, "reg")

Ln == \E source \in Entries, d \in Directories, n \in Given :
        Run(ln(image, source, d, n))

copy_symlink_path(img, i) ==
  LET bs == NextBlocks(img, 1)
  IN IF FreeBlocks(img) = {} THEN Ends(img, "ENOMEM")
     ELSE Ends([allocate_blocks(img, ToSet(bs)) EXCEPT
                  !.inode[i].direct = bs, !.text = @ \cup ToSet(bs)], "0")

ln_s(img, d, n) ==
  LET i == NextInode(img)
      Copy(m) == copy_symlink_path(m, i)
  IN Then(create_dir_entry(img, d, 0, n, "symlink"), Copy)

LnSymbolic == \E d \in Directories, n \in Given : Run(ln_s(image, d, n))

Rm == \E d \in Directories, n \in Given : Run(delete_file_entry(image, d, n))

Restore == \E d \in Directories, n \in Given : Run(restore_file(image, d, n))
-----------------------------------------------------------------------------
(* ext2_corruptor is a program without source: what the checker looks for  *)
Off == {[image EXCEPT !.sb.free_inodes = @ + 1], [image EXCEPT !.sb.free_blocks = @ - 1],
        [image EXCEPT !.gd.free_inodes = @ - 1], [image EXCEPT !.gd.free_blocks = @ + 1]}

Lost == {[image EXCEPT !.inode_bitmap = @ \ {i}] : i \in image.inode_bitmap}
          \cup {[image EXCEPT !.block_bitmap = @ \ {b}] : b \in image.block_bitmap}

Marked == {[image EXCEPT !.inode[i].dtime = TRUE] : i \in image.inode_bitmap}
            \cup {[image EXCEPT !.inode[Root].mode = t] : t \in {"unknown", "reg"}}

Mistyped ==
  {[image EXCEPT !.records[p[1]][p[2]].type = t] : p \in Visited(image), t \in {"reg", "dir"}}

Corrupt ==
  /\ status \in {"whole", "corrupt"} /\ runs < CorruptBy
  /\ image' \in Off \cup Lost \cup Marked \cup Mistyped
  /\ status' = "corrupt"
  /\ Count

Check ==
  /\ status \in {"whole", "corrupt"} /\ runs < MaxRuns
  /\ image' \in {CountsFirst(image), EntriesFirst(image)}
  /\ Count
  /\ UNCHANGED status

(* The tools have been run, or the image is beyond what is modelled.       *)
Done ==
  /\ status \in {"damaged", "undefined"} \/ runs = MaxRuns
  /\ UNCHANGED vars

Next == Mkdir \/ Cp \/ Ln \/ LnSymbolic \/ Rm \/ Restore \/ Corrupt \/ Check \/ Done

Init ==
  /\ \/ image = EmptyDisk /\ runs = 0
     \/ \E m, n \in Name : /\ m # n /\ {m, n} \cap Long # {m, n}
                           /\ image = UsedDisk(m, n) /\ runs = 2
  /\ status = "whole"

Spec == Init /\ [][Next]_vars
=============================================================================
