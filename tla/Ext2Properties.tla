--------------------------- MODULE Ext2Properties ---------------------------
(***************************************************************************)
(* What the tools of Assignment4 must keep of the image.  "whole" is an    *)
(* image that only the tools have changed and that no exit left half done. *)
(***************************************************************************)
EXTENDS Ext2Tools

CONSTANT PathRuns  \* bound on the runs before PathsAgree is looked at

Whole == status = "whole"

UsedDirectories(img) == {i \in img.inode_bitmap : IsDir(img, i)}

(* <<directory, place>> of every live record                               *)
LiveRecords(img) ==
  UNION {{<<d, e>> : e \in LiveEntries(img, d)} : d \in UsedDirectories(img)}

(* <<directory, name, inode>> of every live record                         *)
Links(img) ==
  UNION {{<<d, record.name, record.inode>> :
            record \in {RecordAt(img, d, e) : e \in LiveEntries(img, d)}} :
           d \in UsedDirectories(img)}

Leads(targets) == {at \in targets : at.exit = "0"}

CountersOf(img) ==
  /\ {img.sb.free_inodes, img.gd.free_inodes} = {Cardinality(FreeInodes(img))}
  /\ {img.sb.free_blocks, img.gd.free_blocks} = {Cardinality(FreeBlocks(img))}
-----------------------------------------------------------------------------
(* Every field has its type, and no inode points past its pointers: the    *)
(* indirect block comes after twelve direct ones.                          *)
TypeOK ==
  /\ image.inode_bitmap \subseteq Inode /\ image.block_bitmap \subseteq Block
  /\ image.text \subseteq Block
  /\ image.sb \in [free_inodes : Int, free_blocks : Int]
  /\ image.gd \in [free_inodes : Int, free_blocks : Int, used_dirs : Int]
  /\ image.inode \in [Inode -> InodeRecord]
  /\ \A b \in Block : \E h \in 0 .. Words : image.records[b] \in [0 .. h - 1 -> Record]
  /\ image.pointers \in [Block -> Seq(Block)]
  /\ \A i \in Inode : /\ Len(image.inode[i].direct) <= Direct
                      /\ image.inode[i].indirect # 0 => Len(image.inode[i].direct) = Direct
  /\ \A b \in Block : Len(image.pointers[b]) <= Pointers
  /\ status \in Status /\ runs \in 0 .. MaxRuns

(* The superblock and the group agree with the bitmaps, and the group with *)
(* the number of directories, after any sequence of tools, those included  *)
(* that end with ENOMEM on a full disk.                                    *)
CountersMatch ==
  Whole => CountersOf(image) /\ image.gd.used_dirs = Cardinality(UsedDirectories(image))

(* No block belongs to two files or twice to one, none in use is without a *)
(* file (a leak) and no file has one marked free.                          *)
BlocksOwnedOnce ==
  LET f(i) == image.inode[i]
      Held(i) == f(i).direct \o
                 (IF f(i).indirect = 0 THEN <<>> ELSE <<f(i).indirect>> \o image.pointers[f(i).indirect])
  IN Whole =>
       /\ \A i \in image.inode_bitmap : Len(Held(i)) = Cardinality(DataBlocks(image, i))
       /\ \A i, j \in image.inode_bitmap : i # j => DataBlocks(image, i) \cap DataBlocks(image, j) = {}
       /\ UNION {DataBlocks(image, i) : i \in image.inode_bitmap} = image.block_bitmap

(* i_links_count is the number of records that name the inode, and an inode *)
(* is in use exactly while there is one: no dangling name, no orphan.       *)
LinksCount ==
  LET Records(i) == {r \in LiveRecords(image) : RecordAt(image, r[1], r[2]).inode = i}
  IN Whole =>
       \A i \in Inode : /\ i \in image.inode_bitmap => image.inode[i].links = Cardinality(Records(i))
                        /\ (i \in image.inode_bitmap) = (Records(i) # {})

(* The records of a directory block tile it: a walk along rec_len comes to *)
(* the end of the block, each record is as long as its name needs, and no  *)
(* name is in a directory twice.                                           *)
RecordsTile ==
  Whole =>
    \A d \in UsedDirectories(image) :
      /\ \A k \in 1 .. Len(image.inode[d].direct) :
           LET Entry(w) == WordAt(image.records[image.inode[d].direct[k]], w)
               walk == Walk(image.records[image.inode[d].direct[k]])
           IN /\ MapThenSumSet(LAMBDA w : Entry(w).rec_len, walk) = Words
              /\ \A w \in walk : Entry(w).rec_len >= actual_len(Entry(w).name)
      /\ \A e, o \in LiveEntries(image, d) :
           RecordAt(image, d, e).name = RecordAt(image, d, o).name => e = o

(* Restoring what has just been removed gives back the same image, down to *)
(* the bitmaps and the record lengths, unless the name was one of several  *)
(* of its file or the first record of its block, or the search for it      *)
(* takes the rest of a record for a header.                                *)
RestoreUndoesRemove ==
  \A d \in UsedDirectories(image), n \in Given :
    LET e == First(find_entry(image, d, n))
        record == RecordAt(image, d, e)
        removed == delete_file_entry(image, d, n)
    IN (/\ Whole /\ find_entry(image, d, n) # {} /\ e[2] # 0
        /\ record.type # "dir" /\ image.inode[record.inode].links = 1)
         => restore_file(removed.image, d, n) \in
              {Ends(image, "0"), Ends(removed.image, "undefined")}

(* Every tool takes a path for what its names say from directory to        *)
(* directory, the same in the directory it changes and in the entry it     *)
(* looks for there; cp and ln put a file into a directory that is there,   *)
(* and nobody accepts a slash behind what is no directory.                 *)
PathsAgree ==
  LET links == Links(image)
      Way(names) ==
        LET to[k \in 0 .. Len(names)] ==
              IF k = 0 THEN {Root}
              ELSE {link[3] : link \in {l \in links : l[1] \in to[k - 1] /\ l[2] = names[k]}}
        IN to[Len(names)]
      Asked == Paths(BoundedSeq(Given, 2) \ {<<>>})
      AllAt(dirs, n) == {At(d, n) : d \in dirs}
  IN Whole /\ runs <= PathRuns =>
       \A path \in Asked :
         LET named == Way(path.names)
             dirs == named \cap UsedDirectories(image)
             into == Way(Front(path.names)) \cap UsedDirectories(image)
             last == AllAt(into, Last(path.names))
         IN /\ {find_dir_entry(image, path).inode} \ {0} = IF path.slash THEN dirs ELSE named
            /\ Leads({mkdir_target(image, path)}) = IF named = {} THEN last ELSE {}
            /\ Leads({rm_target(image, path)}) = IF path.slash \/ named = {} THEN {} ELSE last
            /\ Leads({restore_target(image, path)}) = IF path.slash THEN {} ELSE last
            /\ \A own \in Given :
                 Leads({create_target(image, path, own)}) =
                   IF named # {} THEN AllAt(dirs, own) ELSE IF path.slash THEN {} ELSE last

(* The tools implement a tree of all names, the dots included, in which    *)
(* one name of a file comes or goes at a time, or a directory comes with   *)
(* its own dots: no other name appears in a gap of a block or is skipped   *)
(* with it, and no directory comes to be under two names.                  *)
Tree == INSTANCE FileTree WITH tree <- Links(image), dirs <- UsedDirectories(image)

ImplementsFileTree ==
  /\ Tree!Init
  /\ [][image' # image /\ Whole /\ status' = "whole" => Tree!Next]_(Tree!vars)

(* What the checker reaches is consistent after it, whatever was wrong     *)
(* before, and whichever operand of its sum it evaluates first.            *)
Consistent(img) ==
  /\ CountersOf(img)
  /\ IsDir(img, Root) =>
       \A p \in Visited(img) :
         LET record == img.records[p[1]][p[2]]
         IN /\ record.type = dir_entry_file_type(img.inode[record.inode].mode)
            /\ record.inode \in img.inode_bitmap /\ ~img.inode[record.inode].dtime
            /\ BlocksSeen(img, record.inode) \subseteq img.block_bitmap

CheckerRepairs ==
  LET checked == CountsFirst(image)
  IN status \in {"whole", "corrupt"} => Consistent(checked) /\ checked = EntriesFirst(image)

(* ext2_checker.c:263, "Stop recursing if this dir entry is not the root,  *)
(* and refers to itself or its parent": the checker enters every other     *)
(* directory, so after it no name in one is of an inode marked free.       *)
EveryNameChecked ==
  [][Check /\ IsDir(image', Root) =>
       \A link \in Links(image') : link[3] \in image'.inode_bitmap]_vars
=============================================================================
