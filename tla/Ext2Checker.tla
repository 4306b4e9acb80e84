---------------------------- MODULE Ext2Checker ----------------------------
(***************************************************************************)
(* Assignment4, ext2_checker: the root's mode, the free counters, and then *)
(* every entry that a walk from the root comes to.  The total of repairs   *)
(* it prints is left out.                                                  *)
(***************************************************************************)
EXTENDS Ext2Directory

(* i_mode | EXT2_S_IFDIR gives a directory only from a mode with no type;  *)
(* a regular file's becomes a socket's, and stays that.                    *)
fix_root_mode(img) ==
  [img EXCEPT !.inode[Root].mode = IF @ \in {"unknown", "dir"} THEN "dir" ELSE "socket"]

fix_free_counts(img) ==
  [img EXCEPT !.sb.free_inodes = Cardinality(FreeInodes(img)),
              !.gd.free_inodes = Cardinality(FreeInodes(img)),
              !.sb.free_blocks = Cardinality(FreeBlocks(img)),
              !.gd.free_blocks = Cardinality(FreeBlocks(img))]
-----------------------------------------------------------------------------
(* The comparison with "." looks at one character.                         *)
Children(img, d) ==
  {RecordAt(img, d, e).inode :
     e \in {o \in LiveEntries(img, d) : RecordAt(img, d, o).name \in Name \ Hidden}}

IsDir(img, i) == img.inode[i].mode = "dir"

(* The directories the recursion enters, none by a name that begins with a *)
(* dot.                                                                    *)
Entered(img) ==
  LET to[k \in 0 .. Cardinality(Inode)] ==
        IF k = 0 THEN {i \in {Root} : IsDir(img, i)}
        ELSE to[k - 1] \cup {i \in UNION {Children(img, d) : d \in to[k - 1]} : IsDir(img, i)}
  IN to[Cardinality(Inode)]

(* The words where the records begin it comes to; the first is the root's  *)
(* own "."                                                                 *)
RootRecord(img) == <<img.inode[Root].direct[1], 0>>

Visited(img) ==
  {RootRecord(img)} \cup
  UNION {{<<img.inode[d].direct[e[1]], e[2]>> : e \in LiveEntries(img, d)} : d \in Entered(img)}

Reached(img) == {img.records[p[1]][p[2]].inode : p \in Visited(img)}

(* The loop over an indirect block leaves when it has read the last        *)
(* pointer, and before it looks at it.                                     *)
BlocksSeen(img, i) ==
  LET f == img.inode[i]
  IN IF f.indirect = 0 THEN ToSet(f.direct)
     ELSE ToSet(f.direct) \cup {f.indirect}
          \cup {img.pointers[f.indirect][k] : k \in 1 .. Len(img.pointers[f.indirect]) \ {Pointers}}

dir_entry_file_type(mode) == IF mode \in Type THEN mode ELSE "unknown"

fix_file_types(img) ==
  LET visited == Visited(img)
      Fixed(record) == [record EXCEPT !.type = dir_entry_file_type(img.inode[record.inode].mode)]
  IN [img EXCEPT !.records = [b \in Block |-> [w \in DOMAIN @[b] |->
        IF <<b, w>> \in visited THEN Fixed(@[b][w]) ELSE @[b][w]]]]

fix_inode_allocation(img) ==
  LET lost == Reached(img) \ img.inode_bitmap
  IN [AddFree(img, -Cardinality(lost), 0) EXCEPT !.inode_bitmap = @ \cup lost]

(* defect of fix_deletion_times: only a directory's is looked at *)
fix_directory_times(img) ==
  LET entered == Entered(img)
  IN [img EXCEPT !.inode = [i \in Inode |->
        [img.inode[i] EXCEPT !.dtime = @ /\ i \notin entered]]]

fix_deletion_times(img) ==
  LET reached == Reached(img)
  IN [img EXCEPT !.inode = [i \in Inode |->
        [img.inode[i] EXCEPT !.dtime = @ /\ i \notin reached]]]

fix_block_allocation(img) ==
  set_blocks_in_use(img, (UNION {BlocksSeen(img, i) : i \in Reached(img)}) \ img.block_bitmap)

fix_dir_entries_recursively(img) ==
  fix_block_allocation(fix_deletion_times(fix_inode_allocation(fix_file_types(img))))

(* The calls are operands of one +, in the order the compiler takes.       *)
CountsFirst(img) == fix_dir_entries_recursively(fix_free_counts(fix_root_mode(img)))

EntriesFirst(img) == fix_free_counts(fix_dir_entries_recursively(fix_root_mode(img)))
=============================================================================
