--------------------------- MODULE Ext2Directory ---------------------------
(***************************************************************************)
(* Assignment4: directory blocks.  A block is a chain of records, each     *)
(* with the distance to the next (rec_len).  Removing a name adds its      *)
(* record to the one before; the header stays in the gap, where restore    *)
(* looks for it.                                                           *)
(*                                                                         *)
(* An outcome is the image a tool leaves and how it ends.  exit keeps what *)
(* was changed before, as the image is mapped shared.                      *)
(***************************************************************************)
EXTENDS Ext2Image

Ends(img, exit) == [image |-> img, exit |-> exit]

Then(outcome, Next(_)) == IF outcome.exit = "0" THEN Next(outcome.image) ELSE outcome
-----------------------------------------------------------------------------
(* The words a walk comes to from w, given the word it goes on to from     *)
(* each; it never leaves one that leads to itself.                         *)
Visits(next, w) ==
  LET from[v \in 0 .. Words] == {v} \cup (IF next[v] = v THEN {} ELSE from[next[v]])
  IN from[w]

(* the records of a block, along rec_len; none is at its end *)
Walk(records) == Visits([w \in 0 .. Words |-> w + WordAt(records, w).rec_len], 0) \ {Words}

(* A place is the position of a block in the directory and a word in it.   *)
Places(img, d) ==
  UNION {{k} \X Walk(img.records[img.inode[d].direct[k]]) : k \in 1 .. Len(img.inode[d].direct)}

First(places) ==
  CHOOSE e \in places : \A o \in places : e[1] < o[1] \/ (e[1] = o[1] /\ e[2] <= o[2])

RecordAt(img, d, e) == WordAt(img.records[img.inode[d].direct[e[1]]], e[2])

LiveEntries(img, d) == {e \in Places(img, d) : RecordAt(img, d, e).inode # 0}

find_entry(img, d, n) == {e \in LiveEntries(img, d) : RecordAt(img, d, e).name = n}
-----------------------------------------------------------------------------
(* defect of Change: the block before is changed when there is one *)
ChangeFirst(img, d, e, record) ==
  [img EXCEPT !.records[img.inode[d].direct[1]][e[2]] = record]

Change(img, d, e, record) ==
  [img EXCEPT !.records[img.inode[d].direct[e[1]]][e[2]] = record]

Enter(img, d, e, record) ==
  LET after == e[2] + 1 .. e[2] + actual_len(record.name) - 1
  IN [img EXCEPT !.records[img.inode[d].direct[e[1]]] =
        [w \in DOMAIN @ \cup {e[2]} \cup after |->
           IF w = e[2] THEN record ELSE IF w \in after THEN Rest ELSE @[w]]]

(* defect of init_dir_entry: the link is not counted *)
init_without_link(img, d, e, link, rec_len, n, type) ==
  IF link = 0 /\ FreeInodes(img) = {} THEN Ends(img, "ENOMEM")
  ELSE LET i == IF link = 0 THEN NextInode(img) ELSE link
           filled == IF link = 0 THEN allocate_inode(img, type) ELSE img
       IN Ends(Enter(filled, d, e, [inode |-> i, rec_len |-> rec_len, name |-> n, type |-> type]),
               "0")

init_dir_entry(img, d, e, link, rec_len, n, type) ==
  IF link = 0 /\ FreeInodes(img) = {} THEN Ends(img, "ENOMEM")
  ELSE LET i == IF link = 0 THEN NextInode(img) ELSE link
           filled == IF link = 0 THEN allocate_inode(img, type) ELSE img
       IN Ends(Enter([filled EXCEPT !.inode[i].links = @ + 1], d, e,
                     [inode |-> i, rec_len |-> rec_len, name |-> n, type |-> type]),
               "0")

(* init_dir_entry on a block that is changed already: its exit leaves the  *)
(* block half done                                                         *)
Half(outcome) == IF outcome.exit = "ENOMEM" THEN [outcome EXCEPT !.exit = "half"] ELSE outcome

(* defect of HasRoom: what the record itself needs is forgotten *)
HasRoomOver(record, n) == actual_len(n) <= record.rec_len

HasRoom(record, n) ==
  actual_len(n) <= IF record.inode = 0 THEN record.rec_len
                   ELSE record.rec_len - actual_len(record.name)

(* in the place of an unused record, or behind a used one that is longer   *)
(* than it needs to be                                                     *)
InsertBeside(img, d, e, link, n, type) ==
  LET record == RecordAt(img, d, e)
      kept == actual_len(record.name)
      shortened == Change(img, d, e, [record EXCEPT !.rec_len = kept])
  IN IF record.inode = 0 THEN init_dir_entry(img, d, e, link, record.rec_len, n, type)
     ELSE Half(init_dir_entry(shortened, d, <<e[1], e[2] + kept>>, link,
                              record.rec_len - kept, n, type))

InsertInNewBlock(img, d, link, n, type) ==
  LET bs == NextBlocks(img, 1)
      longer == [allocate_blocks(img, ToSet(bs)) EXCEPT !.inode[d].direct = @ \o bs]
  IN Half(init_dir_entry(longer, d, <<Len(longer.inode[d].direct), 0>>, link, Words, n, type))

create_dir_entry(img, d, link, n, type) ==
  LET room == {e \in Places(img, d) : HasRoom(RecordAt(img, d, e), n)}
  IN IF find_entry(img, d, n) # {} THEN Ends(img, "EEXIST")
     ELSE IF room # {} THEN InsertBeside(img, d, First(room), link, n, type)
     ELSE IF Len(img.inode[d].direct) = Direct \/ FreeBlocks(img) = {} THEN Ends(img, "ENOMEM")
     ELSE InsertInNewBlock(img, d, link, n, type)
-----------------------------------------------------------------------------
(* delete_file_entry after unlink_inode: the first record of a block loses *)
(* its inode, any other is added to the one before                         *)
Before(img, d, e) ==
  CHOOSE o \in Places(img, d) : o[1] = e[1] /\ o[2] + RecordAt(img, d, o).rec_len = e[2]

Hide(img, d, e) ==
  LET record == RecordAt(img, d, e)
      o == Before(img, d, e)
  IN IF e[2] = 0 THEN Change(img, d, e, [record EXCEPT !.inode = 0])
     ELSE Change(img, d, o, [RecordAt(img, d, o) EXCEPT !.rec_len = @ + record.rec_len])

delete_file_entry(img, d, n) ==
  LET found == find_entry(img, d, n)
      e == First(found)
      record == RecordAt(img, d, e)
  IN IF found = {} THEN Ends(img, "ENOENT")
     ELSE IF record.type = "dir" THEN Ends(img, "EISDIR")
     ELSE IF img.inode[record.inode].links = 0 THEN Ends(img, "1")
     ELSE Ends(Hide(unlink_inode(img, record.inode), d, e), "0")
-----------------------------------------------------------------------------
(* restore_file: the places a search of the gap behind o comes to.  It     *)
(* steps over each header by what that one's name needs, and ends at one   *)
(* that was never written.  Behind a header that replaced others it may    *)
(* come upon the rest of one of those.                                     *)
Gap(img, d, o) ==
  LET records == img.records[img.inode[d].direct[o[1]]]
      end == o[2] + records[o[2]].rec_len
      Inside(w) == w < end /\ w \in DOMAIN records
      next == [w \in 0 .. Words |->
                 IF Inside(w) /\ records[w] # Rest THEN w + actual_len(records[w].name) ELSE w]
  IN {o[1]} \X {w \in Visits(next, o[2] + actual_len(records[o[2]].name)) : Inside(w)}

(* where the search stops: at the header looked for, or where it takes the *)
(* rest of a record for a header                                           *)
Deleted(img, d, n) ==
  {e \in UNION {Gap(img, d, o) : o \in Places(img, d)} :
     \/ RecordAt(img, d, e).inode # 0 /\ RecordAt(img, d, e).name = n
     \/ RecordAt(img, d, e) = Rest}

(* defect of unhide_deleted_entry: the restored record ends after itself *)
unhide_one(img, d, e) ==
  LET o == CHOOSE o \in Places(img, d) : e \in Gap(img, d, o)
      prev == RecordAt(img, d, o)
      unhidden == Change(img, d, e, [RecordAt(img, d, e) EXCEPT !.rec_len =
                                             actual_len(RecordAt(img, d, e).name)])
  IN Change(unhidden, d, o, [prev EXCEPT !.rec_len = e[2] - o[2]])

unhide_deleted_entry(img, d, e) ==
  LET o == CHOOSE o \in Places(img, d) : e \in Gap(img, d, o)
      prev == RecordAt(img, d, o)
      distance == e[2] - o[2]
      unhidden == Change(img, d, e, [RecordAt(img, d, e) EXCEPT !.rec_len = prev.rec_len - distance])
  IN Change(unhidden, d, o, [prev EXCEPT !.rec_len = distance])

(* defect of is_free: only the inode is looked at *)
is_inode_free(img, i) == i \notin img.inode_bitmap

is_inode_and_data_blocks_free(img, i) ==
  i \notin img.inode_bitmap /\ DataBlocks(img, i) \cap img.block_bitmap = {}

reclaim_inode_and_data_blocks(img, i) ==
  set_blocks_in_use(
    [set_inode_in_use(img, i) EXCEPT !.inode[i].links = 1, !.inode[i].dtime = FALSE],
    DataBlocks(img, i))

(* An indirect block that has held the data of another file since is read  *)
(* as if it held pointers: what follows is not defined.                    *)
ReadsText(img, i) ==
  /\ i \notin img.inode_bitmap
  /\ img.inode[i].indirect \in img.text
  /\ (ToSet(img.inode[i].direct) \cup {img.inode[i].indirect}) \cap img.block_bitmap = {}

restore_file(img, d, n) ==
  LET deleted == Deleted(img, d, n)
      e == First(deleted)
      record == RecordAt(img, d, e)
      reclaimed == reclaim_inode_and_data_blocks(img, record.inode)
  IN IF find_entry(img, d, n) # {} THEN Ends(img, "EEXIST")
     ELSE IF deleted = {} THEN Ends(img, "ENOENT")
     ELSE IF record = Rest THEN Ends(img, "undefined")
     ELSE IF record.type = "dir" THEN Ends(img, "EISDIR")
     ELSE IF ReadsText(img, record.inode) THEN Ends(img, "undefined")
     ELSE IF ~is_inode_and_data_blocks_free(img, record.inode) THEN Ends(img, "ENOENT")
     ELSE Ends(unhide_deleted_entry(reclaimed, d, e), "0")
=============================================================================
