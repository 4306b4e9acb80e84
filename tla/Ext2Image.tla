----------------------------- MODULE Ext2Image -----------------------------
(***************************************************************************)
(* Assignment4: an ext2 disk image and the operations of ext2_utils.c on   *)
(* its inodes, blocks, bitmaps and free counters.  Each is a function from *)
(* images to images, as each changes the mapped file in place.             *)
(*                                                                         *)
(* Inode and Block are those a tool may allocate, and the root directory's *)
(* own.  Every other bit of the bitmaps is set.                            *)
(***************************************************************************)
EXTENDS Integers, SequencesExt

CONSTANTS Inode, Block,  \* numbers
          Words,         \* EXT2_BLOCK_SIZE / 4: records begin at a multiple of 4
          Direct,        \* 12, direct pointers of an inode
          Pointers,      \* EXT2_BLOCK_SIZE / sizeof(unsigned int)
          Name,          \* of files, at most eight characters long
          Long,          \* the names of five characters and more
          Hidden         \* the names that begin with a dot

Root == 2

ASSUME InodeAssumption == Inode \subseteq Nat \ {0} /\ Root \in Inode /\ IsFiniteSet(Inode)
ASSUME BlockAssumption == Block \subseteq Nat \ {0} /\ Block # {} /\ IsFiniteSet(Block)
ASSUME SizeAssumption == Words \in Nat /\ Words >= 6 /\ {Direct, Pointers} \subseteq Nat \ {0}
ASSUME NameAssumption ==
  {"", ".", "..", "/"} \cap Name = {} /\ Long \subseteq Name /\ Hidden \subseteq Name
-----------------------------------------------------------------------------
Smaller(m, n) == IF m < n THEN m ELSE n

Type == {"unknown", "reg", "dir", "symlink"}
Mode == Type \cup {"socket"}
(* What a word of a directory block is the beginning of: a record, that    *)
(* was perhaps removed, or (name "/") the rest of one.  rec_len counts     *)
(* words.  Of a block, the model holds the words ever written; there are   *)
(* none behind the first that was not.                                     *)
Record == [inode : Inode \cup {0}, rec_len : 0 .. Words, name : Name \cup {"", ".", "..", "/"},
           type : Type]

Blank == [inode |-> 0, rec_len |-> 0, name |-> "", type |-> "unknown"]

Rest == [Blank EXCEPT !.name = "/"]

Written == UNION {[0 .. h - 1 -> Record] : h \in 0 .. Words}

WordAt(records, w) == IF w \in DOMAIN records THEN records[w] ELSE Blank

(* The header of a record takes two words, its name the next one or two.   *)
actual_len(n) == IF n \in Long THEN 4 ELSE 3

InodeRecord == [mode : Mode, links : Nat, dtime : BOOLEAN, direct : Seq(Block),
                indirect : Block \cup {0}]

(* text are the blocks that hold the data of a file: no pointers, no records *)
Image == [inode_bitmap : SUBSET Inode, block_bitmap : SUBSET Block,
          sb : [free_inodes : Int, free_blocks : Int],
          gd : [free_inodes : Int, free_blocks : Int, used_dirs : Int],
          inode : [Inode -> InodeRecord],
          records : [Block -> Written],
          pointers : [Block -> Seq(Block)],
          text : SUBSET Block]
-----------------------------------------------------------------------------
FreeInodes(img) == Inode \ img.inode_bitmap
FreeBlocks(img) == Block \ img.block_bitmap

AddFree(img, inodes, blocks) ==
  [img EXCEPT !.sb.free_inodes = @ + inodes, !.gd.free_inodes = @ + inodes,
              !.sb.free_blocks = @ + blocks, !.gd.free_blocks = @ + blocks]

set_inode_in_use(img, i) ==
  [AddFree(img, -1, 0) EXCEPT !.inode_bitmap = @ \cup {i}]

set_blocks_in_use(img, bs) ==
  [AddFree(img, 0, -Cardinality(bs)) EXCEPT !.block_bitmap = @ \cup bs]

(* defect of free_inode: the superblock is forgotten *)
free_inode_in_group(img, i) ==
  [img EXCEPT !.inode_bitmap = @ \ {i}, !.gd.free_inodes = @ + 1]

free_inode(img, i) == [AddFree(img, 1, 0) EXCEPT !.inode_bitmap = @ \ {i}]

(* allocate_resource finds the first clear bit *)
NextInode(img) == Min(FreeInodes(img))
NextBlocks(img, n) ==
  [k \in 1 .. n |-> CHOOSE b \in FreeBlocks(img) :
                      Cardinality({c \in FreeBlocks(img) : c < b}) = k - 1]

allocate_inode(img, type) ==
  [set_inode_in_use(img, NextInode(img)) EXCEPT !.inode[NextInode(img)] =
     [mode |-> type, links |-> 0, dtime |-> FALSE, direct |-> <<>>, indirect |-> 0]]

allocate_blocks(img, bs) ==
  [set_blocks_in_use(img, bs) EXCEPT
     !.records = [b \in Block |-> IF b \in bs THEN <<>> ELSE @[b]],
     !.pointers = [b \in Block |-> IF b \in bs THEN <<>> ELSE @[b]],
     !.text = @ \ bs]
-----------------------------------------------------------------------------
DataBlocks(img, i) ==
  LET f == img.inode[i]
  IN ToSet(f.direct) \cup
     (IF f.indirect = 0 THEN {} ELSE {f.indirect} \cup ToSet(img.pointers[f.indirect]))

free_data_blocks(img, i) ==
  LET bs == DataBlocks(img, i)
  IN [AddFree(img, 0, Cardinality(bs)) EXCEPT !.block_bitmap = @ \ bs]

(* What was in the inode and its blocks stays there.                       *)
unlink_inode(img, i) ==
  LET unlinked == [img EXCEPT !.inode[i].links = @ - 1]
  IN IF unlinked.inode[i].links > 0 THEN unlinked
     ELSE free_inode(free_data_blocks([unlinked EXCEPT !.inode[i].dtime = TRUE], i), i)
=============================================================================
