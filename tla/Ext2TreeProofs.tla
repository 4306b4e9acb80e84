--------------------------- MODULE Ext2TreeProofs ---------------------------
(***************************************************************************)
(* Proofs about the names and the records of the ext2 tools: names are     *)
(* unique, the tools implement FileTree, records tile their blocks, the    *)
(* tools agree on paths, the checker repairs what it can, and a restore    *)
(* undoes the rm before it.                                                *)
(***************************************************************************)
EXTENDS Ext2Proofs

(* No directory has two records of one name.                               *)
UniqueNames(img) == \A t, u \in Named(img) : t[1][1] = u[1][1] /\ t[2] = u[2] => t = u

Link(t) == <<t[1][1], t[2], t[3]>>

LEMMA LinksNamed ==
  ASSUME NEW img
  PROVE  Links(img) = {Link(t) : t \in Named(img)}
  <1>1. ASSUME NEW l \in Links(img) PROVE \E t \in Named(img) : l = Link(t)
    <2>1. PICK d \in UsedDirectories(img) :
            l \in {<<d, record.name, record.inode>> :
                     record \in {RecordAt(img, d, e) : e \in LiveEntries(img, d)}}
      BY DEF Links
    <2>2. PICK record \in {RecordAt(img, d, e) : e \in LiveEntries(img, d)} :
            l = <<d, record.name, record.inode>>
      BY <2>1
    <2>3. PICK e \in LiveEntries(img, d) : record = RecordAt(img, d, e)
      BY <2>2
    <2> DEFINE x == <<d, e>>
    <2>4. x \in LiveRecords(img) /\ Entry(img, x) = record /\ x[1] = d
      BY <2>3 DEF LiveRecords, Entry
    <2> HIDE DEF x
    <2>5. <<x, record.name, record.inode>> \in Named(img)
      BY <2>4 DEF Named
    <2> QED
      BY <2>2, <2>4, <2>5 DEF Link
  <1>2. ASSUME NEW t \in Named(img) PROVE Link(t) \in Links(img)
    <2>1. PICK x \in LiveRecords(img) : t = <<x, Entry(img, x).name, Entry(img, x).inode>>
      BY DEF Named
    <2>2. PICK d \in UsedDirectories(img) : \E e \in LiveEntries(img, d) : x = <<d, e>>
      BY DEF LiveRecords
    <2>3. PICK e \in LiveEntries(img, d) : x = <<d, e>>
      BY <2>2
    <2>4. Entry(img, x) = RecordAt(img, d, e) /\ x[1] = d
      BY <2>3 DEF Entry
    <2>5. Link(t) = <<d, RecordAt(img, d, e).name, RecordAt(img, d, e).inode>>
      BY <2>1, <2>4 DEF Link
    <2> QED
      BY <2>5 DEF Links
  <1> QED
    BY <1>1, <1>2

(* A name is in a directory, and of an inode in use.                       *)
LEMMA NameWithin ==
  ASSUME NEW img, WholeImage(img), NEW t \in Named(img)
  PROVE  /\ t = <<t[1], t[2], t[3]>>
         /\ t[1][1] \in UsedDirectories(img) /\ t[1][1] \in img.inode_bitmap
         /\ t[3] \in img.inode_bitmap
  <1>1. PICK x \in LiveRecords(img) : t = <<x, Entry(img, x).name, Entry(img, x).inode>>
    BY DEF Named
  <1>2. PICK d \in UsedDirectories(img) : \E e \in LiveEntries(img, d) : x = <<d, e>>
    BY DEF LiveRecords
  <1>3. t[1][1] = d
    BY <1>1, <1>2
  <1>4. Entry(img, x).inode \in img.inode_bitmap
    BY LiveNames DEF WholeImage, Sane
  <1> QED
    BY <1>1, <1>2, <1>3, <1>4 DEF UsedDirectories

LEMMA UniqueKept ==
  ASSUME NEW img, WholeImage(img), UniqueNames(img), NEW new, Changes(img, new)
  PROVE  UniqueNames(new)
  <1>1. CASE SameNames(img, new)
    BY <1>1 DEF SameNames, UniqueNames
  <1>2. ASSUME NEW d \in UsedDirectories(img), NEW n \in Given, NEW i, EntersOne(img, new, d, n, i)
        PROVE  UniqueNames(new)
    <2>1. PICK x : x[1] = d /\ Named(new) = Named(img) \cup {<<x, n, i>>}
      BY <1>2 DEF EntersOne, NameAdded
    <2>2. \A t \in Named(img) : ~(t[1][1] = d /\ t[2] = n)
      BY <1>2 DEF EntersOne, Absent
    <2> QED
      BY <2>1, <2>2 DEF UniqueNames
  <1>3. ASSUME NEW d \in UsedDirectories(img), NEW n \in Given, NEW i, RemovesOne(img, new, d, n, i)
        PROVE  UniqueNames(new)
    <2>1. Named(new) \subseteq Named(img)
      BY <1>3 DEF RemovesOne, NameTaken
    <2> QED
      BY <2>1 DEF UniqueNames
  <1>4. ASSUME NEW d \in UsedDirectories(img), NEW n \in Given, NEW i, MakesOne(img, new, d, n, i)
        PROVE  UniqueNames(new)
    <2>1. PICK x, S : /\ x[1] = d /\ OwnNames(S, d, i)
                      /\ Named(new) = Named(img) \cup {<<x, n, i>>} \cup S
      BY <1>4 DEF MakesOne
    <2>2. \A t \in Named(img) : ~(t[1][1] = d /\ t[2] = n) /\ t[1][1] # i
      BY <1>4, NameWithin DEF MakesOne, Absent
    <2>3. d # i
      BY <1>4 DEF MakesOne, UsedDirectories
    <2>4. \A t \in S : t[1][1] = i /\ \A u \in S : t[2] = u[2] => t = u
      BY <2>1 DEF OwnNames
    <2> DEFINE z == <<x, n, i>>
    <2>5. z[1][1] = d /\ z[2] = n
      BY <2>1
    <2> HIDE DEF z
    <2>6. \A t, u \in Named(img) \cup {z} : t[1][1] = u[1][1] /\ t[2] = u[2] => t = u
      BY <2>2, <2>5 DEF UniqueNames
    <2>7. \A t \in Named(img) \cup {z} : t[1][1] # i
      BY <2>2, <2>3, <2>5
    <2>8. Named(new) = (Named(img) \cup {z}) \cup S
      BY <2>1 DEF z
    <2> QED
      BY <2>4, <2>6, <2>7, <2>8 DEF UniqueNames
  <1> QED
    BY <1>1, <1>2, <1>3, <1>4 DEF Changes

UInv == Whole => UniqueNames(image)

LEMMA FirstNames ==
  ASSUME NEW img, OnlyRoot(img)
  PROVE  /\ UniqueNames(img) /\ UsedDirectories(img) = {Root}
  <1>1. PICK p, q : Named(img) = {<<p, ".", Root>>, <<q, "..", Root>>}
    BY OnlyRootWhole
  <1>2. UniqueNames(img)
    BY <1>1 DEF UniqueNames
  <1> QED
    BY <1>2, OnlyRootWhole

LEMMA WholeBefore ==
  ASSUME [Next]_vars, Whole'
  PROVE  Whole
  BY DEF Next, Mkdir, Cp, Ln, LnSymbolic, Rm, Restore, Corrupt, Check, Done, Run, Whole, vars

LEMMA UniqueStep ==
  ASSUME IInv, UInv, [Next]_vars
  PROVE  UInv'
  <1>1. WholeStep
    BY StepKeeps
  <1> QED
    BY <1>1, WholeBefore, UniqueKept DEF UInv, WholeStep, IInv

LEMMA UniqueStart ==
  ASSUME Init
  PROVE  UInv
  BY InitWhole, FirstNames DEF UInv

(* No sequence of tools gives a directory two records of one name, though  *)
(* create_dir_entry, ln and restore_file each look for it by themselves.   *)
THEOREM NamesUnique == Spec => []UInv
  <1>1. Init => UInv
    BY UniqueStart
  <1>2. IInv /\ UInv /\ [Next]_vars => UInv'
    BY UniqueStep
  <1> QED
    BY <1>1, <1>2, Ext2Invariant, PTL DEF Spec
-----------------------------------------------------------------------------
(* One name more, or one less, is so in the tree that an image stands for. *)
LEMMA LinksMore ==
  ASSUME NEW img, NEW new, NEW S, Named(new) = Named(img) \cup S
  PROVE  Links(new) = Links(img) \cup {Link(t) : t \in S}
  BY LinksNamed

LEMMA LinksLess ==
  ASSUME NEW img, UniqueNames(img), NEW new, NEW z \in Named(img), Named(new) = Named(img) \ {z}
  PROVE  Link(z) \in Links(img) /\ Links(new) = Links(img) \ {Link(z)}
  <1>1. \A t \in Named(img) : Link(t) = Link(z) => t = z
    BY DEF Link, UniqueNames
  <1> QED
    BY <1>1, LinksNamed

(* A name that the directory does not have is none of the tree's.          *)
LEMMA LinksAbsent ==
  ASSUME NEW img, NEW d, NEW n, Absent(img, d, n)
  PROVE  \A l \in Links(img) : <<l[1], l[2]>> # <<d, n>>
  <1> TAKE l \in Links(img)
  <1>1. PICK t \in Named(img) : l = Link(t)
    BY LinksNamed
  <1>2. l[1] = t[1][1] /\ l[2] = t[2]
    BY <1>1 DEF Link
  <1> QED
    BY <1>2 DEF Absent

LEMMA TreeStep ==
  ASSUME WholeImage(image), UniqueNames(image), Changes(image, image')
  PROVE  Tree!Next \/ UNCHANGED Tree!vars
  <1> DEFINE tree == Links(image)
             dirs == UsedDirectories(image)
  <1>1. CASE SameNames(image, image')
    <2>1. tree' = tree /\ dirs' = dirs
      BY <1>1, LinksNamed DEF SameNames
    <2> QED
      BY <2>1 DEF Tree!vars
  <1>2. ASSUME NEW d \in dirs, NEW n \in Given, NEW i, EntersOne(image, image', d, n, i)
        PROVE  Tree!Next
    <2> DEFINE entry == <<d, n, i>>
    <2>1. PICK x : x[1] = d /\ Named(image') = Named(image) \cup {<<x, n, i>>}
      BY <1>2 DEF EntersOne, NameAdded
    <2>2. tree' = tree \cup {entry}
      <3>1. {Link(t) : t \in {<<x, n, i>>}} = {entry}
        BY <2>1 DEF Link
      <3> QED
        BY <2>1, <3>1, LinksMore
    <2>3. \A l \in tree : <<l[1], l[2]>> # <<d, n>>
      BY <1>2, LinksAbsent DEF EntersOne
    <2>4. i \notin dirs /\ dirs' = dirs
      BY <1>2 DEF EntersOne
    <2>5. entry[1] = d /\ entry[2] = n /\ entry[3] = i
      OBVIOUS
    <2> HIDE DEF tree, dirs, entry
    <2>6. Tree!Enter(entry)
      BY <1>2, <2>2, <2>3, <2>4, <2>5 DEF Tree!Enter, Tree!Open, tree, dirs
    <2>7. entry \in tree'
      BY <2>2
    <2> QED
      BY <2>6, <2>7 DEF Tree!Next, tree
  <1>3. ASSUME NEW d \in dirs, NEW n \in Given, NEW i, RemovesOne(image, image', d, n, i)
        PROVE  Tree!Next
    <2>1. PICK x : /\ x[1] = d /\ <<x, n, i>> \in Named(image)
                   /\ Named(image') = Named(image) \ {<<x, n, i>>}
      BY <1>3 DEF RemovesOne, NameTaken
    <2> DEFINE z == <<x, n, i>>
               entry == Link(z)
    <2>2. entry[3] = i
      BY DEF Link
    <2> HIDE DEF z
    <2>3. entry \in tree /\ tree' = tree \ {entry}
      BY <2>1, LinksLess DEF z
    <2>4. i \notin dirs /\ dirs' = dirs
      BY <1>3 DEF RemovesOne
    <2> HIDE DEF tree, dirs, entry
    <2>5. Tree!Remove(entry)
      BY <2>2, <2>3, <2>4 DEF Tree!Remove, tree, dirs
    <2> QED
      BY <2>3, <2>5 DEF Tree!Next, tree
  <1>4. ASSUME NEW d \in dirs, NEW n \in Given, NEW i, MakesOne(image, image', d, n, i)
        PROVE  Tree!Next
    <2> DEFINE entry == <<d, n, i>>
    <2>1. PICK x, S : /\ x[1] = d /\ OwnNames(S, d, i)
                      /\ Named(image') = Named(image) \cup {<<x, n, i>>} \cup S
      BY <1>4 DEF MakesOne
    <2> DEFINE own == {Link(t) : t \in S}
    <2>2. tree' = tree \cup {entry} \cup own
      <3> DEFINE z == <<x, n, i>>
      <3>1. Link(z) = entry /\ Named(image') = Named(image) \cup ({z} \cup S)
        BY <2>1 DEF Link
      <3> HIDE DEF z, entry
      <3>2. {Link(t) : t \in {z} \cup S} = {entry} \cup own
        BY <3>1
      <3> HIDE DEF own
      <3> QED
        BY <3>1, <3>2, LinksMore
    <2>3. own \in {{}, Tree!Own(i, d)}
      <3>1. CASE S = {}
        BY <3>1
      <3>2. CASE S # {}
        <4>1. PICK y, z : y[1] = i /\ z[1] = i /\ S = {<<y, ".", i>>, <<z, "..", d>>}
          BY <2>1, <3>2 DEF OwnNames
        <4>2. own = {Link(<<y, ".", i>>), Link(<<z, "..", d>>)}
          BY <4>1
        <4> QED
          BY <4>1, <4>2 DEF Link, Tree!Own
      <3> QED
        BY <3>1, <3>2
    <2>4. \A l \in tree : <<l[1], l[2]>> # <<d, n>>
      BY <1>4, LinksAbsent DEF MakesOne
    <2>5. i \notin image.inode_bitmap /\ i \notin dirs /\ dirs' = dirs \cup {i}
      BY <1>4 DEF MakesOne, UsedDirectories
    <2>6. \A l \in tree : l[3] # i
      <3> TAKE l \in tree
      <3>1. PICK t \in Named(image) : l = Link(t)
        BY LinksNamed
      <3>2. l[3] = t[3] /\ t[3] \in image.inode_bitmap
        BY <3>1, NameWithin DEF Link
      <3> QED
        BY <2>5, <3>2
    <2>7. entry[1] = d /\ entry[2] = n /\ entry[3] = i
      OBVIOUS
    <2> HIDE DEF tree, dirs, entry, own
    <2>8. Tree!New(i) /\ Tree!Open(entry)
      BY <1>4, <2>4, <2>5, <2>6, <2>7 DEF Tree!New, Tree!Open, tree, dirs
    <2>9. Tree!MakeDir(entry)
      BY <2>2, <2>3, <2>5, <2>7, <2>8 DEF Tree!MakeDir, tree, dirs
    <2>10. entry \in tree'
      BY <2>2
    <2> QED
      BY <2>9, <2>10 DEF Tree!Next, tree
  <1> QED
    BY <1>1, <1>2, <1>3, <1>4 DEF Changes

LEMMA TreeStart ==
  ASSUME Init
  PROVE  Tree!Init
  <1>1. OnlyRoot(image) /\ UsedDirectories(image) = {Root}
    BY InitWhole, FirstNames
  <1>2. PICK p, q : Named(image) = {<<p, ".", Root>>, <<q, "..", Root>>}
    BY <1>1, OnlyRootWhole
  <1>3. \A t \in Named(image) : t[1][1] = Root
    BY <1>1, OnlyRootWhole, NameWithin
  <1>4. p[1] = Root /\ q[1] = Root
    BY <1>2, <1>3
  <1>5. Links(image) = {Link(<<p, ".", Root>>), Link(<<q, "..", Root>>)}
    BY <1>2, LinksNamed
  <1>6. Links(image) = Tree!Own(Root, Root)
    BY <1>4, <1>5 DEF Link, Tree!Own
  <1> QED
    BY <1>1, <1>6 DEF Tree!Init

(* The tools implement a tree of all names in which one name of a file     *)
(* comes or goes at a time, or a directory comes with its own dots:        *)
(* whatever is split, joined or restored in the blocks of a directory, no  *)
(* other name appears, is lost, or leads to another file.                  *)
THEOREM FileTreeImplemented == Spec => ImplementsFileTree
  <1>1. Init => Tree!Init
    BY TreeStart
  <1>2. IInv /\ UInv /\ [Next]_vars =>
          [image' # image /\ Whole /\ status' = "whole" => Tree!Next]_(Tree!vars)
    <2> SUFFICES ASSUME IInv, UInv, [Next]_vars, Whole, Whole'
                 PROVE  Tree!Next \/ UNCHANGED Tree!vars
      BY DEF Whole
    <2>1. Changes(image, image')
      BY StepKeeps DEF WholeStep
    <2> QED
      BY <2>1, TreeStep DEF IInv, UInv
  <1> QED
    BY <1>1, <1>2, Ext2Invariant, NamesUnique, PTL DEF Spec, ImplementsFileTree
-----------------------------------------------------------------------------
(* The sum of the lengths of records is the number of words they cover.    *)
Chosen(s) == CHOOSE w \in s : TRUE

LengthFrom(r, C, f) ==
  [s \in SUBSET C |-> IF s = {} THEN 0 ELSE WordAt(r, Chosen(s)).rec_len + f[s \ {Chosen(s)}]]

LengthOf(r, C) == MapThenSumSet(LAMBDA w : WordAt(r, w).rec_len, C)

LEMMA LengthUnfolds ==
  ASSUME NEW r, NEW C
  PROVE  LengthOf(r, C) = (CHOOSE f : f = LengthFrom(r, C, f))[C]
  BY DEF LengthOf, MapThenSumSet, MapThenFoldSet, LengthFrom, Chosen

(* the words of the records at S *)
Covered(r, S) == {v \in 0 .. Words - 1 : \E w \in S : w <= v /\ v < w + r[w].rec_len}

LEMMA ChainSteps ==
  ASSUME NEW r, DirBlock(r), NEW w \in Walk(r)
  PROVE  /\ w \in 0 .. Words - 1 /\ w \in DOMAIN r /\ WordAt(r, w) = r[w]
         /\ r[w].rec_len \in Nat /\ r[w].rec_len >= actual_len(r[w].name) /\ r[w].rec_len > 0
         /\ w + r[w].rec_len <= Words
  <1>1. w \in 0 .. Words - 1 /\ BlockOK(r) /\ Chain(r, Walk(r))
    BY WalkWithin DEF DirBlock
  <1>2. w \in DOMAIN r /\ Behind(r, w) <= w + r[w].rec_len
    BY <1>1 DEF Chain, Header
  <1>3. r[w] \in Record /\ w + r[w].rec_len <= Words
    BY <1>1, <1>2, BlockDomain DEF BlockOK
  <1>4. r[w].rec_len \in 0 .. Words
    BY <1>3, RecordIs, Zenon
  <1>5. r[w].rec_len \in Nat /\ w \in Int
    BY <1>1, <1>4, WordsNat
  <1>6. WordAt(r, w) = r[w]
    BY <1>2 DEF WordAt
  <1>7. actual_len(r[w].name) \in 3 .. 4 /\ Behind(r, w) = w + actual_len(r[w].name)
    BY LengthIs DEF Behind
  <1> QED
    BY <1>1, <1>2, <1>3, <1>5, <1>6, <1>7

(* a record more covers as many words more as it is long *)
LEMMA CoveredMore ==
  ASSUME NEW r, DirBlock(r), NEW S \in SUBSET Walk(r), NEW w \in S
  PROVE  /\ Cardinality(Covered(r, S)) = r[w].rec_len + Cardinality(Covered(r, S \ {w}))
         /\ Cardinality(Covered(r, S)) \in Nat
  <1> DEFINE T == S \ {w}
             own == w .. w + r[w].rec_len - 1
  <1>1. \A v \in Walk(r) : v \in 0 .. Words - 1 /\ r[v].rec_len \in Nat /\ v + r[v].rec_len <= Words
    BY ChainSteps
  <1>2. \A u, v \in Walk(r) : u < v => u + r[u].rec_len <= v
    BY DEF DirBlock, Chain
  <1>3. w \in Walk(r) /\ w \in 0 .. Words - 1 /\ r[w].rec_len \in Nat /\ w + r[w].rec_len <= Words
    BY <1>1
  <1>4. Covered(r, S) = own \cup Covered(r, T)
    <2>1. \A v \in own : v \in 0 .. Words - 1 /\ w <= v /\ v < w + r[w].rec_len
      BY <1>3, WordsNat
    <2>2. \A v \in 0 .. Words - 1 : w <= v /\ v < w + r[w].rec_len => v \in own
      BY <1>3, WordsNat
    <2> HIDE DEF own
    <2> QED
      BY <2>1, <2>2 DEF Covered
  <1>5. own \cap Covered(r, T) = {}
    <2> SUFFICES ASSUME NEW v \in own, NEW u \in T, v \in 0 .. Words - 1, u <= v, v < u + r[u].rec_len
                 PROVE  FALSE
      BY DEF Covered
    <2>1. u \in Walk(r) /\ u # w /\ u \in Int /\ w \in Int /\ v \in Int /\ r[u].rec_len \in Nat
      BY <1>1, <1>3, WordsNat
    <2>2. w <= v /\ v < w + r[w].rec_len
      BY <1>3, WordsNat
    <2>3. u < w \/ w < u
      BY <2>1
    <2>4. u + r[u].rec_len <= w \/ w + r[w].rec_len <= u
      BY <1>2, <1>3, <2>1, <2>3
    <2> HIDE DEF own
    <2> QED
      BY <1>3, <2>1, <2>2, <2>4
  <1>6. IsFiniteSet(own) /\ Cardinality(own) = r[w].rec_len
    <2>1. w \in Int /\ w + r[w].rec_len - 1 \in Int
      BY <1>3, WordsNat
    <2>2. IsFiniteSet(own) /\ Cardinality(own) =
            IF w > w + r[w].rec_len - 1 THEN 0 ELSE (w + r[w].rec_len - 1) - w + 1
      BY <2>1, FS_Interval
    <2> HIDE DEF own
    <2> QED
      BY <1>3, <2>1, <2>2
  <1>7. IsFiniteSet(Covered(r, T))
    <2>1. IsFiniteSet(0 .. Words - 1)
      BY FS_Interval, WordsNat
    <2>2. Covered(r, T) \in SUBSET (0 .. Words - 1)
      BY DEF Covered
    <2> QED
      BY <2>1, <2>2, FS_Subset
  <1> HIDE DEF own
  <1>8. Cardinality(own \cup Covered(r, T)) = Cardinality(own) + Cardinality(Covered(r, T)) - 0
    <2>1. Cardinality(own \cup Covered(r, T)) =
            Cardinality(own) + Cardinality(Covered(r, T)) - Cardinality(own \cap Covered(r, T))
      BY <1>6, <1>7, FS_Union
    <2>2. Cardinality(own \cap Covered(r, T)) = 0
      BY <1>5, FS_EmptySet
    <2> QED
      BY <2>1, <2>2
  <1>9. Cardinality(Covered(r, T)) \in Nat
    BY <1>7, FS_CardinalityType
  <1>10. Cardinality(Covered(r, S)) = Cardinality(own) + Cardinality(Covered(r, T)) - 0
    BY <1>4, <1>8
  <1>11. r[w].rec_len \in Nat
    BY <1>3
  <1> QED
    BY <1>6, <1>9, <1>10, <1>11

LEMMA LengthCovers ==
  ASSUME NEW r, DirBlock(r)
  PROVE  LengthOf(r, Walk(r)) = Cardinality(Covered(r, Walk(r)))
  <1> DEFINE C == Walk(r)
             covers == [s \in SUBSET C |-> Cardinality(Covered(r, s))]
             length == CHOOSE f : f = LengthFrom(r, C, f)
  <1>1. ASSUME NEW s \in SUBSET C, s # {}
        PROVE  /\ Chosen(s) \in s /\ s \ {Chosen(s)} \in SUBSET C
               /\ Cardinality(Covered(r, s)) =
                    WordAt(r, Chosen(s)).rec_len + Cardinality(Covered(r, s \ {Chosen(s)}))
    <2>1. Chosen(s) \in s
      BY <1>1 DEF Chosen
    <2>2. WordAt(r, Chosen(s)) = r[Chosen(s)]
      BY <2>1, ChainSteps
    <2> QED
      BY <2>1, <2>2, CoveredMore
  <1>2. Cardinality(Covered(r, {})) = 0
    <2>1. Covered(r, {}) = {}
      BY DEF Covered
    <2> QED
      BY <2>1, FS_EmptySet
  <1> HIDE DEF C
  <1>3. covers = LengthFrom(r, C, covers)
    <2>1. \A s \in SUBSET C :
            covers[s] = IF s = {} THEN 0 ELSE WordAt(r, Chosen(s)).rec_len + covers[s \ {Chosen(s)}]
      BY <1>1, <1>2
    <2>2. covers = [s \in SUBSET C |-> covers[s]]
      OBVIOUS
    <2> HIDE DEF covers
    <2> QED
      BY <2>1, <2>2 DEF LengthFrom
  <1>4. length = LengthFrom(r, C, length)
    <2> HIDE DEF covers
    <2> QED
      BY <1>3
  <1> HIDE DEF length
  <1>5. \A s \in SUBSET C :
          length[s] = IF s = {} THEN 0 ELSE WordAt(r, Chosen(s)).rec_len + length[s \ {Chosen(s)}]
    <2>1. length = [s \in SUBSET C |->
                      IF s = {} THEN 0 ELSE WordAt(r, Chosen(s)).rec_len + length[s \ {Chosen(s)}]]
      BY <1>4 DEF LengthFrom
    <2> QED
      BY <2>1
  <1>6. \A s \in SUBSET C : IsFiniteSet(s) /\ Cardinality(s) \in Nat
    <2>1. C \in SUBSET (0 .. Words - 1)
      BY WalkWithin DEF C, DirBlock
    <2>2. IsFiniteSet(0 .. Words - 1)
      BY FS_Interval, WordsNat
    <2> QED
      BY <2>1, <2>2, FS_Subset, FS_CardinalityType
  <1> DEFINE Lack == {s \in SUBSET C : length[s] # Cardinality(Covered(r, s))}
             Sizes == {Cardinality(s) : s \in Lack}
  <1>7. ASSUME Lack # {} PROVE FALSE
    <2>1. Sizes # {} /\ Sizes \subseteq Nat
      BY <1>6, <1>7
    <2>2. PICK m \in Sizes : \A n \in Sizes : m <= n
      <3> HIDE DEF Sizes
      <3> QED
        BY <2>1, Smallest
    <2>3. PICK s \in Lack : Cardinality(s) = m
      OBVIOUS
    <2>4. s \in SUBSET C /\ length[s] # Cardinality(Covered(r, s))
      OBVIOUS
    <2>5. s # {}
      BY <1>2, <1>5, <2>4
    <2> DEFINE t == s \ {Chosen(s)}
    <2>6. t \in SUBSET C /\ length[s] = WordAt(r, Chosen(s)).rec_len + length[t]
      BY <1>1, <1>5, <2>4, <2>5
    <2>7. t \in Lack
      BY <1>1, <2>4, <2>5, <2>6
    <2>8. Cardinality(t) = Cardinality(s) - 1
      BY <1>1, <1>6, <2>4, <2>5, FS_RemoveElement
    <2>9. Cardinality(t) \in Sizes
      BY <2>7
    <2>10. Cardinality(t) \in Nat /\ Cardinality(s) \in Nat
      BY <1>6, <2>4, <2>6
    <2> HIDE DEF Sizes, Lack, t
    <2> QED
      BY <2>2, <2>3, <2>8, <2>9, <2>10
  <1>8. length[C] = Cardinality(Covered(r, C))
    BY <1>7
  <1> QED
    BY <1>8, LengthUnfolds DEF length, C

LEMMA AllCovered ==
  ASSUME NEW r, DirBlock(r)
  PROVE  Covered(r, Walk(r)) = 0 .. Words - 1
  <1> SUFFICES ASSUME NEW v \in 0 .. Words - 1
               PROVE  \E w \in Walk(r) : w <= v /\ v < w + r[w].rec_len
    BY DEF Covered
  <1> DEFINE Low == {w \in Walk(r) : w <= v}
  <1>1. 0 \in Walk(r) /\ \A w \in Walk(r) : w + r[w].rec_len \in Walk(r) \cup {Words}
    BY DEF DirBlock, Chain
  <1>2. Low # {} /\ Low \subseteq 0 .. Words
    <2>1. \A w \in Walk(r) : w \in 0 .. Words
      BY ChainSteps, WordsNat
    <2> QED
      BY <1>1, <2>1, WordsNat
  <1>3. PICK w \in Low : \A u \in Low : u <= w
    <2> HIDE DEF Low
    <2> QED
      BY <1>2, Largest
  <1>4. w \in Walk(r) /\ w <= v /\ w \in Int /\ r[w].rec_len \in Nat /\ r[w].rec_len > 0 /\ v < Words /\ v \in Int
    BY ChainSteps, WordsNat
  <1>5. ASSUME w + r[w].rec_len <= v PROVE FALSE
    <2>1. w + r[w].rec_len # Words
      BY <1>4, <1>5, WordsNat
    <2>2. w + r[w].rec_len \in Low
      BY <1>1, <1>4, <1>5, <2>1
    <2> HIDE DEF Low
    <2> QED
      BY <1>3, <1>4, <2>2
  <1> QED
    BY <1>4, <1>5

LEMMA TilesBlock ==
  ASSUME NEW r, DirBlock(r)
  PROVE  /\ MapThenSumSet(LAMBDA w : WordAt(r, w).rec_len, Walk(r)) = Words
         /\ \A w \in Walk(r) : WordAt(r, w).rec_len >= actual_len(WordAt(r, w).name)
  <1>1. Cardinality(0 .. Words - 1) = Words
    <2>1. Words - 1 \in Int /\ Words \in Nat
      BY WordsNat
    <2>2. Cardinality(0 .. Words - 1) = IF 0 > Words - 1 THEN 0 ELSE (Words - 1) - 0 + 1
      BY <2>1, FS_Interval
    <2> QED
      BY <2>1, <2>2
  <1>2. LengthOf(r, Walk(r)) = Words
    BY <1>1, LengthCovers, AllCovered
  <1> QED
    BY <1>2, ChainSteps DEF LengthOf

LEMMA OneRecord ==
  ASSUME NEW img, Typed(img), UniqueNames(img), NEW d \in UsedDirectories(img),
         NEW e \in LiveEntries(img, d), NEW o \in LiveEntries(img, d),
         RecordAt(img, d, e).name = RecordAt(img, d, o).name
  PROVE  e = o
  <1> DEFINE x == <<d, e>>
             y == <<d, o>>
  <1>1. x \in LiveRecords(img) /\ y \in LiveRecords(img)
    BY DEF LiveRecords
  <1>2. Entry(img, x) = RecordAt(img, d, e) /\ Entry(img, y) = RecordAt(img, d, o) /\ x[1] = d /\ y[1] = d
    BY DEF Entry
  <1>3. x = y => e = o
    OBVIOUS
  <1> HIDE DEF x, y
  <1> DEFINE t == <<x, Entry(img, x).name, Entry(img, x).inode>>
             u == <<y, Entry(img, y).name, Entry(img, y).inode>>
  <1>4. t \in Named(img) /\ u \in Named(img)
    BY <1>1 DEF Named
  <1>5. t[1][1] = u[1][1] /\ t[2] = u[2] /\ t[1] = x /\ u[1] = y
    BY <1>2
  <1> HIDE DEF t, u
  <1>6. t = u
    BY <1>4, <1>5 DEF UniqueNames
  <1> QED
    BY <1>3, <1>5, <1>6

LEMMA TilesAre ==
  ASSUME IInv, UInv
  PROVE  RecordsTile
  <1> SUFFICES ASSUME Whole PROVE RecordsTile
    BY DEF RecordsTile
  <1>1. Typed(image) /\ DirsOK(image) /\ UniqueNames(image)
    BY DEF IInv, UInv, WholeImage, Sane
  <1>2. ASSUME NEW d \in UsedDirectories(image), NEW k \in 1 .. Len(image.inode[d].direct)
        PROVE  DirBlock(image.records[image.inode[d].direct[k]])
    <2> DEFINE s == <<d, k>>
    <2>1. Len(image.inode[d].direct) \in Nat
      BY <1>1, TypedIs, InodeIs
    <2>2. s \in Slots(image)
      BY <2>1 DEF Slots
    <2> QED
      BY <1>1, <2>2 DEF DirsOK, Content
  <1>3. ASSUME NEW d \in UsedDirectories(image)
        PROVE  \A e, o \in LiveEntries(image, d) :
                 RecordAt(image, d, e).name = RecordAt(image, d, o).name => e = o
    BY <1>1, OneRecord
  <1> QED
    BY <1>2, <1>3, TilesBlock DEF RecordsTile

(* The records of a directory block cover each of its words once, each is  *)
(* as long as its name needs, and no name is in a directory twice.         *)
THEOREM RecordsTileCorrect == Spec => []RecordsTile
  BY Ext2Invariant, NamesUnique, TilesAre, PTL
-----------------------------------------------------------------------------
(* Paths.  A property of numbers that each hands on to the next.           *)
LEMMA UpTo ==
  ASSUME NEW n \in Nat, NEW G, G \subseteq 0 .. n, 0 \in G,
         \A k \in 1 .. n : k - 1 \in G => k \in G
  PROVE  G = 0 .. n
  <1> DEFINE Lack == (0 .. n) \ G
  <1> SUFFICES ASSUME Lack # {} PROVE FALSE
    OBVIOUS
  <1>1. Lack \subseteq Nat
    OBVIOUS
  <1>2. PICK k \in Lack : \A l \in Lack : k <= l
    <2> HIDE DEF Lack
    <2> QED
      BY <1>1, Smallest
  <1>3. k \in 1 .. n /\ k - 1 \in 0 .. n
    OBVIOUS
  <1>4. k - 1 \in G
    <2>1. k - 1 \notin Lack
      <3> HIDE DEF Lack
      <3> QED
        BY <1>2, <1>3
    <2> QED
      BY <1>3, <2>1
  <1> QED
    BY <1>3, <1>4

(* A function on the numbers up to n may be given by its first value and   *)
(* each next one.                                                          *)
Recurs(n, a, F, f) == f = [k \in 0 .. n |-> IF k = 0 THEN a ELSE F[k][f[k - 1]]]

Closed(n, S, F) == \A k \in 1 .. n : \A s \in S : F[k][s] \in S

LEMMA ByRecursion ==
  ASSUME NEW n \in Nat, NEW S, NEW a \in S, NEW F, Closed(n, S, F)
  PROVE  \E f : Recurs(n, a, F, f) /\ \A k \in 0 .. n : f[k] \in S
  <1> DEFINE Good(m, f) == /\ f = [k \in 0 .. m |-> IF k = 0 THEN a ELSE F[k][f[k - 1]]]
                           /\ \A k \in 0 .. m : f[k] \in S
             G == {m \in 0 .. n : \E f : Good(m, f)}
  <1>1. 0 \in G
    <2> DEFINE f == [k \in 0 .. 0 |-> a]
    <2>1. Good(0, f)
      OBVIOUS
    <2> HIDE DEF Good, f
    <2> QED
      BY <2>1
  <1>2. ASSUME NEW m \in 1 .. n, m - 1 \in G PROVE m \in G
    <2>1. PICK g : Good(m - 1, g)
      BY <1>2
    <2> DEFINE f == [k \in 0 .. m |-> IF k = m THEN F[m][g[m - 1]] ELSE g[k]]
    <2>2. \A k \in 0 .. m - 1 : f[k] = g[k] /\ g[k] \in S
      BY <2>1
    <2>3. f[m] = F[m][f[m - 1]] /\ f[m] \in S
      <3>1. m - 1 \in 0 .. m - 1 /\ m \in 0 .. m
        OBVIOUS
      <3>2. f[m] = F[m][g[m - 1]]
        BY <3>1
      <3> HIDE DEF f
      <3> QED
        BY <2>2, <3>1, <3>2 DEF Closed
    <2>4. \A k \in 0 .. m - 1 : f[k] = IF k = 0 THEN a ELSE F[k][f[k - 1]]
      <3> TAKE k \in 0 .. m - 1
      <3>1. g[k] = IF k = 0 THEN a ELSE F[k][g[k - 1]]
        BY <2>1
      <3>2. k # 0 => k - 1 \in 0 .. m - 1
        OBVIOUS
      <3> HIDE DEF f
      <3> QED
        BY <2>2, <3>1, <3>2
    <2>5. f = [k \in 0 .. m |-> f[k]]
      OBVIOUS
    <2> HIDE DEF f
    <2>6. \A k \in 0 .. m : f[k] = (IF k = 0 THEN a ELSE F[k][f[k - 1]]) /\ f[k] \in S
      <3> TAKE k \in 0 .. m
      <3>1. k = m \/ k \in 0 .. m - 1
        OBVIOUS
      <3> QED
        BY <2>2, <2>3, <2>4, <3>1
    <2>7. Good(m, f)
      BY <2>5, <2>6
    <2> HIDE DEF Good
    <2> QED
      BY <2>7
  <1>3. G \subseteq 0 .. n
    OBVIOUS
  <1> HIDE DEF G
  <1>4. n \in G
    <2>1. G = 0 .. n
      BY <1>1, <1>2, <1>3, UpTo
    <2> QED
      BY <2>1
  <1> QED
    BY <1>4 DEF G, Recurs

(* The entries that a path may come to, and what Ways says of them.        *)
Found(img) == {NoEntry} \cup {Entry(img, x) : x \in LiveRecords(img)}

Target(by) == IF by = NoEntry THEN {} ELSE {by.inode}

Onto(img, by, n) == IF by.type = "dir" THEN Lookup(img, by.inode, n) ELSE NoEntry

FromTo(img, T, n) == {link[3] : link \in {l \in Links(img) : l[1] \in T /\ l[2] = n}}

Ways(img, names) ==
  LET links == Links(img)
      to[k \in 0 .. Len(names)] ==
        IF k = 0 THEN {Root}
        ELSE {link[3] : link \in {l \in links : l[1] \in to[k - 1] /\ l[2] = names[k]}}
  IN to[Len(names)]

(* the root's own name, which is where every path begins *)
Dotted(img) == \E p : p[1] = Root /\ <<p, ".", Root>> \in Named(img)

LEMMA FoundFits ==
  ASSUME NEW img, WholeImage(img), NEW by \in Found(img)
  PROVE  /\ by = NoEntry <=> by.inode = 0
         /\ by.type = "dir" <=> by.inode \in UsedDirectories(img)
         /\ by # NoEntry => by.inode \in img.inode_bitmap
  <1>1. Typed(img) /\ NamesOK(img)
    BY DEF WholeImage, Sane
  <1>2. 0 \notin Inode /\ img.inode_bitmap \subseteq Inode
    BY <1>1, TypedIs, NumbersFinite
  <1>3. NoEntry.inode = 0 /\ NoEntry.type = "unknown"
    BY DEF NoEntry, Blank
  <1>4. CASE by = NoEntry
    BY <1>2, <1>3, <1>4 DEF UsedDirectories
  <1>5. CASE by # NoEntry
    <2>1. PICK x \in LiveRecords(img) : by = Entry(img, x)
      BY <1>5 DEF Found
    <2>2. by.inode \in img.inode_bitmap /\ (by.type = "dir" <=> IsDir(img, by.inode))
      BY <1>1, <2>1, LiveNames
    <2> QED
      BY <1>2, <1>5, <2>2 DEF UsedDirectories
  <1> QED
    BY <1>4, <1>5

LEMMA LookupIs ==
  ASSUME NEW img, WholeImage(img), UniqueNames(img), NEW d \in UsedDirectories(img), NEW n
  PROVE  /\ Lookup(img, d, n) \in Found(img) /\ FromTo(img, {d}, n) = Target(Lookup(img, d, n))
         /\ Lookup(img, d, n) = NoEntry <=> find_entry(img, d, n) = {}
         /\ \A t \in Named(img) : t[1][1] = d /\ t[2] = n => Target(Lookup(img, d, n)) = {t[3]}
  <1> DEFINE e == First(find_entry(img, d, n))
             x == <<d, e>>
  <1>1. Typed(img)
    BY DEF WholeImage
  <1>2. \A l \in Links(img) : \E t \in Named(img) : l = Link(t) /\ l[1] = t[1][1] /\ l[2] = t[2] /\ l[3] = t[3]
    BY LinksNamed DEF Link
  <1>3. CASE find_entry(img, d, n) = {}
    <2>1. Lookup(img, d, n) = NoEntry
      BY <1>3 DEF Lookup
    <2>2. \A t \in Named(img) : ~(t[1][1] = d /\ t[2] = n)
      BY <1>3, AbsentIs DEF Absent
    <2>3. FromTo(img, {d}, n) = {}
      BY <1>2, <2>2 DEF FromTo
    <2> QED
      BY <1>3, <2>1, <2>2, <2>3 DEF Found, Target
  <1>4. CASE find_entry(img, d, n) # {}
    <2>1. Lookup(img, d, n) = RecordAt(img, d, e)
      BY <1>4 DEF Lookup
    <2>2. e \in LiveEntries(img, d) /\ RecordAt(img, d, e).name = n
      BY <1>1, <1>4, FoundIs
    <2>3. x \in LiveRecords(img) /\ Entry(img, x) = RecordAt(img, d, e) /\ x[1] = d
      BY <2>2 DEF LiveRecords, Entry
    <2> HIDE DEF x, e
    <2>4. Lookup(img, d, n) = Entry(img, x) /\ Entry(img, x).name = n /\ Lookup(img, d, n) \in Found(img)
      BY <2>1, <2>2, <2>3 DEF Found
    <2> DEFINE u == <<x, Entry(img, x).name, Entry(img, x).inode>>
    <2>5. u \in Named(img) /\ u[1][1] = d /\ u[2] = n /\ u[3] = Lookup(img, d, n).inode
      BY <2>3, <2>4 DEF Named
    <2> HIDE DEF u
    <2>6. Lookup(img, d, n) # NoEntry
      <3>1. u[3] \in img.inode_bitmap
        BY <2>5, NameWithin
      <3>2. u[3] # 0
        BY <1>1, <3>1, TypedIs, NumbersFinite
      <3> QED
        BY <2>4, <2>5, <3>2, FoundFits
    <2>7. \A t \in Named(img) : t[1][1] = d /\ t[2] = n => t = u
      BY <2>5 DEF UniqueNames
    <2>8. FromTo(img, {d}, n) = {u[3]}
      <3>1. Link(u) \in Links(img) /\ Link(u)[1] = d /\ Link(u)[2] = n /\ Link(u)[3] = u[3]
        BY <2>5, LinksNamed DEF Link
      <3>2. \A l \in Links(img) : l[1] = d /\ l[2] = n => l[3] = u[3]
        BY <1>2, <2>7
      <3> QED
        BY <3>1, <3>2 DEF FromTo
    <2> QED
      BY <1>4, <2>4, <2>5, <2>6, <2>7, <2>8 DEF Target
  <1> QED
    BY <1>3, <1>4

LEMMA OntoIs ==
  ASSUME NEW img, WholeImage(img), UniqueNames(img), NEW by \in Found(img), NEW n
  PROVE  /\ Onto(img, by, n) \in Found(img)
         /\ FromTo(img, Target(by), n) = Target(Onto(img, by, n))
  <1>1. CASE by.type = "dir"
    <2>1. by.inode \in UsedDirectories(img) /\ by # NoEntry
      <3>1. NoEntry.type # "dir"
        BY DEF NoEntry, Blank
      <3> QED
        BY <1>1, <3>1, FoundFits
    <2>2. Target(by) = {by.inode} /\ Onto(img, by, n) = Lookup(img, by.inode, n)
      BY <1>1, <2>1 DEF Target, Onto
    <2> DEFINE d == by.inode
    <2>3. d \in UsedDirectories(img)
      BY <2>1
    <2> HIDE DEF d
    <2>4. Lookup(img, d, n) \in Found(img) /\ FromTo(img, {d}, n) = Target(Lookup(img, d, n))
      BY <2>3, LookupIs
    <2> QED
      BY <2>2, <2>4 DEF d
  <1>2. CASE by.type # "dir"
    <2>1. Onto(img, by, n) = NoEntry
      BY <1>2 DEF Onto
    <2>2. \A d \in Target(by) : d \notin UsedDirectories(img)
      BY <1>2, FoundFits DEF Target
    <2>3. \A l \in Links(img) : l[1] \in UsedDirectories(img)
      <3> TAKE l \in Links(img)
      <3>1. PICK t \in Named(img) : l = Link(t)
        BY LinksNamed
      <3>2. l[1] = t[1][1]
        BY <3>1 DEF Link
      <3> QED
        BY <3>2, NameWithin
    <2>4. FromTo(img, Target(by), n) = {}
      BY <2>2, <2>3 DEF FromTo
    <2> QED
      BY <2>1, <2>4 DEF Found, Target
  <1> QED
    BY <1>1, <1>2

LEMMA StartIs ==
  ASSUME NEW img, WholeImage(img), UniqueNames(img), Dotted(img)
  PROVE  Lookup(img, Root, ".") \in Found(img) /\ Target(Lookup(img, Root, ".")) = {Root}
  <1>1. Root \in UsedDirectories(img)
    BY DEF WholeImage, Sane, UsedDirectories
  <1>2. PICK p : p[1] = Root /\ <<p, ".", Root>> \in Named(img)
    BY DEF Dotted
  <1> DEFINE t == <<p, ".", Root>>
  <1>3. t \in Named(img) /\ t[1][1] = Root /\ t[2] = "." /\ t[3] = Root
    BY <1>2
  <1> HIDE DEF t
  <1>4. \A u \in Named(img) : u[1][1] = Root /\ u[2] = "." => Target(Lookup(img, Root, ".")) = {u[3]}
    BY <1>1, LookupIs
  <1>5. Lookup(img, Root, ".") \in Found(img)
    BY <1>1, LookupIs
  <1> QED
    BY <1>3, <1>4, <1>5

(* where a path comes to after each of its names *)
Descends(img, names, f) ==
  /\ f[0] = Lookup(img, Root, ".")
  /\ \A k \in 1 .. Len(names) : f[k] = Onto(img, f[k - 1], names[k])

LEMMA DescendRuns ==
  ASSUME NEW img, WholeImage(img), UniqueNames(img), Dotted(img), NEW names, Len(names) \in Nat
  PROVE  \E f : Descends(img, names, f) /\ Descend(img, names) = f[Len(names)]
  <1> DEFINE n == Len(names)
             start == Lookup(img, Root, ".")
             Next1(f) == [k \in 0 .. n |-> IF k = 0 THEN start ELSE Onto(img, f[k - 1], names[k])]
             entry == CHOOSE f : f = Next1(f)
             F == [k \in 1 .. n |-> [by \in Found(img) |-> Onto(img, by, names[k])]]
  <1>1. start \in Found(img)
    BY StartIs
  <1>2. \A k \in 1 .. n : \A by \in Found(img) : F[k][by] = Onto(img, by, names[k]) /\ F[k][by] \in Found(img)
    BY OntoIs
  <1> HIDE DEF F, start
  <1>3. PICK f : Recurs(n, start, F, f) /\ \A k \in 0 .. n : f[k] \in Found(img)
    <2>1. Closed(n, Found(img), F)
      BY <1>2 DEF Closed
    <2> HIDE DEF n
    <2>2. n \in Nat
      BY DEF n
    <2> QED
      BY <1>1, <2>1, <2>2, ByRecursion
  <1>4. f = Next1(f)
    <2>1. \A k \in 1 .. n : k - 1 \in 0 .. n
      OBVIOUS
    <2>2. \A k \in 0 .. n : f[k] = IF k = 0 THEN start ELSE Onto(img, f[k - 1], names[k])
      <3> TAKE k \in 0 .. n
      <3>1. f[k] = IF k = 0 THEN start ELSE F[k][f[k - 1]]
        BY <1>3 DEF Recurs
      <3>2. k # 0 => k \in 1 .. n /\ f[k - 1] \in Found(img)
        BY <1>3
      <3> QED
        BY <1>2, <3>1, <3>2
    <2>3. f = [k \in 0 .. n |-> f[k]]
      BY <1>3 DEF Recurs
    <2> QED
      BY <2>2, <2>3
  <1>5. entry = Next1(entry)
    BY <1>4
  <1>6. Descend(img, names) = entry[n]
    BY Zenon DEF Descend, Onto, start
  <1> HIDE DEF entry
  <1>7. Descends(img, names, entry)
    <2>1. \A k \in 0 .. n : entry[k] = IF k = 0 THEN start ELSE Onto(img, entry[k - 1], names[k])
      BY <1>5
    <2>2. 0 \in 0 .. n /\ \A k \in 1 .. n : k \in 0 .. n /\ k # 0
      OBVIOUS
    <2> QED
      BY <2>1, <2>2 DEF Descends, start
  <1> QED
    BY <1>6, <1>7

Walks(img, names, g) ==
  g[0] = {Root} /\ \A k \in 1 .. Len(names) : g[k] = FromTo(img, g[k - 1], names[k])

LEMMA WaysRun ==
  ASSUME NEW img, NEW names, Len(names) \in Nat
  PROVE  \E g : Walks(img, names, g) /\ Ways(img, names) = g[Len(names)]
  <1> DEFINE n == Len(names)
             links == Links(img)
             Next1(f) == [k \in 0 .. n |->
                           IF k = 0 THEN {Root}
                           ELSE {link[3] : link \in {l \in links : l[1] \in f[k - 1] /\ l[2] = names[k]}}]
             to == CHOOSE f : f = Next1(f)
             S == SUBSET ({Root} \cup {l[3] : l \in links})
             F == [k \in 1 .. n |-> [T \in S |-> FromTo(img, T, names[k])]]
  <1>1. {Root} \in S
    OBVIOUS
  <1>2. \A k \in 1 .. n : \A T \in S : F[k][T] = FromTo(img, T, names[k]) /\ F[k][T] \in S
    BY DEF FromTo
  <1> HIDE DEF F, S
  <1>3. PICK f : Recurs(n, {Root}, F, f) /\ \A k \in 0 .. n : f[k] \in S
    <2>1. Closed(n, S, F)
      BY <1>2 DEF Closed
    <2> HIDE DEF n
    <2>2. n \in Nat
      BY DEF n
    <2> QED
      BY <1>1, <2>1, <2>2, ByRecursion
  <1>4. f = Next1(f)
    <2>2. \A k \in 0 .. n : f[k] = IF k = 0 THEN {Root} ELSE FromTo(img, f[k - 1], names[k])
      <3> TAKE k \in 0 .. n
      <3>1. f[k] = IF k = 0 THEN {Root} ELSE F[k][f[k - 1]]
        BY <1>3 DEF Recurs
      <3>2. k # 0 => k \in 1 .. n /\ k - 1 \in 0 .. n
        OBVIOUS
      <3>3. k # 0 => f[k - 1] \in S
        BY <1>3, <3>2
      <3> QED
        BY <1>2, <3>1, <3>2, <3>3
    <2>3. f = [k \in 0 .. n |-> f[k]]
      BY <1>3 DEF Recurs
    <2>4. \A k \in 0 .. n : f[k] = Next1(f)[k]
      BY <2>2 DEF FromTo
    <2> QED
      BY <2>3, <2>4
  <1>5. to = Next1(to)
    BY <1>4
  <1>6. Ways(img, names) = to[n]
    BY Zenon DEF Ways
  <1> HIDE DEF to
  <1>7. Walks(img, names, to)
    <2>1. \A k \in 0 .. n : to[k] = IF k = 0 THEN {Root} ELSE FromTo(img, to[k - 1], names[k])
      BY <1>5 DEF FromTo
    <2>2. 0 \in 0 .. n /\ \A k \in 1 .. n : k \in 0 .. n /\ k # 0
      OBVIOUS
    <2> QED
      BY <2>1, <2>2 DEF Walks
  <1> QED
    BY <1>6, <1>7

LEMMA WaysLead ==
  ASSUME NEW img, WholeImage(img), UniqueNames(img), Dotted(img), NEW names, Len(names) \in Nat
  PROVE  Descend(img, names) \in Found(img) /\ Ways(img, names) = Target(Descend(img, names))
  <1> DEFINE n == Len(names)
  <1>1. PICK f : Descends(img, names, f) /\ Descend(img, names) = f[n]
    BY DescendRuns
  <1>2. PICK g : Walks(img, names, g) /\ Ways(img, names) = g[n]
    BY WaysRun
  <1> DEFINE G == {k \in 0 .. n : f[k] \in Found(img) /\ g[k] = Target(f[k])}
  <1>3. 0 \in G
    <2>1. f[0] = Lookup(img, Root, ".") /\ g[0] = {Root}
      BY <1>1, <1>2 DEF Descends, Walks
    <2>2. f[0] \in Found(img) /\ g[0] = Target(f[0])
      BY <2>1, StartIs
    <2> QED
      BY <2>2
  <1>4. ASSUME NEW k \in 1 .. n, k - 1 \in G PROVE k \in G
    <2>1. f[k - 1] \in Found(img) /\ g[k - 1] = Target(f[k - 1])
      BY <1>4
    <2>2. f[k] = Onto(img, f[k - 1], names[k]) /\ g[k] = FromTo(img, g[k - 1], names[k])
      BY <1>1, <1>2 DEF Descends, Walks
    <2> QED
      BY <2>1, <2>2, OntoIs
  <1>5. G \subseteq 0 .. n
    OBVIOUS
  <1>6. n \in G
    <2> HIDE DEF G
    <2>1. G = 0 .. n
      BY <1>3, <1>4, <1>5, UpTo
    <2> QED
      BY <2>1
  <1> QED
    BY <1>1, <1>2, <1>6

(* The last name is looked up where those before it lead.                  *)
LEMMA LastStep ==
  ASSUME NEW img, WholeImage(img), UniqueNames(img), Dotted(img), NEW S, NEW names \in Seq(S), names # <<>>
  PROVE  /\ Len(Front(names)) \in Nat
         /\ Descend(img, names) = Onto(img, Descend(img, Front(names)), Last(names))
  <1> DEFINE n == Len(names)
             q == Front(names)
  <1>1. n \in Nat \ {0} /\ Len(q) = n - 1 /\ Last(names) = names[n] /\ \A k \in 1 .. n - 1 : q[k] = names[k]
    <2>1. n \in Nat /\ n # 0
      OBVIOUS
    <2>2. q = SubSeq(names, 1, n - 1) /\ Last(names) = names[n]
      BY DEF Front, Last
    <2>3. Len(SubSeq(names, 1, n - 1)) = n - 1 /\ \A k \in 1 .. n - 1 : SubSeq(names, 1, n - 1)[k] = names[k]
      <3>1. 1 \in 1 .. n + 1 /\ n - 1 \in 1 - 1 .. n /\ (n - 1) - 1 + 1 = n - 1
        BY <2>1
      <3>2. /\ Len(SubSeq(names, 1, n - 1)) = (n - 1) - 1 + 1
            /\ \A k \in 1 .. n - 1 : SubSeq(names, 1, n - 1)[k] = names[1 + k - 1]
        BY <2>1, <3>1, SubSeqProperties
      <3> QED
        BY <2>1, <3>1, <3>2
    <2> HIDE DEF q
    <2> QED
      BY <2>1, <2>2, <2>3
  <1> HIDE DEF q
  <1>2. PICK f : Descends(img, names, f) /\ Descend(img, names) = f[n]
    BY DescendRuns
  <1>3. PICK h : Descends(img, q, h) /\ Descend(img, q) = h[n - 1]
    BY <1>1, DescendRuns
  <1> DEFINE G == {k \in 0 .. n - 1 : f[k] = h[k]}
  <1>4. 0 \in G
    BY <1>1, <1>2, <1>3 DEF Descends
  <1>5. ASSUME NEW k \in 1 .. n - 1, k - 1 \in G PROVE k \in G
    <2>1. f[k] = Onto(img, f[k - 1], names[k]) /\ h[k] = Onto(img, h[k - 1], names[k])
      BY <1>1, <1>2, <1>3 DEF Descends
    <2> QED
      BY <1>5, <2>1
  <1>6. n - 1 \in G
    <2>1. G \subseteq 0 .. n - 1 /\ n - 1 \in Nat
      BY <1>1
    <2> HIDE DEF G, n
    <2>2. G = 0 .. n - 1
      BY <1>4, <1>5, <2>1, UpTo
    <2> QED
      BY <2>1, <2>2
  <1>7. f[n] = Onto(img, f[n - 1], names[n])
    BY <1>1, <1>2 DEF Descends
  <1> QED
    BY <1>1, <1>2, <1>3, <1>6, <1>7 DEF q

(* What PathsAgree says of one path.                                       *)
PathAgrees(img, path) ==
  LET named == Ways(img, path.names)
      dirs == named \cap UsedDirectories(img)
      into == Ways(img, Front(path.names)) \cap UsedDirectories(img)
      last == {At(d, Last(path.names)) : d \in into}
  IN /\ {find_dir_entry(img, path).inode} \ {0} = IF path.slash THEN dirs ELSE named
     /\ Leads({mkdir_target(img, path)}) = IF named = {} THEN last ELSE {}
     /\ Leads({rm_target(img, path)}) = IF path.slash \/ named = {} THEN {} ELSE last
     /\ Leads({restore_target(img, path)}) = IF path.slash THEN {} ELSE last
     /\ \A own \in Given :
          Leads({create_target(img, path, own)}) =
            IF named # {} THEN {At(d, own) : d \in dirs} ELSE IF path.slash THEN {} ELSE last

LEMMA LeadsTo ==
  /\ \A d, n : Leads({At(d, n)}) = {At(d, n)}
  /\ \A x \in {"EEXIST", "ENOENT", "EISDIR"} : Leads({Fails(x)}) = {}
  <1>1. \A d, n : At(d, n).exit = "0"
    BY DEF At
  <1>2. \A x : Fails(x).exit = x
    BY DEF Fails
  <1> QED
    BY <1>1, <1>2 DEF Leads

LEMMA PathFits ==
  ASSUME NEW img, WholeImage(img), UniqueNames(img), Dotted(img), NEW S,
         NEW path, path.names \in Seq(S), path.names # <<>>
  PROVE  PathAgrees(img, path)
  <1> DEFINE names == path.names
             entry == Descend(img, names)
             by == Descend(img, Front(names))
             l == Last(names)
             d == Container(img, names)
             named == Ways(img, names)
             dirs == named \cap UsedDirectories(img)
             into == Ways(img, Front(names)) \cap UsedDirectories(img)
             last == {At(c, l) : c \in into}
  <1>1. Len(names) \in Nat /\ Len(Front(names)) \in Nat /\ entry = Onto(img, by, l)
    BY LastStep
  <1>2. entry \in Found(img) /\ named = Target(entry) /\ by \in Found(img) /\ Ways(img, Front(names)) = Target(by)
    BY <1>1, WaysLead
  <1>3. NoEntry.type # "dir" /\ NoEntry.inode = 0 /\ 0 \notin UsedDirectories(img)
    <2>1. 0 \notin Inode /\ UsedDirectories(img) \subseteq Inode
      BY TypedIs, NumbersFinite DEF WholeImage
    <2> QED
      BY <2>1 DEF NoEntry, Blank
  <1>4. \A e \in Found(img) :
          /\ Target(e) \cap UsedDirectories(img) = IF e.type = "dir" THEN {e.inode} ELSE {}
          /\ Target(e) = {e.inode} \ {0}
          /\ e.type = "dir" => e.inode # 0 /\ e.inode \in UsedDirectories(img) /\ e # NoEntry
          /\ (e = NoEntry) = (Target(e) = {})
    <2> TAKE e \in Found(img)
    <2>1. (e = NoEntry <=> e.inode = 0) /\ (e.type = "dir" <=> e.inode \in UsedDirectories(img))
      BY FoundFits
    <2>2. Target(e) = IF e = NoEntry THEN {} ELSE {e.inode}
      BY DEF Target
    <2> QED
      BY <1>3, <2>1, <2>2
  <1>5. d = IF by.type = "dir" THEN by.inode ELSE 0
    BY DEF Container
  <1>6. dirs = IF entry.type = "dir" THEN {entry.inode} ELSE {}
    BY <1>2, <1>4
  <1>7. into = IF by.type = "dir" THEN {by.inode} ELSE {}
    BY <1>2, <1>4
  <1>8. last = IF by.type = "dir" THEN {At(d, l)} ELSE {}
    BY <1>5, <1>7
  <1>9. (named = {}) = (entry = NoEntry) /\ named = {entry.inode} \ {0}
    BY <1>2, <1>4
  <1>10. by.type # "dir" => entry = NoEntry /\ d = 0
    BY <1>1, <1>5 DEF Onto
  <1>11. by.type = "dir" => d # 0 /\ (find_entry(img, d, l) = {} <=> entry = NoEntry)
    <2> SUFFICES ASSUME by.type = "dir" PROVE d # 0 /\ (find_entry(img, d, l) = {} <=> entry = NoEntry)
      OBVIOUS
    <2>1. by.inode # 0 /\ by.inode \in UsedDirectories(img)
      BY <1>2, <1>4
    <2>2. entry = Lookup(img, by.inode, l) /\ d = by.inode
      BY <1>1, <1>5 DEF Onto
    <2> HIDE DEF entry, by, l, d
    <2> QED
      BY <2>1, <2>2, LookupIs
  <1>12. /\ entry.type = "dir" => entry # NoEntry
         /\ \A own : {At(c, own) : c \in dirs} = IF entry.type = "dir" THEN {At(entry.inode, own)} ELSE {}
    BY <1>3, <1>6
  <1>13. /\ find_dir_entry(img, path) = IF path.slash /\ entry.type # "dir" THEN NoEntry ELSE entry
         /\ mkdir_target(img, path) =
              IF d = 0 THEN Fails("ENOENT")
              ELSE IF find_entry(img, d, l) # {} THEN Fails("EEXIST") ELSE At(d, l)
         /\ rm_target(img, path) =
              IF d = 0 \/ find_entry(img, d, l) = {} THEN Fails("ENOENT")
              ELSE IF path.slash THEN Fails("EISDIR") ELSE At(d, l)
         /\ restore_target(img, path) =
              IF d = 0 THEN Fails("ENOENT") ELSE IF path.slash THEN Fails("EISDIR") ELSE At(d, l)
         /\ \A own : create_target(img, path, own) =
              IF entry.type = "dir" THEN At(entry.inode, own)
              ELSE IF d = 0 \/ path.slash THEN Fails("ENOENT")
              ELSE IF entry = NoEntry THEN At(d, l) ELSE Fails("EEXIST")
    BY DEF find_dir_entry, mkdir_target, rm_target, restore_target, create_target
  <1> HIDE DEF entry, by, d, l, named, dirs, into, last
  <1>14. {find_dir_entry(img, path).inode} \ {0} = IF path.slash THEN dirs ELSE named
    <2>1. entry.type = "dir" => entry.inode # 0
      BY <1>2, <1>4
    <2> QED
      BY <1>3, <1>6, <1>9, <1>13, <2>1
  <1>15. Leads({mkdir_target(img, path)}) = IF named = {} THEN last ELSE {}
    <2>1. CASE d = 0
      <3>1. Leads({mkdir_target(img, path)}) = {} /\ last = {}
        BY <1>8, <1>10, <1>11, <1>13, <2>1, LeadsTo
      <3> QED
        BY <3>1
    <2>2. CASE d # 0
      <3>1. mkdir_target(img, path) = IF find_entry(img, d, l) # {} THEN Fails("EEXIST") ELSE At(d, l)
        BY <1>13, <2>2
      <3>2. (named = {} <=> find_entry(img, d, l) = {}) /\ last = {At(d, l)}
        BY <1>8, <1>9, <1>10, <1>11, <2>2
      <3> QED
        BY <3>1, <3>2, LeadsTo
    <2> QED
      BY <2>1, <2>2
  <1>16. Leads({rm_target(img, path)}) = IF path.slash \/ named = {} THEN {} ELSE last
    <2>1. CASE d = 0 \/ find_entry(img, d, l) = {}
      <3>1. Leads({rm_target(img, path)}) = {}
        BY <1>13, <2>1, LeadsTo
      <3>2. named = {}
        BY <1>9, <1>10, <1>11, <2>1
      <3> QED
        BY <3>1, <3>2
    <2>2. CASE d # 0 /\ find_entry(img, d, l) # {}
      <3>1. rm_target(img, path) = IF path.slash THEN Fails("EISDIR") ELSE At(d, l)
        BY <1>13, <2>2
      <3>2. named # {} /\ last = {At(d, l)}
        BY <1>8, <1>9, <1>10, <1>11, <2>2
      <3> QED
        BY <3>1, <3>2, LeadsTo
    <2> QED
      BY <2>1, <2>2
  <1>17. Leads({restore_target(img, path)}) = IF path.slash THEN {} ELSE last
    BY <1>8, <1>10, <1>11, <1>13, LeadsTo
  <1>18. ASSUME NEW own \in Given
         PROVE  Leads({create_target(img, path, own)}) =
                  IF named # {} THEN {At(c, own) : c \in dirs} ELSE IF path.slash THEN {} ELSE last
    <2>1. CASE entry.type = "dir"
      <3>1. create_target(img, path, own) = At(entry.inode, own)
        BY <1>13, <2>1
      <3>2. named # {} /\ {At(c, own) : c \in dirs} = {At(entry.inode, own)}
        BY <1>9, <1>12, <2>1
      <3> QED
        BY <3>1, <3>2, LeadsTo
    <2>2. CASE entry.type # "dir" /\ entry # NoEntry
      <3>1. Leads({create_target(img, path, own)}) = {}
        <4>1. create_target(img, path, own) \in {Fails("ENOENT"), Fails("EEXIST")}
          BY <1>10, <1>13, <2>2
        <4> QED
          BY <4>1, LeadsTo
      <3>2. named # {} /\ {At(c, own) : c \in dirs} = {}
        BY <1>9, <1>12, <2>2
      <3> QED
        BY <3>1, <3>2
    <2>3. CASE entry = NoEntry
      <3>1. create_target(img, path, own) = IF d = 0 \/ path.slash THEN Fails("ENOENT") ELSE At(d, l)
        BY <1>12, <1>13, <2>3
      <3>2. named = {} /\ last = IF d = 0 THEN {} ELSE {At(d, l)}
        BY <1>8, <1>9, <1>10, <1>11, <2>3
      <3> QED
        BY <3>1, <3>2, LeadsTo
    <2> QED
      BY <2>1, <2>2, <2>3
  <1> QED
    BY <1>14, <1>15, <1>16, <1>17, <1>18, Zenon DEF PathAgrees, named, dirs, into, last, l, names

PInv == Whole => Dotted(image)

LEMMA DottedKept ==
  ASSUME NEW img, WholeImage(img), Dotted(img), NEW new, Changes(img, new)
  PROVE  Dotted(new)
  <1>1. PICK p : p[1] = Root /\ <<p, ".", Root>> \in Named(img)
    BY DEF Dotted
  <1> DEFINE t == <<p, ".", Root>>
  <1>2. t \in Named(img) /\ t[3] = Root /\ Root \in UsedDirectories(img)
    BY <1>1 DEF WholeImage, Sane, UsedDirectories
  <1> HIDE DEF t
  <1>3. t \in Named(new)
    <2>1. CASE SameNames(img, new)
      BY <1>2, <2>1 DEF SameNames
    <2>2. ASSUME NEW d, NEW n \in Given, NEW i, EntersOne(img, new, d, n, i) PROVE t \in Named(new)
      BY <1>2, <2>2 DEF EntersOne, NameAdded
    <2>3. ASSUME NEW d, NEW n \in Given, NEW i, RemovesOne(img, new, d, n, i) PROVE t \in Named(new)
      <3>1. PICK x : Named(new) = Named(img) \ {<<x, n, i>>} /\ i \notin UsedDirectories(img)
        BY <2>3 DEF RemovesOne, NameTaken
      <3>2. t # <<x, n, i>>
        BY <1>2, <3>1
      <3> QED
        BY <1>2, <3>1, <3>2
    <2>4. ASSUME NEW d, NEW n \in Given, NEW i, MakesOne(img, new, d, n, i) PROVE t \in Named(new)
      BY <1>2, <2>4 DEF MakesOne
    <2> QED
      BY <2>1, <2>2, <2>3, <2>4 DEF Changes
  <1> QED
    BY <1>1, <1>3 DEF Dotted, t

LEMMA DottedFirst ==
  ASSUME Init
  PROVE  PInv
  <1>1. OnlyRoot(image)
    BY InitWhole
  <1>2. PICK p, q : Named(image) = {<<p, ".", Root>>, <<q, "..", Root>>}
    BY <1>1, OnlyRootWhole
  <1> DEFINE t == <<p, ".", Root>>
  <1>3. t \in Named(image) /\ t[1] = p
    BY <1>2
  <1> HIDE DEF t
  <1>4. p[1] = Root
    <2>1. t[1][1] \in UsedDirectories(image) /\ UsedDirectories(image) = {Root}
      BY <1>1, <1>3, OnlyRootWhole, NameWithin
    <2> QED
      BY <1>3, <2>1
  <1> QED
    BY <1>3, <1>4 DEF PInv, Dotted, t

(* A path of any length, not only one of the two names of PathsAgree.      *)
AnyPathAgrees ==
  Whole => \A path \in Paths(Seq(Given) \ {<<>>}) :
             PathAgrees(image, path)

LEMMA PathsFit ==
  ASSUME IInv, UInv, PInv
  PROVE  AnyPathAgrees
  BY PathFits DEF AnyPathAgrees, Paths, IInv, UInv, PInv

LEMMA ShortPaths ==
  ASSUME AnyPathAgrees
  PROVE  PathsAgree
  <1> DEFINE lists == BoundedSeq(Given, 2)
  <1>1. lists \subseteq Seq(Given)
    <2> SUFFICES ASSUME NEW names \in lists PROVE names \in Seq(Given)
      OBVIOUS
    <2>1. PICK m \in 0 .. 2 : names \in [1 .. m -> Given]
      BY DEF BoundedSeq, SeqOf
    <2> QED
      BY <2>1
  <1> HIDE DEF lists
  <1>2. Whole => \A path \in Paths(lists \ {<<>>}) : PathAgrees(image, path)
    BY <1>1 DEF AnyPathAgrees, Paths
  <1> QED
    BY <1>2 DEF PathsAgree, PathAgrees, Ways, lists

THEOREM RootDotted == Spec => []PInv
  <1>1. Init => PInv
    BY DottedFirst
  <1>2. IInv /\ PInv /\ [Next]_vars => PInv'
    <2> SUFFICES ASSUME IInv, PInv, [Next]_vars, Whole'
                 PROVE  Dotted(image')
      BY DEF PInv
    <2>1. Whole /\ Changes(image, image')
      BY StepKeeps, WholeBefore DEF WholeStep
    <2> QED
      BY <2>1, DottedKept DEF PInv, IInv
  <1> QED
    BY <1>1, <1>2, Ext2Invariant, PTL DEF Spec

(* Every tool makes of a path, of any length, what its names say from      *)
(* directory to directory, "." and ".." included: find_dir_entry comes to  *)
(* the same entry as the searches of mkdir, cp, ln, rm and restore for a   *)
(* directory and the last name in it.                                      *)
THEOREM AnyPathAgreesCorrect == Spec => []AnyPathAgrees
  BY Ext2Invariant, NamesUnique, RootDotted, PathsFit, PTL

(* The same for the paths that the runs go through.                        *)
THEOREM PathsAgreeCorrect == Spec => []PathsAgree
  BY AnyPathAgreesCorrect, ShortPaths, PTL
-----------------------------------------------------------------------------
(* The checker.  What it corrects changes neither the tree nor itself.     *)
LEMMA EnteredSame ==
  ASSUME NEW img, Typed(img), NEW new,
         \A i \in Inode : (IsDir(new, i) <=> IsDir(img, i)) /\ Children(new, i) = Children(img, i)
  PROVE  Entered(new) = Entered(img)
  <1> DEFINE N == Cardinality(Inode)
             to == CHOOSE f : f = [k \in 0 .. N |-> IF k = 0 THEN Start(img) ELSE More(img, f[k - 1])]
             on == CHOOSE f : f = [k \in 0 .. N |-> IF k = 0 THEN Start(new) ELSE More(new, f[k - 1])]
  <1>1. N \in Nat
    BY NumbersFinite
  <1>2. Entered(img) = to[N] /\ Entered(new) = on[N]
    BY Zenon DEF Entered, Start, More
  <1> HIDE DEF N
  <1>3. to = [k \in 0 .. N |-> IF k = 0 THEN Start(img) ELSE More(img, to[k - 1])]
    BY <1>1, EnteredExist, Zenon DEF N
  <1>4. on = [k \in 0 .. N |-> IF k = 0 THEN Start(new) ELSE More(new, on[k - 1])]
    BY <1>1, EnteredExist, Zenon DEF N
  <1> HIDE DEF to, on
  <1>5. /\ to[0] = Start(img) /\ \A k \in 1 .. N : to[k] = More(img, to[k - 1])
        /\ on[0] = Start(new) /\ \A k \in 1 .. N : on[k] = More(new, on[k - 1])
    BY <1>1, <1>3, <1>4
  <1>6. \A d \in Inode : Children(img, d) \subseteq Inode
    BY RecordsOf DEF Children
  <1>7. Start(new) = Start(img) /\ Start(img) \subseteq Inode
    BY NumbersFinite DEF Start
  <1>8. ASSUME NEW S \in SUBSET Inode
        PROVE  More(new, S) = More(img, S) /\ More(img, S) \subseteq Inode
    <2>1. UNION {Children(img, d) : d \in S} \subseteq Inode
      BY <1>6
    <2>2. UNION {Children(new, d) : d \in S} = UNION {Children(img, d) : d \in S}
      OBVIOUS
    <2> QED
      BY <2>1, <2>2 DEF More
  <1> DEFINE Lack == {k \in 0 .. N : on[k] # to[k] \/ ~(to[k] \subseteq Inode)}
  <1>9. ASSUME Lack # {} PROVE FALSE
    <2>1. Lack \subseteq Nat
      OBVIOUS
    <2>2. PICK u \in Lack : \A k \in Lack : u <= k
      <3> HIDE DEF Lack
      <3> QED
        BY <1>9, <2>1, Smallest
    <2>3. u # 0
      BY <1>5, <1>7
    <2>4. u \in 1 .. N /\ u - 1 \in 0 .. N /\ ~(u <= u - 1)
      BY <1>1, <2>3
    <2>5. on[u - 1] = to[u - 1] /\ to[u - 1] \subseteq Inode
      BY <2>2, <2>4
    <2> QED
      BY <1>5, <1>8, <2>4, <2>5
  <1> QED
    BY <1>1, <1>2, <1>9

(* images with the same directories, but for the types in their records *)
SameTree(img, new) ==
  /\ \A i \in Inode : /\ new.inode[i].mode = img.inode[i].mode
                      /\ new.inode[i].direct = img.inode[i].direct
  /\ \A b \in Block : Retypes(img.records[b], new.records[b])

LEMMA EntriesSame ==
  ASSUME NEW img, TypedRoot(img), NEW new, SameTree(img, new), NEW d \in Inode
  PROVE  /\ LiveEntries(new, d) = LiveEntries(img, d)
         /\ \A e \in LiveEntries(img, d) : /\ RecordAt(new, d, e).inode = RecordAt(img, d, e).inode
                                           /\ RecordAt(new, d, e).name = RecordAt(img, d, e).name
  <1>1. /\ img.inode[d].direct \in Seq(Block) /\ new.inode[d].direct = img.inode[d].direct
        /\ \A k \in 1 .. Len(img.inode[d].direct) : img.inode[d].direct[k] \in Block
    BY TypedIs, InodeIs DEF TypedRoot, SameTree
  <1>2. ASSUME NEW b \in Block
        PROVE  /\ Walk(new.records[b]) = Walk(img.records[b])
               /\ \A w : /\ WordAt(new.records[b], w).inode = WordAt(img.records[b], w).inode
                         /\ WordAt(new.records[b], w).name = WordAt(img.records[b], w).name
    <2>1. Retypes(img.records[b], new.records[b]) /\ BlockOK(img.records[b])
      BY DEF SameTree, TypedRoot, Typed
    <2> QED
      BY <2>1, Retyped DEF WordAt, Retypes
  <1>3. Places(new, d) = Places(img, d)
    <2>1. \A k \in 1 .. Len(img.inode[d].direct) :
            Walk(new.records[new.inode[d].direct[k]]) = Walk(img.records[img.inode[d].direct[k]])
      BY <1>1, <1>2
    <2> QED
      BY <1>1, <2>1 DEF Places
  <1>4. ASSUME NEW e \in Places(img, d)
        PROVE  /\ RecordAt(new, d, e).inode = RecordAt(img, d, e).inode
               /\ RecordAt(new, d, e).name = RecordAt(img, d, e).name
    <2>1. e[1] \in 1 .. Len(img.inode[d].direct)
      BY DEF Places
    <2> DEFINE b == img.inode[d].direct[e[1]]
    <2>2. b \in Block
      BY <1>1, <2>1
    <2>3. RecordAt(new, d, e) = WordAt(new.records[b], e[2]) /\ RecordAt(img, d, e) = WordAt(img.records[b], e[2])
      BY ONLY <1>1 DEF RecordAt
    <2> HIDE DEF b
    <2> QED
      BY <1>2, <2>2, <2>3
  <1> QED
    BY <1>3, <1>4 DEF LiveEntries

LEMMA VisitedSame ==
  ASSUME NEW img, TypedRoot(img), NEW new, SameTree(img, new)
  PROVE  /\ Entered(new) = Entered(img) /\ Visited(new) = Visited(img) /\ Reached(new) = Reached(img)
         /\ Visited(img) \subseteq Block \X Nat /\ Reached(img) \subseteq Inode
  <1>1. \A d \in Inode :
          /\ LiveEntries(new, d) = LiveEntries(img, d)
          /\ \A e \in LiveEntries(img, d) : /\ RecordAt(new, d, e).inode = RecordAt(img, d, e).inode
                                            /\ RecordAt(new, d, e).name = RecordAt(img, d, e).name
    BY EntriesSame
  <1>2. \A d \in Inode : Children(new, d) = Children(img, d)
    <2> TAKE d \in Inode
    <2> DEFINE Seen(m) == {o \in LiveEntries(m, d) : RecordAt(m, d, o).name \in Name \ Hidden}
    <2>1. Seen(new) = Seen(img) /\ Seen(img) \subseteq LiveEntries(img, d)
      BY <1>1
    <2>2. Children(new, d) = {RecordAt(new, d, e).inode : e \in Seen(new)}
          /\ Children(img, d) = {RecordAt(img, d, e).inode : e \in Seen(img)}
      BY DEF Children
    <2> HIDE DEF Seen
    <2> QED
      BY <1>1, <2>1, <2>2
  <1>3. Entered(new) = Entered(img) /\ Entered(img) \subseteq Inode
    BY <1>2, EnteredSame, EnteredTyped DEF SameTree, IsDir, TypedRoot
  <1>4. RootRecord(new) = RootRecord(img)
    BY NumbersFinite DEF RootRecord, SameTree
  <1>5. Visited(new) = Visited(img)
    <2>1. \A d \in Entered(img) :
            {<<new.inode[d].direct[e[1]], e[2]>> : e \in LiveEntries(new, d)}
              = {<<img.inode[d].direct[e[1]], e[2]>> : e \in LiveEntries(img, d)}
      BY <1>1, <1>3 DEF SameTree
    <2> QED
      BY <1>3, <1>4, <2>1 DEF Visited
  <1>6. ASSUME NEW p \in Visited(img)
        PROVE  /\ p \in Block \X Nat
               /\ new.records[p[1]][p[2]].inode = img.records[p[1]][p[2]].inode
    <2>1. p[1] \in Block /\ p[2] \in DOMAIN img.records[p[1]] /\ p = <<p[1], p[2]>>
      BY VisitedTyped DEF TypedRoot
    <2>2. DOMAIN img.records[p[1]] \subseteq Nat
      BY <2>1, BlockDomain, WordsNat DEF TypedRoot, Typed, BlockOK
    <2> QED
      BY <2>1, <2>2 DEF SameTree, Retypes
  <1>7. Reached(new) = Reached(img)
    BY <1>5, <1>6 DEF Reached
  <1> QED
    BY <1>3, <1>5, <1>6, <1>7, ReachedTyped DEF TypedRoot

(* What the checker's walk sees of an image is its tree, and the four      *)
(* repairs leave that as it is: each uses what the walk over the first     *)
(* image reaches.                                                          *)
EntriesEffect(img, new) ==
  /\ TypedRoot(new) /\ Same(img, new, {"pointers", "text"}) /\ new.gd.used_dirs = img.gd.used_dirs
  /\ new.inode_bitmap = img.inode_bitmap \cup Reached(img)
  /\ new.block_bitmap = img.block_bitmap \cup UNION {BlocksSeen(img, i) : i \in Reached(img)}
  /\ new.inode = TimesBy(img.inode, Reached(img))
  /\ new.records = RetypedBy(img.records, img.inode, Visited(img))
  /\ CountersOf(img) => CountersOf(new)

(* what the repairs give every record that is visited                      *)
RecordsRepaired(new) ==
  \A p \in Visited(new) :
    /\ WordOf(new, p).type = dir_entry_file_type(new.inode[WordOf(new, p).inode].mode)
    /\ ~new.inode[WordOf(new, p).inode].dtime

LEMMA BlocksSeenSame ==
  ASSUME NEW img, NEW new, new.pointers = img.pointers, NEW i,
         new.inode[i].direct = img.inode[i].direct, new.inode[i].indirect = img.inode[i].indirect
  PROVE  BlocksSeen(new, i) = BlocksSeen(img, i)
  BY DEF BlocksSeen

LEMMA EntriesRepaired ==
  ASSUME NEW img, TypedRoot(img), NEW new, new = fix_dir_entries_recursively(img)
  PROVE  /\ EntriesEffect(img, new) /\ RecordsRepaired(new)
         /\ Visited(new) = Visited(img) /\ Reached(new) = Reached(img)
         /\ \A i \in Inode : BlocksSeen(new, i) = BlocksSeen(img, i)
  <1> DEFINE one == fix_file_types(img)
             two == fix_inode_allocation(one)
             three == fix_deletion_times(two)
  <1>1. new = fix_block_allocation(three)
    BY DEF fix_dir_entries_recursively
  <1>2. /\ TypedRoot(one) /\ Same(img, one, Field \ {"records"})
        /\ one.records = RetypedBy(img.records, img.inode, Visited(img))
        /\ \A b \in Block : Retypes(img.records[b], one.records[b])
        /\ \A p \in Visited(img) :
             WordOf(one, p).type = dir_entry_file_type(img.inode[WordOf(img, p).inode].mode)
    BY FileTypesFixed DEF Fixes
  <1> HIDE DEF one
  <1>3. /\ TypedRoot(two) /\ Same(one, two, Field \ {"sb", "gd", "inode_bitmap"})
        /\ two.gd.used_dirs = one.gd.used_dirs
        /\ two.inode_bitmap = one.inode_bitmap \cup Reached(one)
        /\ CountersOf(one) => CountersOf(two)
    BY <1>2, InodeAllocationFixed DEF Fixes
  <1> HIDE DEF two
  <1>4. /\ TypedRoot(three) /\ Same(two, three, Field \ {"inode"})
        /\ three.inode = TimesBy(two.inode, Reached(two))
        /\ \A i \in Inode : /\ three.inode[i].mode = two.inode[i].mode
                            /\ three.inode[i].direct = two.inode[i].direct
                            /\ three.inode[i].indirect = two.inode[i].indirect
                            /\ i \in Reached(two) => ~three.inode[i].dtime
    BY <1>3, DeletionTimesFixed DEF Fixes
  <1> HIDE DEF three
  <1>5. /\ TypedRoot(new) /\ Same(three, new, Field \ {"sb", "gd", "block_bitmap"})
        /\ new.gd.used_dirs = three.gd.used_dirs
        /\ new.block_bitmap = three.block_bitmap \cup UNION {BlocksSeen(three, i) : i \in Reached(three)}
        /\ CountersOf(three) => CountersOf(new)
    BY <1>1, <1>4, BlockAllocationFixed DEF Fixes
  <1>6. /\ one.inode_bitmap = img.inode_bitmap /\ one.block_bitmap = img.block_bitmap
        /\ one.sb = img.sb /\ one.gd = img.gd /\ one.inode = img.inode
        /\ one.pointers = img.pointers /\ one.text = img.text
    BY <1>2 DEF Same, Field
  <1>7. /\ two.block_bitmap = one.block_bitmap /\ two.inode = one.inode /\ two.records = one.records
        /\ two.pointers = one.pointers /\ two.text = one.text
    BY <1>3 DEF Same, Field
  <1>8. /\ three.inode_bitmap = two.inode_bitmap /\ three.block_bitmap = two.block_bitmap
        /\ three.sb = two.sb /\ three.gd = two.gd /\ three.records = two.records
        /\ three.pointers = two.pointers /\ three.text = two.text
    BY <1>4 DEF Same, Field
  <1>9. /\ new.inode_bitmap = three.inode_bitmap /\ new.inode = three.inode /\ new.records = three.records
        /\ new.pointers = three.pointers /\ new.text = three.text /\ new \in Image
    BY <1>5 DEF Same, Field
  <1>10. SameTree(img, one) /\ SameTree(img, two) /\ SameTree(img, three) /\ SameTree(img, new)
    BY <1>2, <1>4, <1>6, <1>7, <1>8, <1>9 DEF SameTree
  <1>11. /\ Visited(one) = Visited(img) /\ Reached(one) = Reached(img)
         /\ Visited(two) = Visited(img) /\ Reached(two) = Reached(img)
         /\ Visited(three) = Visited(img) /\ Reached(three) = Reached(img)
         /\ Visited(new) = Visited(img) /\ Reached(new) = Reached(img)
         /\ Reached(img) \subseteq Inode
    BY <1>10, VisitedSame
  <1>12. \A i \in Inode : BlocksSeen(three, i) = BlocksSeen(img, i) /\ BlocksSeen(new, i) = BlocksSeen(img, i)
    <2> TAKE i \in Inode
    <2>1. /\ three.inode[i].direct = img.inode[i].direct /\ three.inode[i].indirect = img.inode[i].indirect
          /\ new.inode[i].direct = img.inode[i].direct /\ new.inode[i].indirect = img.inode[i].indirect
      BY <1>4, <1>6, <1>7, <1>9
    <2>2. three.pointers = img.pointers /\ new.pointers = img.pointers
      BY <1>6, <1>7, <1>8, <1>9
    <2> QED
      BY <2>1, <2>2, BlocksSeenSame
  <1>13. new.block_bitmap = img.block_bitmap \cup UNION {BlocksSeen(img, i) : i \in Reached(img)}
    <2>1. {BlocksSeen(three, i) : i \in Reached(img)} = {BlocksSeen(img, i) : i \in Reached(img)}
      BY <1>11, <1>12
    <2>2. three.block_bitmap = img.block_bitmap
      BY <1>6, <1>7, <1>8
    <2> QED
      BY <1>5, <1>11, <2>1, <2>2
  <1>14. CountersOf(img) => CountersOf(new)
    <2>1. CountersOf(img) => CountersOf(one)
      BY <1>6, CountersAre DEF FreeInodes, FreeBlocks
    <2>2. CountersOf(two) => CountersOf(three)
      BY <1>8, CountersAre DEF FreeInodes, FreeBlocks
    <2> QED
      BY <1>3, <1>5, <2>1, <2>2
  <1>15. new.inode = TimesBy(img.inode, Reached(img))
    BY <1>4, <1>6, <1>7, <1>9, <1>11
  <1>16. EntriesEffect(img, new)
    <2>1. Same(img, new, {"pointers", "text"})
      BY <1>6, <1>7, <1>8, <1>9 DEF Same
    <2>2. new.inode_bitmap = img.inode_bitmap \cup Reached(img)
      BY <1>3, <1>6, <1>8, <1>9, <1>11
    <2>3. new.records = RetypedBy(img.records, img.inode, Visited(img))
      BY <1>2, <1>7, <1>8, <1>9
    <2>4. new.gd.used_dirs = img.gd.used_dirs
      BY <1>3, <1>5, <1>6, <1>8
    <2> QED
      BY <1>5, <1>13, <1>14, <1>15, <2>1, <2>2, <2>3, <2>4 DEF EntriesEffect
  <1>17. ASSUME NEW p \in Visited(new)
         PROVE  /\ WordOf(new, p).type = dir_entry_file_type(new.inode[WordOf(new, p).inode].mode)
                /\ ~new.inode[WordOf(new, p).inode].dtime
    <2> DEFINE i == WordOf(img, p).inode
    <2>1. p \in Visited(img) /\ i \in Reached(img) /\ i \in Inode
      BY <1>11, <1>17 DEF Reached, WordOf
    <2>2. WordOf(new, p) = WordOf(one, p) /\ WordOf(new, p).inode = i
      <3>1. p[1] \in Block /\ p[2] \in DOMAIN img.records[p[1]]
        BY <2>1, VisitedTyped DEF TypedRoot
      <3>2. WordOf(one, p).inode = i
        BY <1>2, <3>1 DEF WordOf, Retypes
      <3> QED
        BY <1>7, <1>8, <1>9, <3>2 DEF WordOf
    <2> HIDE DEF i
    <2>3. new.inode[i].mode = img.inode[i].mode /\ ~new.inode[i].dtime
      BY <1>4, <1>6, <1>7, <1>9, <1>11, <2>1
    <2> QED
      BY <1>2, <2>1, <2>2, <2>3 DEF i
  <1> QED
    BY <1>11, <1>12, <1>16, <1>17 DEF RecordsRepaired

LEMMA RepairedConsistent ==
  ASSUME NEW img, TypedRoot(img), CountersOf(img), NEW new, new = fix_dir_entries_recursively(img)
  PROVE  Consistent(new)
  <1>1. /\ EntriesEffect(img, new) /\ RecordsRepaired(new)
        /\ Visited(new) = Visited(img) /\ Reached(new) = Reached(img)
        /\ \A i \in Inode : BlocksSeen(new, i) = BlocksSeen(img, i)
    BY EntriesRepaired
  <1>2. CountersOf(new)
    BY <1>1 DEF EntriesEffect
  <1>3. ASSUME NEW p \in Visited(new)
        PROVE  LET record == new.records[p[1]][p[2]]
               IN /\ record.type = dir_entry_file_type(new.inode[record.inode].mode)
                  /\ record.inode \in new.inode_bitmap /\ ~new.inode[record.inode].dtime
                  /\ BlocksSeen(new, record.inode) \subseteq new.block_bitmap
    <2> DEFINE i == WordOf(new, p).inode
    <2>1. i \in Reached(img) /\ i \in Inode
      <3>1. i \in Reached(new)
        BY DEF Reached, WordOf
      <3> QED
        BY <1>1, <3>1, ReachedTyped DEF TypedRoot
    <2>2. i \in new.inode_bitmap
      BY <1>1, <2>1 DEF EntriesEffect
    <2>3. BlocksSeen(new, i) \subseteq new.block_bitmap
      BY <1>1, <2>1 DEF EntriesEffect
    <2> QED
      BY <1>1, <2>2, <2>3 DEF RecordsRepaired, WordOf
  <1> QED
    BY <1>2, <1>3 DEF Consistent

(* Nothing the repairs of the entries use is a counter, and the free       *)
(* counters they keep up to date are what fix_free_counts would set.       *)
LEMMA ImagesEqual ==
  ASSUME NEW img \in Image, NEW new \in Image,
         img.inode_bitmap = new.inode_bitmap, img.block_bitmap = new.block_bitmap,
         img.sb = new.sb, img.gd = new.gd, img.inode = new.inode, img.records = new.records,
         img.pointers = new.pointers, img.text = new.text
  PROVE  img = new
  <1> DEFINE Is(m) == [inode_bitmap |-> m.inode_bitmap, block_bitmap |-> m.block_bitmap, sb |-> m.sb,
                       gd |-> m.gd, inode |-> m.inode, records |-> m.records,
                       pointers |-> m.pointers, text |-> m.text]
  <1>1. Is(img) = Is(new)
    OBVIOUS
  <1>2. \A m \in Image : m = Is(m)
    BY DEF Image
  <1> QED
    BY <1>1, <1>2

LEMMA CountersEqual ==
  ASSUME NEW img \in Image, NEW new \in Image, CountersOf(img), CountersOf(new),
         img.inode_bitmap = new.inode_bitmap, img.block_bitmap = new.block_bitmap,
         img.gd.used_dirs = new.gd.used_dirs
  PROVE  img.sb = new.sb /\ img.gd = new.gd
  <1>1. /\ img.sb \in [free_inodes : Int, free_blocks : Int]
        /\ new.sb \in [free_inodes : Int, free_blocks : Int]
        /\ img.gd \in [free_inodes : Int, free_blocks : Int, used_dirs : Int]
        /\ new.gd \in [free_inodes : Int, free_blocks : Int, used_dirs : Int]
    BY DEF Image
  <1>2. FreeInodes(img) = FreeInodes(new) /\ FreeBlocks(img) = FreeBlocks(new)
    BY DEF FreeInodes, FreeBlocks
  <1>3. /\ img.sb.free_inodes = new.sb.free_inodes /\ img.sb.free_blocks = new.sb.free_blocks
        /\ img.gd.free_inodes = new.gd.free_inodes /\ img.gd.free_blocks = new.gd.free_blocks
    BY <1>2, CountersAre
  <1> QED
    BY <1>1, <1>3

LEMMA TreeItself ==
  ASSUME NEW img, TypedRoot(img), NEW new, Same(img, new, {"inode", "records"})
  PROVE  SameTree(img, new)
  <1>1. \A b \in Block : BlockOK(img.records[b])
    BY DEF TypedRoot, Typed
  <1>2. ASSUME NEW b \in Block PROVE Retypes(img.records[b], img.records[b])
    <2>1. PICK h \in 0 .. Words : img.records[b] \in [0 .. h - 1 -> Record]
      BY <1>1, WrittenIs DEF BlockOK
    <2> QED
      BY <2>1 DEF Retypes
  <1> QED
    BY <1>2 DEF SameTree, Same

LEMMA OrdersAgree ==
  ASSUME NEW img, TypedRoot(img)
  PROVE  CountsFirst(img) = EntriesFirst(img) /\ Consistent(CountsFirst(img))
  <1> DEFINE one == fix_root_mode(img)
             counted == fix_free_counts(one)
             first == fix_dir_entries_recursively(counted)
             entered == fix_dir_entries_recursively(one)
             last == fix_free_counts(entered)
  <1>1. CountsFirst(img) = first /\ EntriesFirst(img) = last
    BY DEF CountsFirst, EntriesFirst
  <1>2. TypedRoot(one)
    BY RootModeFixed DEF Fixes
  <1> HIDE DEF one
  <1>3. /\ TypedRoot(counted) /\ Same(one, counted, Field \ {"sb", "gd"})
        /\ counted.gd.used_dirs = one.gd.used_dirs /\ CountersOf(counted)
    BY <1>2, FreeCountsFixed DEF Fixes
  <1> HIDE DEF counted
  <1>4. Consistent(first) /\ EntriesEffect(counted, first)
    BY <1>3, RepairedConsistent, EntriesRepaired
  <1>5. EntriesEffect(one, entered)
    BY <1>2, EntriesRepaired
  <1> HIDE DEF first, entered
  <1>6. /\ TypedRoot(last) /\ Same(entered, last, Field \ {"sb", "gd"})
        /\ last.gd.used_dirs = entered.gd.used_dirs /\ CountersOf(last)
    BY <1>5, FreeCountsFixed DEF Fixes, EntriesEffect
  <1> HIDE DEF last
  <1>7. /\ counted.inode_bitmap = one.inode_bitmap /\ counted.block_bitmap = one.block_bitmap
        /\ counted.inode = one.inode /\ counted.records = one.records
        /\ counted.pointers = one.pointers /\ counted.text = one.text
    BY <1>3 DEF Same, Field
  <1>8. Visited(counted) = Visited(one) /\ Reached(counted) = Reached(one) /\ Reached(one) \subseteq Inode
    <2>1. SameTree(one, counted)
      BY <1>2, <1>3, TreeItself DEF Same, Field
    <2> QED
      BY <1>2, <2>1, VisitedSame
  <1>9. {BlocksSeen(counted, i) : i \in Reached(one)} = {BlocksSeen(one, i) : i \in Reached(one)}
    BY <1>7, BlocksSeenSame
  <1>10. /\ last.inode_bitmap = entered.inode_bitmap /\ last.block_bitmap = entered.block_bitmap
         /\ last.inode = entered.inode /\ last.records = entered.records
         /\ last.pointers = entered.pointers /\ last.text = entered.text
    BY <1>6 DEF Same, Field
  <1>11. first.inode_bitmap = last.inode_bitmap
    BY <1>4, <1>5, <1>7, <1>8, <1>10 DEF EntriesEffect
  <1>12. first.block_bitmap = last.block_bitmap
    BY <1>4, <1>5, <1>7, <1>8, <1>9, <1>10 DEF EntriesEffect
  <1>13. first.inode = last.inode /\ first.records = last.records
    BY <1>4, <1>5, <1>7, <1>8, <1>10 DEF EntriesEffect
  <1>14. first.pointers = last.pointers /\ first.text = last.text
    BY <1>4, <1>5, <1>7, <1>10 DEF EntriesEffect, Same
  <1>15. first.gd.used_dirs = last.gd.used_dirs
    BY <1>3, <1>4, <1>5, <1>6 DEF EntriesEffect
  <1>16. CountersOf(first) /\ first \in Image /\ last \in Image
    BY <1>3, <1>4, <1>6 DEF EntriesEffect, Same
  <1>17. first.sb = last.sb /\ first.gd = last.gd
    BY <1>6, <1>11, <1>12, <1>15, <1>16, CountersEqual
  <1>18. first = last
    BY <1>11, <1>12, <1>13, <1>14, <1>16, <1>17, ImagesEqual
  <1> QED
    BY <1>1, <1>4, <1>18

(* After ext2_checker the free counters are the bitmaps', and all that its *)
(* walk from the root comes to has the type its inode says, is marked in   *)
(* use down to its blocks and has no time of deletion; the image it leaves *)
(* does not depend on which operand of the sum in main is called first.    *)
THEOREM CheckerRepairsCorrect == Spec => []CheckerRepairs
  <1>1. ASSUME IInv PROVE CheckerRepairs
    <2>1. status \in {"whole", "corrupt"} => TypedRoot(image)
      BY <1>1 DEF IInv
    <2> QED
      BY <2>1, OrdersAgree DEF CheckerRepairs
  <1> QED
    BY <1>1, Ext2Invariant, PTL
-----------------------------------------------------------------------------
(* A removed record does not lie before the record there is of its name:   *)
(* so restore comes to the one removed last.                               *)
Tidy(img) ==
  \A t \in Named(img), g \in Ghosts(img) :
    t[1][1] = g[1][1] /\ t[2] = g[2] => Sooner(t[1][2], g[1][2])

LEMMA GhostWithin ==
  ASSUME NEW img, NEW g \in Ghosts(img)
  PROVE  g[1][1] \in UsedDirectories(img)
  <1>1. PICK s \in Slots(img) :
          g \in {<<Place(s, w), Content(img, s)[w].name>> : w \in Gone(Content(img, s))}
    BY DEF Ghosts
  <1>2. PICK w \in Gone(Content(img, s)) : g = <<Place(s, w), Content(img, s)[w].name>>
    BY <1>1
  <1>3. g[1][1] = s[1]
    BY <1>2 DEF Place
  <1>4. s[1] \in UsedDirectories(img)
    BY DEF Slots
  <1> QED
    BY <1>3, <1>4

LEMMA TidyKept ==
  ASSUME NEW img, WholeImage(img), UniqueNames(img), Tidy(img), NEW new, Changes(img, new)
  PROVE  Tidy(new)
  <1>1. CASE SameNames(img, new)
    BY <1>1 DEF SameNames, Tidy
  <1>2. ASSUME NEW d \in UsedDirectories(img), NEW n \in Given, NEW i, EntersOne(img, new, d, n, i)
        PROVE  Tidy(new)
    <2>1. PICK x : x[1] = d /\ Named(new) = Named(img) \cup {<<x, n, i>>} /\ Foremost(new, x, n)
      BY <1>2 DEF EntersOne, NameAdded
    <2>2. Ghosts(new) \subseteq Ghosts(img)
      BY <1>2 DEF EntersOne, NameAdded
    <2> QED
      BY <2>1, <2>2 DEF Tidy, Foremost
  <1>3. ASSUME NEW d \in UsedDirectories(img), NEW n \in Given, NEW i, RemovesOne(img, new, d, n, i)
        PROVE  Tidy(new)
    <2>1. PICK x : /\ x[1] = d /\ <<x, n, i>> \in Named(img) /\ Named(new) = Named(img) \ {<<x, n, i>>}
                   /\ Ghosts(new) \subseteq Ghosts(img) \cup {<<x, n>>}
      BY <1>3 DEF RemovesOne, NameTaken
    <2>2. ASSUME NEW t \in Named(new) PROVE t \in Named(img) /\ ~(t[1][1] = d /\ t[2] = n)
      BY <2>1 DEF UniqueNames
    <2> QED
      BY <2>1, <2>2 DEF Tidy
  <1>4. ASSUME NEW d \in UsedDirectories(img), NEW n \in Given, NEW i, MakesOne(img, new, d, n, i)
        PROVE  Tidy(new)
    <2>1. PICK x, S : /\ x[1] = d /\ OwnNames(S, d, i) /\ Foremost(new, x, n)
                      /\ Named(new) = Named(img) \cup {<<x, n, i>>} \cup S
      BY <1>4 DEF MakesOne
    <2>2. Ghosts(new) \subseteq Ghosts(img)
      BY <1>4 DEF MakesOne
    <2>3. ASSUME NEW g \in Ghosts(new) PROVE g \in Ghosts(img) /\ g[1][1] # i
      BY <1>4, <2>2, GhostWithin DEF MakesOne, UsedDirectories
    <2>4. \A t \in S : t[1][1] = i
      BY <2>1 DEF OwnNames
    <2> QED
      BY <2>1, <2>3, <2>4 DEF Tidy, Foremost
  <1> QED
    BY <1>1, <1>2, <1>3, <1>4 DEF Changes

TInv == Whole => Tidy(image)

(* Whenever a directory has a record of a name, every removed record of    *)
(* that name lies behind it: create_dir_entry and restore_file put a name  *)
(* where no removed record of it is left before.                           *)
THEOREM RemovedBehind == Spec => []TInv
  <1>1. Init => TInv
    BY InitWhole, OnlyRootWhole DEF TInv, Tidy
  <1>2. IInv /\ UInv /\ TInv /\ [Next]_vars => TInv'
    <2> SUFFICES ASSUME IInv, UInv, TInv, [Next]_vars, Whole'
                 PROVE  Tidy(image')
      BY DEF TInv
    <2>1. Whole /\ Changes(image, image')
      BY StepKeeps, WholeBefore DEF WholeStep
    <2> QED
      BY <2>1, TidyKept DEF TInv, UInv, IInv
  <1> QED
    BY <1>1, <1>2, Ext2Invariant, NamesUnique, PTL DEF Spec
-----------------------------------------------------------------------------
(* restore after rm.  The record before gets back its length, and the one  *)
(* in the gap behind it its own.                                           *)
LEMMA MergedRevealed ==
  ASSUME NEW r, DirBlock(r), NEW w \in Live(r), w # 0, NEW o \in Walk(r), o + r[o].rec_len = w,
         NEW q, q = Merged(r, o, w)
  PROVE  /\ w \in Gone(q) /\ q[w] = r[w]
         /\ \A p \in Walk(q) : w \in GapWords(q, p) => Revealed(q, p, w) = r
  <1>1. Drops(r, q, w) /\ Walk(q) = Walk(r) \ {w}
    BY DropsOK
  <1>2. /\ Walk(r) \subseteq DOMAIN r /\ Walk(r) \subseteq 0 .. Words - 1
        /\ \A v \in Walk(r) : r[v] \in Record /\ r[v].name # "/" /\ r[v].rec_len \in 3 .. Words
        /\ w \in Walk(r) /\ r[w].inode # 0
    BY DirBlockWords
  <1>3. o \in Int /\ w \in Int /\ r[o].rec_len \in 3 .. Words /\ r[w].rec_len \in 3 .. Words /\ o < w
    BY <1>2, WordsNat
  <1>4. r \in Written
    BY DEF DirBlock, BlockOK
  <1>5. DOMAIN q = DOMAIN r /\ \A v \in DOMAIN r : v # o => q[v] = r[v]
    BY DEF Merged
  <1>6. q[o] = [r[o] EXCEPT !.rec_len = @ + r[w].rec_len]
    BY <1>2 DEF Merged
  <1>7. q[w] = r[w] /\ w \in Gone(q)
    BY <1>1, <1>2, <1>3, <1>5 DEF Gone
  <1>8. q[o].rec_len = r[o].rec_len + r[w].rec_len
    BY <1>2, <1>6 DEF Record
  <1>9. ASSUME NEW p \in Walk(q), w \in GapWords(q, p) PROVE p = o
    <2>1. DirBlock(q)
      BY <1>1 DEF Drops
    <2>2. p < w /\ w < p + q[p].rec_len
      BY <1>9, <2>1, GapIsGone
    <2>3. p \in Int /\ q[p].rec_len \in Int
      BY <2>1, DirBlockWords, WordsNat
    <2>4. p < o => p + q[p].rec_len <= o
      BY <1>1, <1>3, <2>1 DEF DirBlock, Chain
    <2>5. o < p => o + q[o].rec_len <= p
      BY <1>1, <1>3, <2>1 DEF DirBlock, Chain
    <2> QED
      BY <1>3, <1>8, <2>2, <2>3, <2>4, <2>5
  <1>10. Revealed(q, o, w) = r
    <2>1. [q[w] EXCEPT !.rec_len = q[o].rec_len - (w - o)] = r[w]
      <3>1. q[o].rec_len - (w - o) = r[w].rec_len
        BY <1>3, <1>8
      <3> QED
        BY <1>2, <1>7, <3>1 DEF Record
    <2>2. [q[o] EXCEPT !.rec_len = w - o] = r[o]
      <3>1. w - o = r[o].rec_len
        BY <1>3
      <3> QED
        BY <1>2, <1>6, <3>1 DEF Record
    <2>3. Far(q, o, w) = [q EXCEPT ![w] = r[w]]
      BY <2>1 DEF Far, Rewritten
    <2>4. Revealed(q, o, w) = [[q EXCEPT ![w] = r[w]] EXCEPT ![o] = r[o]]
      BY <2>2, <2>3 DEF Revealed, Rewritten
    <2>5. q = [r EXCEPT ![o] = q[o]]
      BY <1>6 DEF Merged
    <2>6. r = [v \in DOMAIN r |-> r[v]]
      BY <1>4 DEF Written
    <2> QED
      BY <1>2, <2>4, <2>5, <2>6
  <1> QED
    BY <1>7, <1>9, <1>10

(* What the last unlink of a file freed is free, until it is reclaimed.    *)
Freed(img, new, i) ==
  /\ new.inode_bitmap = img.inode_bitmap \ {i}
  /\ new.block_bitmap = img.block_bitmap \ DataBlocks(img, i)
  /\ DataBlocks(new, i) = DataBlocks(img, i) /\ DataBlocks(img, i) \subseteq img.block_bitmap
  /\ Counts(img, new, 1, Cardinality(DataBlocks(img, i)))

LEMMA UnlinkedFree ==
  ASSUME NEW img, Typed(img), BlocksOK(img), NEW i \in img.inode_bitmap, img.inode[i].links = 1,
         NEW mid, Unlinked(img, mid, i), NEW hid, Same(mid, hid, Field \ {"records"})
  PROVE  Freed(img, hid, i) /\ is_inode_and_data_blocks_free(hid, i)
  <1>1. ~(img.inode[i].links - 1 > 0)
    OBVIOUS
  <1>2. /\ mid.inode_bitmap = img.inode_bitmap \ {i}
        /\ mid.block_bitmap = img.block_bitmap \ DataBlocks(img, i)
        /\ Counts(img, mid, 1, Cardinality(DataBlocks(img, i)))
    BY <1>1 DEF Unlinked
  <1>3. /\ hid.inode_bitmap = mid.inode_bitmap /\ hid.block_bitmap = mid.block_bitmap
        /\ hid.sb = mid.sb /\ hid.gd = mid.gd /\ hid.inode = mid.inode /\ hid.pointers = mid.pointers
    BY DEF Same, Field
  <1>4. Counts(img, hid, 1, Cardinality(DataBlocks(img, i)))
    BY <1>2, <1>3 DEF Counts
  <1>5. /\ mid.pointers = img.pointers /\ mid.inode[i].direct = img.inode[i].direct
        /\ mid.inode[i].indirect = img.inode[i].indirect
    BY DEF Unlinked, Same
  <1>6. DataBlocks(hid, i) = DataBlocks(img, i)
    BY <1>3, <1>5 DEF DataBlocks
  <1>7. DataBlocks(img, i) \subseteq img.block_bitmap
    BY DEF BlocksOK
  <1>8. is_inode_and_data_blocks_free(hid, i)
    BY <1>2, <1>3, <1>6 DEF is_inode_and_data_blocks_free
  <1> QED
    BY <1>2, <1>3, <1>4, <1>6, <1>7, <1>8 DEF Freed

LEMMA FileBack ==
  ASSUME NEW img, Typed(img), BlocksOK(img), LinksOK(img), NEW i \in img.inode_bitmap,
         img.inode[i].links = 1, NEW mid, Unlinked(img, mid, i),
         NEW hid, Same(mid, hid, Field \ {"records"}), NEW new, Reclaimed(hid, new, i)
  PROVE  /\ Same(img, new, Field \ {"records"}) /\ new.records = hid.records
  <1> DEFINE bs == DataBlocks(img, i)
  <1>1. i \in Inode /\ new \in Image /\ img \in Image
    BY TypedIs DEF Reclaimed, Same, Typed
  <1>2. /\ hid.inode_bitmap = img.inode_bitmap \ {i} /\ hid.block_bitmap = img.block_bitmap \ bs
        /\ DataBlocks(hid, i) = bs /\ bs \subseteq img.block_bitmap
        /\ Counts(img, hid, 1, Cardinality(bs))
    <2>1. Freed(img, hid, i)
      BY UnlinkedFree
    <2> QED
      BY <2>1 DEF Freed
  <1>3. Cardinality(bs) \in Int
    BY <1>1, BlocksTyped
  <1> HIDE DEF bs
  <1>4. new.inode_bitmap = img.inode_bitmap /\ new.block_bitmap = img.block_bitmap
    BY <1>2 DEF Reclaimed
  <1>5. new.sb = img.sb /\ new.gd = img.gd
    <2>1. Counts(hid, new, -1, -Cardinality(bs))
      BY <1>2 DEF Reclaimed
    <2>2. /\ img.sb \in [free_inodes : Int, free_blocks : Int]
          /\ new.sb \in [free_inodes : Int, free_blocks : Int]
          /\ img.gd \in [free_inodes : Int, free_blocks : Int, used_dirs : Int]
          /\ new.gd \in [free_inodes : Int, free_blocks : Int, used_dirs : Int]
      BY <1>1 DEF Image
    <2>3. /\ new.sb.free_inodes = img.sb.free_inodes /\ new.sb.free_blocks = img.sb.free_blocks
          /\ new.gd.free_inodes = img.gd.free_inodes /\ new.gd.free_blocks = img.gd.free_blocks
          /\ new.gd.used_dirs = img.gd.used_dirs
      BY <1>2, <1>3, <2>1, <2>2 DEF Counts
    <2> QED
      BY <2>2, <2>3
  <1>6. /\ hid.inode = mid.inode /\ hid.pointers = mid.pointers /\ hid.text = mid.text
        /\ mid.pointers = img.pointers /\ mid.text = img.text
    BY DEF Same, Field, Unlinked
  <1>7. /\ new.pointers = img.pointers /\ new.text = img.text /\ new.records = hid.records
    BY <1>6 DEF Reclaimed, Same
  <1>8. new.inode = img.inode
    <2>1. img.inode \in [Inode -> InodeRecord] /\ new.inode \in [Inode -> InodeRecord]
      BY <1>1 DEF Image
    <2>2. \A j \in Inode \ {i} : new.inode[j] = img.inode[j]
      BY <1>6 DEF Reclaimed, Unlinked
    <2>3. /\ new.inode[i].mode = img.inode[i].mode /\ new.inode[i].links = img.inode[i].links
          /\ new.inode[i].direct = img.inode[i].direct /\ new.inode[i].indirect = img.inode[i].indirect
      BY <1>6 DEF Reclaimed, Unlinked
    <2>4. ~new.inode[i].dtime /\ ~img.inode[i].dtime
      BY DEF Reclaimed, LinksOK
    <2>5. new.inode[i] \in InodeRecord /\ img.inode[i] \in InodeRecord
      BY <1>1, <2>1
    <2>6. new.inode[i].dtime = img.inode[i].dtime
      BY <2>4, <2>5, InodeIs
    <2>7. new.inode[i] = img.inode[i]
      BY <2>3, <2>5, <2>6 DEF InodeRecord
    <2> QED
      BY <2>1, <2>2, <2>7
  <1> QED
    BY <1>1, <1>4, <1>5, <1>7, <1>8 DEF Same, Field

(* What rm leaves of a file that it removes from behind another record.    *)
LEMMA RemovedIs ==
  ASSUME NEW img, WholeImage(img), NEW d \in UsedDirectories(img), NEW n \in Given,
         find_entry(img, d, n) # {}, NEW e, e = First(find_entry(img, d, n)), e[2] # 0,
         NEW i, i = RecordAt(img, d, e).inode, RecordAt(img, d, e).type # "dir",
         img.inode[i].links = 1, NEW s, s = <<d, e[1]>>
  PROVE  \E mid, hid :
           /\ delete_file_entry(img, d, n) = Ends(hid, "0")
           /\ Unlinked(img, mid, i) /\ BlockPut(mid, hid, SlotBlock(img, s), Content(hid, s))
           /\ Content(hid, s) = Merged(Content(img, s), Before(img, d, e)[2], e[2])
           /\ WholeImage(hid) /\ NameTaken(img, hid, d, n, i) /\ Slots(hid) = Slots(img)
           /\ UsedDirectories(hid) = UsedDirectories(img) /\ SlotBlock(hid, s) = SlotBlock(img, s)
  <1> DEFINE record == RecordAt(img, d, e)
             mid == unlink_inode(img, i)
             hid == Hide(mid, d, e)
             b == SlotBlock(img, s)
  <1>1. Typed(img) /\ Sane(img) /\ DirsOK(img) /\ NamesOK(img) /\ Accounted(img)
    BY DEF WholeImage, Sane
  <1>2. e \in LiveEntries(img, d) /\ record.name = n
    BY <1>1, FoundIs
  <1>3. /\ s \in Slots(img) /\ e[2] \in Live(Content(img, s)) /\ record = Content(img, s)[e[2]]
        /\ <<d, e>> \in LiveRecords(img)
    BY <1>1, <1>2, EntryIs
  <1>4. i \in img.inode_bitmap /\ i \in Inode /\ img.inode[i].links > 0 /\ ~IsDir(img, i)
    <2>1. i \in img.inode_bitmap /\ ~IsDir(img, i)
      BY <1>1, <1>3, LiveNames DEF Entry
    <2> QED
      BY <1>1, <2>1, TypedIs
  <1>5. Unlinked(img, mid, i)
    BY <1>1, <1>4, InodeLeft
  <1>6. delete_file_entry(img, d, n) = Ends(hid, "0")
    BY DEF delete_file_entry
  <1> HIDE DEF mid
  <1>7. Typed(mid) /\ mid.records = img.records /\ mid.inode[d].direct = img.inode[d].direct
    <2>1. d \in Inode
      BY <1>1, TypedIs
    <2> QED
      BY <1>5, <2>1 DEF Unlinked, Same
  <1>8. PICK r : /\ Drops(Content(img, s), r, e[2]) /\ BlockPut(mid, hid, b, r)
                 /\ r = Merged(Content(img, s), Before(img, d, e)[2], e[2])
    BY <1>1, <1>2, <1>7, RecordHidden
  <1> HIDE DEF hid, record
  <1>10. /\ Typed(hid) /\ Sane(hid) /\ UsedDirectories(hid) = UsedDirectories(img)
         /\ hid.gd.used_dirs = img.gd.used_dirs /\ NameTaken(img, hid, d, n, i)
    <2>1. /\ Content(img, s)[e[2]].type # "dir" /\ i = Content(img, s)[e[2]].inode
          /\ Content(img, s)[e[2]].name = n /\ s[1] = d
      BY <1>2, <1>3 DEF record
    <2> HIDE DEF b
    <2>2. BlockPut(mid, hid, SlotBlock(img, s), r)
      BY <1>8 DEF b
    <2> QED
      BY <1>1, <1>3, <1>4, <1>5, <1>8, <2>1, <2>2, OldName
  <1>11. WholeImage(hid)
    BY <1>10 DEF WholeImage, DirsCounted
  <1>12. Slots(hid) = Slots(img) /\ SlotBlock(hid, s) = b
    <2>1. /\ Accounted(mid) /\ UsedDirectories(mid) = UsedDirectories(img) /\ Slots(mid) = Slots(img)
          /\ \A u \in Slots(img) : SlotBlock(mid, u) = SlotBlock(img, u)
      BY <1>1, <1>4, <1>5, UnlinkedIs
    <2>2. Same(mid, hid, Field \ {"records"}) /\ Typed(hid)
      BY <1>8 DEF BlockPut
    <2>3. Slots(hid) = Slots(mid) /\ \A u : SlotBlock(hid, u) = SlotBlock(mid, u)
      BY <1>7, <2>1, <2>2, RecordsOnly
    <2> QED
      BY <1>3, <2>1, <2>3
  <1>13. Content(hid, s) = r
    <2>1. b \in Block
      BY <1>1, <1>3, SlotIs DEF SlotBlock
    <2>2. hid.records[b] = r
      BY <1>8, <2>1 DEF BlockPut
    <2> QED
      BY <1>12, <2>2 DEF Content, SlotBlock
  <1> QED
    BY <1>5, <1>6, <1>8, <1>10, <1>11, <1>12, <1>13

(* restore looks no further than the record removed last.                  *)
LEMMA RemovedFirst ==
  ASSUME NEW img, WholeImage(img), UniqueNames(img), Tidy(img), NEW d \in UsedDirectories(img),
         NEW n \in Given, NEW e \in LiveEntries(img, d), RecordAt(img, d, e).name = n,
         NEW i, NEW hid, WholeImage(hid), NameTaken(img, hid, d, n, i),
         UsedDirectories(hid) = UsedDirectories(img), Slots(hid) = Slots(img),
         NEW s, s = <<d, e[1]>>, e[2] \in Gone(Content(hid, s)), Content(hid, s)[e[2]].name = n,
         NEW o, o = First(Deleted(hid, d, n))
  PROVE  /\ find_entry(hid, d, n) = {} /\ Deleted(hid, d, n) # {} /\ o \in Deleted(hid, d, n)
         /\ RecordAt(hid, d, o) = Rest \/ o = e
  <1>1. Typed(img) /\ DirsOK(img) /\ Typed(hid) /\ DirsOK(hid)
    BY DEF WholeImage, Sane
  <1>2. /\ s \in Slots(img) /\ e = <<e[1], e[2]>> /\ <<d, e>> \in LiveRecords(img)
        /\ Place(s, e[2]) = <<d, e>> /\ e[2] \in Nat /\ e[1] \in Nat
    <2>1. s \in Slots(img) /\ e = <<e[1], e[2]>> /\ <<d, e>> \in LiveRecords(img) /\ e[2] \in Nat
      BY <1>1, EntryIs
    <2>2. e[1] \in Nat
      BY <2>1 DEF Slots
    <2> QED
      BY <2>1, <2>2 DEF Place
  <1> DEFINE t == <<<<d, e>>, n, RecordAt(img, d, e).inode>>
  <1>3. t \in Named(img) /\ t[1] = <<d, e>> /\ t[2] = n
    BY <1>2 DEF Named, Entry
  <1>4. PICK x : /\ x[1] = d /\ <<x, n, i>> \in Named(img) /\ Named(hid) = Named(img) \ {<<x, n, i>>}
                 /\ Ghosts(hid) \subseteq Ghosts(img) \cup {<<x, n>>}
    BY DEF NameTaken
  <1> DEFINE y == <<x, n, i>>
  <1>5. y[1] = x /\ y[2] = n /\ y \in Named(img)
    BY <1>4
  <1> HIDE DEF t, y
  <1>6. t = y
    BY <1>3, <1>4, <1>5 DEF UniqueNames
  <1>7. x = <<d, e>>
    BY <1>3, <1>5, <1>6
  <1>8. find_entry(hid, d, n) = {}
    <2> SUFFICES ASSUME NEW p \in find_entry(hid, d, n) PROVE FALSE
      OBVIOUS
    <2>1. p \in LiveEntries(hid, d) /\ RecordAt(hid, d, p).name = n
      BY DEF find_entry
    <2>2. <<d, p>> \in LiveRecords(hid)
      BY <1>1, <2>1, EntryIs
    <2> DEFINE u == <<<<d, p>>, n, RecordAt(hid, d, p).inode>>
    <2>3. u \in Named(hid) /\ u[1][1] = d /\ u[2] = n
      BY <2>1, <2>2 DEF Named, Entry
    <2> HIDE DEF u
    <2>4. u \in Named(img) /\ u # y
      BY <1>4, <2>3 DEF y
    <2> QED
      BY <1>4, <1>5, <2>3, <2>4 DEF UniqueNames
  <1>9. PICK p \in Deleted(hid, d, n) : Sooner(p, e)
    <2>1. \E p \in Deleted(hid, d, n) : Sooner(p, <<s[2], e[2]>>)
      BY <1>1, <1>2, DeletedBefore
    <2> QED
      BY <1>2, <2>1
  <1>10. o \in Deleted(hid, d, n) /\ Sooner(o, p) /\ o \in Nat \X Nat /\ p \in Nat \X Nat
    <2> DEFINE S == Deleted(hid, d, n)
    <2>1. S \subseteq Nat \X Nat
      BY <1>1, DeletedIs
    <2> HIDE DEF S
    <2>2. o = First(S) /\ p \in S /\ S # {}
      BY <1>9 DEF S
    <2>3. First(S) \in S /\ \A q \in S : Sooner(First(S), q)
      BY <2>1, <2>2, FirstIs
    <2> QED
      BY <2>1, <2>2, <2>3 DEF S
  <1>11. Sooner(o, e)
    BY <1>2, <1>9, <1>10 DEF Sooner
  <1>12. ASSUME RecordAt(hid, d, o) # Rest PROVE o = e
    <2> DEFINE v == <<d, o[1]>>
               g == <<<<d, o>>, n>>
    <2>1. /\ v \in Slots(hid) /\ RecordAt(hid, d, o) = Content(hid, v)[o[2]]
          /\ RecordAt(hid, d, o).inode # 0 /\ RecordAt(hid, d, o).name = n
      BY <1>1, <1>10, <1>12, DeletedIs
    <2>2. o[2] \in Gone(Content(hid, v))
      <3>1. PICK q \in Places(hid, d) : o \in Gap(hid, d, q)
        BY <1>1, <1>10, DeletedIs
      <3>2. v = <<d, q[1]>> /\ o[2] \in GapWords(Content(hid, v), q[2])
        <4>1. o \in {q[1]} \X GapWords(Content(hid, <<d, q[1]>>), q[2])
          BY <3>1, GapIs
        <4> QED
          BY <4>1
      <3>3. q[2] \in Walk(Content(hid, v)) /\ DirBlock(Content(hid, v))
        BY <1>1, <2>1, <3>1, <3>2, PlacesAre DEF DirsOK
      <3>4. o[2] \in DOMAIN Content(hid, v) /\ o[2] \notin Walk(Content(hid, v))
        BY <3>2, <3>3, GapIsGone
      <3>5. n # "/"
        BY NameAssumption DEF Given
      <3> QED
        BY <2>1, <3>4, <3>5 DEF Gone
    <2>3. g \in Ghosts(hid)
      <3>1. g = <<Place(v, o[2]), Content(hid, v)[o[2]].name>>
        BY <1>10, <2>1 DEF Place
      <3> HIDE DEF g, v
      <3>2. g \in {<<Place(v, w), Content(hid, v)[w].name>> : w \in Gone(Content(hid, v))}
        BY <2>2, <3>1
      <3> QED
        BY <2>1, <3>2 DEF Ghosts
    <2>4. g[1] = <<d, o>> /\ g[2] = n
      OBVIOUS
    <2> HIDE DEF g
    <2>5. g \in Ghosts(img) => Sooner(e, o)
      <3>1. t[1][1] = g[1][1] /\ t[2] = g[2] /\ t[1][2] = e /\ g[1][2] = o
        BY <1>3, <2>4
      <3> QED
        BY <1>3, <3>1 DEF Tidy
    <2>6. g \notin Ghosts(img) => o = e
      BY <1>4, <1>7, <2>3 DEF g
    <2>7. Sooner(e, o) => o = e
      <3>1. o = <<o[1], o[2]>> /\ o[1] \in Nat /\ o[2] \in Nat
        BY <1>10
      <3>2. Sooner(e, o) => o[1] = e[1] /\ o[2] = e[2]
        BY <1>2, <1>11, <3>1 DEF Sooner
      <3> QED
        BY <1>2, <3>1, <3>2
    <2> QED
      BY <2>5, <2>6, <2>7
  <1> QED
    BY <1>8, <1>10, <1>12

LEMMA RemoveUndone ==
  ASSUME NEW img, WholeImage(img), UniqueNames(img), Tidy(img), NEW d \in UsedDirectories(img),
         NEW n \in Given, find_entry(img, d, n) # {},
         NEW e, e = First(find_entry(img, d, n)), e[2] # 0,
         RecordAt(img, d, e).type # "dir", img.inode[RecordAt(img, d, e).inode].links = 1,
         NEW removed, removed = delete_file_entry(img, d, n)
  PROVE  restore_file(removed.image, d, n) \in {Ends(img, "0"), Ends(removed.image, "undefined")}
  <1> DEFINE i == RecordAt(img, d, e).inode
             s == <<d, e[1]>>
             b == SlotBlock(img, s)
             r == Content(img, s)
             w == e[2]
             o == Before(img, d, e)[2]
  <1>1. Typed(img) /\ DirsOK(img) /\ BlocksOK(img) /\ LinksOK(img)
    BY DEF WholeImage, Sane, Accounted
  <1>2. e \in LiveEntries(img, d) /\ RecordAt(img, d, e).name = n
    BY <1>1, FoundIs
  <1>3. /\ s \in Slots(img) /\ w \in Live(r) /\ RecordAt(img, d, e) = r[w] /\ DirBlock(r)
        /\ <<d, e>> \in LiveRecords(img)
    BY <1>1, <1>2, EntryIs DEF DirsOK
  <1>4. o \in Walk(r) /\ o + r[o].rec_len = w
    BY <1>1, <1>2, BeforeIs
  <1>5. PICK mid, hid :
           /\ delete_file_entry(img, d, n) = Ends(hid, "0")
           /\ Unlinked(img, mid, i) /\ BlockPut(mid, hid, b, Content(hid, s))
           /\ Content(hid, s) = Merged(r, o, w)
           /\ WholeImage(hid) /\ NameTaken(img, hid, d, n, i) /\ Slots(hid) = Slots(img)
           /\ UsedDirectories(hid) = UsedDirectories(img) /\ SlotBlock(hid, s) = b
    BY RemovedIs
  <1> DEFINE q == Content(hid, s)
             first == First(Deleted(hid, d, n))
             back == reclaim_inode_and_data_blocks(hid, i)
             new == unhide_deleted_entry(back, d, e)
  <1>6. img.inode[i].links = 1 /\ Unlinked(img, mid, i)
    BY <1>5
  <1>7. removed.image = hid
    BY <1>5 DEF Ends
  <1>8. i \in img.inode_bitmap /\ i \in Inode /\ b \in Block
    <2>1. NamesOK(img)
      BY DEF WholeImage, Sane
    <2>2. i \in img.inode_bitmap
      BY <1>3, <2>1, LiveNames DEF Entry
    <2> QED
      BY <1>1, <1>3, <2>2, TypedIs, SlotIs DEF SlotBlock
  <1> HIDE DEF r, b, o
  <1>9. /\ w \in Gone(q) /\ q[w] = r[w]
        /\ \A p \in Walk(q) : w \in GapWords(q, p) => Revealed(q, p, w) = r
    BY <1>3, <1>4, <1>5, MergedRevealed
  <1>10. /\ find_entry(hid, d, n) = {} /\ Deleted(hid, d, n) # {} /\ first \in Deleted(hid, d, n)
         /\ RecordAt(hid, d, first) = Rest \/ first = e
    BY <1>2, <1>3, <1>5, <1>9, RemovedFirst
  <1>11. Same(mid, hid, Field \ {"records"}) /\ Typed(hid) /\ DirsOK(hid)
    BY <1>5 DEF BlockPut, WholeImage, Sane
  <1>12. is_inode_and_data_blocks_free(hid, i)
    <2> HIDE DEF i
    <2> QED
      BY <1>1, <1>6, <1>8, <1>11, UnlinkedFree
  <1>13. RecordAt(hid, d, e) = RecordAt(img, d, e) /\ RecordAt(hid, d, e) # Rest
    <2>1. e = <<e[1], w>>
      BY <1>1, <1>2, EntryIs
    <2>2. RecordAt(hid, d, e) = WordAt(q, w)
      BY <1>5, <1>11, <2>1, PlacesAre
    <2>3. w \in DOMAIN q /\ q[w].name # "/"
      BY <1>9 DEF Gone
    <2>4. RecordAt(hid, d, e) = r[w] /\ r[w].name # "/"
      BY <1>9, <2>2, <2>3 DEF WordAt
    <2> QED
      BY <1>3, <2>4 DEF Rest, Blank
  <1>14. ASSUME first = e PROVE new = img
    <2>1. Reclaimed(hid, back, i)
      BY <1>8, <1>11, FileReclaimed
    <2>2. Same(img, back, Field \ {"records"}) /\ back.records = hid.records
      <3> HIDE DEF i, back
      <3> QED
        BY <1>1, <1>6, <1>8, <1>11, <2>1, FileBack
    <2> HIDE DEF back
    <2>3. Typed(back) /\ back.inode[d].direct = hid.inode[d].direct
      <3>1. d \in Inode
        BY <1>1, TypedIs
      <3> QED
        BY <2>1, <3>1 DEF Reclaimed
    <2>4. PICK r2 : /\ BlockPut(back, new, SlotBlock(hid, s), r2)
                    /\ \E p \in Walk(q) : w \in GapWords(q, p) /\ r2 = Revealed(q, p, w)
      BY <1>5, <1>10, <1>11, <1>13, <1>14, <2>2, <2>3, RecordUnhidden
    <2> HIDE DEF new
    <2>5. r2 = r
      BY <1>9, <2>4
    <2>6. new.records = img.records
      <3>1. \A c \in Block : new.records[c] = IF c = b THEN r ELSE back.records[c]
        BY <1>5, <2>4, <2>5 DEF BlockPut
      <3>2. \A c \in Block : c # b => back.records[c] = mid.records[c]
        BY <1>5, <2>2 DEF BlockPut
      <3>3. mid.records = img.records /\ img.records[b] = r
        BY <1>5 DEF Unlinked, Same, SlotBlock, Content, b, r
      <3>4. new.records \in [Block -> Written] /\ img.records \in [Block -> Written]
        BY <1>1, <2>4, TypedIs DEF BlockPut
      <3>5. \A c \in Block : new.records[c] = img.records[c]
        BY <3>1, <3>2, <3>3
      <3> QED
        BY <3>4, <3>5
    <2>7. Same(back, new, Field \ {"records"}) /\ img \in Image
      BY <1>1, <2>4 DEF BlockPut, Typed
    <2> QED
      BY <2>2, <2>6, <2>7, ImagesEqual DEF Same, Field
  <1> HIDE DEF q, first, back, new, i
  <1>15. CASE RecordAt(hid, d, first) = Rest
    <2>1. restore_file(hid, d, n) = Ends(hid, "undefined")
      BY <1>10, <1>15 DEF restore_file, first
    <2> QED
      BY <1>7, <2>1
  <1>16. CASE first = e /\ ReadsText(hid, i)
    <2>1. restore_file(hid, d, n) = Ends(hid, "undefined")
      BY <1>10, <1>13, <1>16 DEF restore_file, first, i
    <2> QED
      BY <1>7, <2>1
  <1>17. CASE first = e /\ ~ReadsText(hid, i)
    <2>1. restore_file(hid, d, n) = Ends(new, "0")
      BY <1>10, <1>12, <1>13, <1>17 DEF restore_file, first, i, new, back
    <2> QED
      BY <1>7, <1>14, <1>17, <2>1
  <1> QED
    BY <1>10, <1>15, <1>16, <1>17

(* Restoring what has just been removed gives back the same image, down to *)
(* the bitmaps, the counters and the record lengths, unless the name was   *)
(* one of several of its file or the first record of its block: no older   *)
(* removed record of that name comes before it, and what rm freed is free. *)
THEOREM RestoreUndoesRemoveCorrect == Spec => []RestoreUndoesRemove
  <1>1. IInv /\ UInv /\ TInv => RestoreUndoesRemove
    <2> SUFFICES ASSUME IInv, UInv, TInv PROVE RestoreUndoesRemove
      OBVIOUS
    <2> SUFFICES ASSUME NEW d \in UsedDirectories(image), NEW n \in Given, Whole,
                        find_entry(image, d, n) # {}, First(find_entry(image, d, n))[2] # 0,
                        RecordAt(image, d, First(find_entry(image, d, n))).type # "dir",
                        image.inode[RecordAt(image, d, First(find_entry(image, d, n))).inode].links = 1
                 PROVE  restore_file(delete_file_entry(image, d, n).image, d, n) \in
                          {Ends(image, "0"), Ends(delete_file_entry(image, d, n).image, "undefined")}
      BY DEF RestoreUndoesRemove
    <2> QED
      BY RemoveUndone DEF IInv, UInv, TInv
  <1> QED
    BY <1>1, Ext2Invariant, NamesUnique, RemovedBehind, PTL
=============================================================================
