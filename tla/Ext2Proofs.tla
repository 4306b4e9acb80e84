----------------------------- MODULE Ext2Proofs -----------------------------
(***************************************************************************)
(* Proofs about the ext2 tools, for a disk of any size and any names.      *)
(***************************************************************************)
EXTENDS Ext2Properties, ProofLemmas, FiniteSetTheorems

(* A walk: Visits is well defined where every word leads to itself or on.  *)
Onward(next) == next \in [0 .. Words -> 0 .. Words] /\ \A v \in 0 .. Words : next[v] >= v

LEMMA WordsNat == Words \in Nat /\ Words >= 13
  BY SizeAssumption, DiskAssumption

LEMMA Largest ==
  ASSUME NEW S, S \subseteq 0 .. Words, S # {}
  PROVE  \E m \in S : \A n \in S : n <= m
  <1> DEFINE T == {k \in 0 .. Words : Words - k \in S}
  <1>1. T \subseteq Nat
    BY WordsNat
  <1>2. T # {}
    <2>1. PICK m \in S : TRUE
      OBVIOUS
    <2>2. Words - m \in 0 .. Words /\ Words - (Words - m) = m
      BY <2>1, WordsNat
    <2> QED
      BY <2>1, <2>2
  <1> HIDE DEF T
  <1>3. PICK k \in T : \A n \in T : k <= n
    BY <1>1, <1>2, Smallest
  <1> USE DEF T
  <1>4. Words - k \in S
    OBVIOUS
  <1>5. ASSUME NEW n \in S PROVE n <= Words - k
    <2>1. Words - n \in 0 .. Words /\ Words - (Words - n) = n
      BY WordsNat
    <2>2. k <= Words - n
      BY <1>3, <2>1
    <2> QED
      BY <2>1, <2>2, WordsNat
  <1> QED
    BY <1>4, <1>5

LEMMA VisitsExist ==
  ASSUME NEW next, Onward(next)
  PROVE  \E f : f = [v \in 0 .. Words |-> {v} \cup (IF next[v] = v THEN {} ELSE f[next[v]])]
  <1> USE WordsNat DEF Onward
  <1> DEFINE Has(u) == \E f : f = [v \in u .. Words |->
                                     {v} \cup (IF next[v] = v THEN {} ELSE f[next[v]])]
             Lack == {u \in 0 .. Words : ~Has(u)}
  <1>1. Has(Words)
    <2>1. next[Words] = Words
      OBVIOUS
    <2> DEFINE f == [v \in Words .. Words |-> {v}]
    <2>2. \A v \in Words .. Words : v = Words
      OBVIOUS
    <2>3. f = [v \in Words .. Words |-> {v} \cup (IF next[v] = v THEN {} ELSE f[next[v]])]
      BY <2>1, <2>2
    <2> HIDE DEF f
    <2> QED
      BY <2>3
  <1>2. ASSUME NEW u \in 0 .. Words - 1, Has(u + 1) PROVE Has(u)
    <2> PICK g : g = [v \in u + 1 .. Words |->
                        {v} \cup (IF next[v] = v THEN {} ELSE g[next[v]])]
      BY <1>2
    <2> DEFINE f == [v \in u .. Words |->
                       IF v = u THEN {v} \cup (IF next[v] = v THEN {} ELSE g[next[v]]) ELSE g[v]]
    <2>1. ASSUME NEW v \in u .. Words
          PROVE  f[v] = {v} \cup (IF next[v] = v THEN {} ELSE f[next[v]])
      <3>0. next[v] \in v .. Words /\ next[u] \in u .. Words
        OBVIOUS
      <3>1. CASE v = u
        <4>1. next[u] # u => f[next[u]] = g[next[u]]
          BY <3>0
        <4> QED
          BY <3>1, <4>1
      <3>2. CASE v # u
        <4>1. v \in u + 1 .. Words /\ next[v] \in u .. Words /\ next[v] # u
          BY <3>0, <3>2
        <4>2. f[v] = g[v] /\ f[next[v]] = g[next[v]]
          BY <3>2, <4>1
        <4>3. g[v] = {v} \cup (IF next[v] = v THEN {} ELSE g[next[v]])
          BY <4>1
        <4> QED
          BY <4>2, <4>3
      <3> QED
        BY <3>1, <3>2
    <2>2. f = [v \in u .. Words |-> f[v]]
      OBVIOUS
    <2> HIDE DEF f
    <2>3. f = [v \in u .. Words |-> {v} \cup (IF next[v] = v THEN {} ELSE f[next[v]])]
      BY <2>1, <2>2
    <2> QED
      BY <2>3
  <1>3. ASSUME Lack # {} PROVE FALSE
    <2>1. Lack \subseteq 0 .. Words
      OBVIOUS
    <2>2. PICK u \in Lack : \A v \in Lack : v <= u
      <3> HIDE DEF Lack
      <3> QED
        BY <1>3, <2>1, Largest
    <2>3. u \in 0 .. Words - 1 /\ u + 1 \in 0 .. Words
      <3> HIDE DEF Has
      <3>0. ~Has(u)
        OBVIOUS
      <3>1. u # Words
        BY <1>1, <3>0
      <3> QED
        BY <3>1
    <2>4. u + 1 \notin Lack
      <3> HIDE DEF Lack
      <3> QED
        BY <2>2, <2>3
    <2>5. Has(u + 1) /\ ~Has(u)
      BY <2>3, <2>4
    <2> HIDE DEF Has
    <2> QED
      BY <1>2, <2>3, <2>5
  <1>4. Lack = {}
    <2> HIDE DEF Lack
    <2> QED
      BY <1>3
  <1>5. Has(0)
    <2>1. 0 \in 0 .. Words
      OBVIOUS
    <2> HIDE DEF Has
    <2> QED
      BY <1>4, <2>1
  <1> QED
    BY <1>5

LEMMA VisitsIs ==
  ASSUME NEW next, Onward(next), NEW w \in 0 .. Words
  PROVE  Visits(next, w) = {w} \cup (IF next[w] = w THEN {} ELSE Visits(next, next[w]))
  <1> DEFINE from == CHOOSE f : f = [v \in 0 .. Words |->
                                       {v} \cup (IF next[v] = v THEN {} ELSE f[next[v]])]
  <1>1. from = [v \in 0 .. Words |-> {v} \cup (IF next[v] = v THEN {} ELSE from[next[v]])]
    BY VisitsExist, Zenon
  <1>2. Visits(next, w) = from[w] /\ Visits(next, next[w]) = from[next[w]]
    BY Zenon DEF Visits
  <1> HIDE DEF from
  <1> QED
    BY <1>1, <1>2

(* It stays in every set of words that none in it leads out of,            *)
LEMMA VisitsWithin ==
  ASSUME NEW next, Onward(next), NEW C \in SUBSET (0 .. Words),
         \A v \in C : next[v] \in C,
         NEW w \in C
  PROVE  Visits(next, w) \subseteq C
  <1> DEFINE Lack == {v \in C : ~(Visits(next, v) \subseteq C)}
  <1>1. ASSUME Lack # {} PROVE FALSE
    <2>1. PICK v \in Lack : \A u \in Lack : u <= v
      <3>1. Lack \subseteq 0 .. Words
        OBVIOUS
      <3> HIDE DEF Lack
      <3> QED
        BY <1>1, <3>1, Largest
    <2>2. Visits(next, v) = {v} \cup (IF next[v] = v THEN {} ELSE Visits(next, next[v]))
      BY VisitsIs
    <2>3. next[v] # v /\ next[v] \in Lack
      BY <2>2
    <2>4. next[v] > v /\ v \in Int /\ next[v] \in Int
      BY <2>3, WordsNat DEF Onward
    <2> HIDE DEF Lack
    <2> QED
      BY <2>1, <2>3, <2>4, WordsNat DEF Onward
  <1> QED
    BY <1>1

(* it goes on from each word it comes to,                                  *)
LEMMA VisitsClosed ==
  ASSUME NEW next, Onward(next), NEW w \in 0 .. Words
  PROVE  /\ w \in Visits(next, w) /\ Visits(next, w) \subseteq 0 .. Words
         /\ \A v \in Visits(next, w) : next[v] \in Visits(next, w)
  <1> DEFINE Lack == {u \in 0 .. Words : \E v \in Visits(next, u) : next[v] \notin Visits(next, u)}
  <1>1. ASSUME Lack # {} PROVE FALSE
    <2>1. PICK u \in Lack : \A t \in Lack : t <= u
      <3>1. Lack \subseteq 0 .. Words
        OBVIOUS
      <3> HIDE DEF Lack
      <3> QED
        BY <1>1, <3>1, Largest
    <2>2. PICK v \in Visits(next, u) : next[v] \notin Visits(next, u)
      OBVIOUS
    <2>3. u \in 0 .. Words /\ next[u] \in 0 .. Words /\ next[u] >= u
      BY DEF Onward
    <2>4. /\ Visits(next, u) = {u} \cup (IF next[u] = u THEN {} ELSE Visits(next, next[u]))
          /\ next[u] \in Visits(next, next[u])
      BY <2>3, VisitsIs
    <2>5. next[u] # u
      BY <2>2, <2>4
    <2>6. v \in Visits(next, next[u])
      BY <2>2, <2>4, <2>5
    <2>7. next[u] \in Lack
      BY <2>2, <2>3, <2>4, <2>5, <2>6
    <2> HIDE DEF Lack
    <2>8. next[u] <= u
      BY <2>1, <2>7
    <2> QED
      BY <2>3, <2>5, <2>8, WordsNat
  <1>2. w \in Visits(next, w)
    BY VisitsIs
  <1>3. Visits(next, w) \subseteq 0 .. Words
    <2>1. 0 .. Words \in SUBSET (0 .. Words) /\ \A v \in 0 .. Words : next[v] \in 0 .. Words
      BY DEF Onward
    <2> QED
      BY <2>1, VisitsWithin
  <1> QED
    BY <1>1, <1>2, <1>3

(* and leaves out none of a set in which each leads to the next.           *)
LEMMA VisitsAll ==
  ASSUME NEW next, Onward(next), NEW C \in SUBSET (0 .. Words),
         \A v \in C : next[v] \in C /\ (next[v] = v => \A x \in C : x <= v),
         \A v, x \in C : v < x => next[v] <= x,
         NEW w \in C, NEW y \in C, w <= y
  PROVE  y \in Visits(next, w)
  <1> DEFINE Lack == {v \in C : v <= y /\ y \notin Visits(next, v)}
  <1>1. ASSUME Lack # {} PROVE FALSE
    <2>1. PICK v \in Lack : \A u \in Lack : u <= v
      <3>1. Lack \subseteq 0 .. Words
        OBVIOUS
      <3> HIDE DEF Lack
      <3> QED
        BY <1>1, <3>1, Largest
    <2>2. Visits(next, v) = {v} \cup (IF next[v] = v THEN {} ELSE Visits(next, next[v]))
      BY VisitsIs
    <2>3. v \in C /\ v \in Int /\ y \in Int /\ v <= y /\ v # y
      BY <2>2
    <2>4. next[v] # v /\ next[v] <= y /\ next[v] \in C
      BY <2>3
    <2>5. next[v] \in Lack
      BY <2>2, <2>3, <2>4
    <2>6. next[v] > v /\ next[v] \in Int
      BY <2>3, <2>4, WordsNat DEF Onward
    <2> HIDE DEF Lack
    <2> QED
      BY <2>1, <2>3, <2>5, <2>6
  <1> QED
    BY <1>1
-----------------------------------------------------------------------------
(* A directory block: every word has its type, no record leaves the block, *)
(* and the words behind a header that belong to it are its own.            *)
Header(r, w) == w \in DOMAIN r /\ r[w].name # "/"

Behind(r, w) == w + actual_len(r[w].name)

BlockOK(r) ==
  /\ r \in Written
  /\ \A w \in DOMAIN r :
       /\ w + r[w].rec_len <= Words
       /\ IF r[w].name = "/" THEN r[w] = Rest
          ELSE \A v \in w + 1 .. Behind(r, w) - 1 : v \in DOMAIN r /\ r[v].name = "/"

(* C are headers, each behind the one before, from 0 to the block's end    *)
Chain(r, C) ==
  /\ 0 \in C
  /\ \A w \in C : Header(r, w) /\ Behind(r, w) <= w + r[w].rec_len
  /\ \A w \in C : w + r[w].rec_len \in C \cup {Words}
  /\ \A v, w \in C : v < w => v + r[v].rec_len <= w

LEMMA WrittenIs ==
  ASSUME NEW r
  PROVE  r \in Written <=> \E h \in 0 .. Words : r \in [0 .. h - 1 -> Record]
  BY DEF Written

LEMMA LengthIs == \A n : actual_len(n) \in 3 .. 4
  BY DEF actual_len

LEMMA BlockDomain ==
  ASSUME NEW r, r \in Written
  PROVE  /\ DOMAIN r \subseteq 0 .. Words - 1
         /\ \A w \in DOMAIN r : r[w] \in Record /\ (\A v \in 0 .. w : v \in DOMAIN r)
  <1>1. PICK h \in 0 .. Words : r \in [0 .. h - 1 -> Record]
    BY WrittenIs
  <1> QED
    BY <1>1, WordsNat

LEMMA RecordIs ==
  /\ \A w : w \in Record =>
       /\ w.inode \in Inode \cup {0} /\ w.rec_len \in 0 .. Words
       /\ w.name \in Name \cup {"", ".", "..", "/"} /\ w.type \in Type
  /\ Blank \in Record /\ Rest \in Record
  /\ Blank.rec_len = 0 /\ Blank.inode = 0 /\ Rest.rec_len = 0 /\ Rest.inode = 0 /\ Rest.name = "/"
  <1>1. 0 \in 0 .. Words
    BY WordsNat
  <1>2. Blank \in Record /\ Blank.rec_len = 0 /\ Blank.inode = 0
    BY <1>1 DEF Record, Blank, Type
  <1>3. Rest \in Record
    BY <1>2, Zenon DEF Rest, Record
  <1>4. Rest.rec_len = 0 /\ Rest.inode = 0 /\ Rest.name = "/"
    BY DEF Rest, Blank
  <1> QED
    BY <1>2, <1>3, <1>4, Zenon DEF Record

Step(r) == [w \in 0 .. Words |-> w + WordAt(r, w).rec_len]

LEMMA StepOnward ==
  ASSUME NEW r, BlockOK(r)
  PROVE  Onward(Step(r))
  <1>1. ASSUME NEW w \in 0 .. Words
        PROVE  w + WordAt(r, w).rec_len \in w .. Words
    <2>1. CASE w \in DOMAIN r
      <3>1. r[w].rec_len \in 0 .. Words /\ w + r[w].rec_len <= Words
        BY <2>1, BlockDomain, RecordIs, Zenon DEF BlockOK
      <3> QED
        BY <2>1, <3>1, WordsNat DEF WordAt
    <2>2. CASE w \notin DOMAIN r
      <3>1. WordAt(r, w).rec_len = 0
        BY <2>2, RecordIs, Zenon DEF WordAt
      <3> QED
        BY <3>1, WordsNat
    <2> QED
      BY <2>1, <2>2
  <1> QED
    BY <1>1, WordsNat DEF Onward, Step

LEMMA WalkWithin ==
  ASSUME NEW r, BlockOK(r)
  PROVE  Walk(r) \subseteq 0 .. Words - 1
  <1>1. Visits(Step(r), 0) \subseteq 0 .. Words
    <2>1. Onward(Step(r))
      BY StepOnward
    <2>2. \A v \in 0 .. Words : Step(r)[v] \in 0 .. Words
      BY <2>1 DEF Onward
    <2>3. 0 .. Words \in SUBSET (0 .. Words) /\ 0 \in 0 .. Words
      BY WordsNat
    <2> HIDE DEF Step
    <2> QED
      BY <2>1, <2>2, <2>3, VisitsWithin
  <1>2. Walk(r) = Visits(Step(r), 0) \ {Words}
    BY DEF Walk, Step
  <1> QED
    BY <1>1, <1>2, WordsNat

LEMMA ChainIsWalk ==
  ASSUME NEW r, BlockOK(r), NEW C, Chain(r, C)
  PROVE  Walk(r) = C
  <1> DEFINE D == C \cup {Words}
             next == Step(r)
  <1>1. C \subseteq 0 .. Words - 1 /\ C \subseteq DOMAIN r
    BY BlockDomain DEF Chain, BlockOK, Header
  <1>2. D \in SUBSET (0 .. Words) /\ 0 \in D
    BY <1>1, WordsNat DEF Chain
  <1>3. Onward(next)
    BY StepOnward
  <1>4. \A w \in C : next[w] = w + r[w].rec_len /\ next[w] > w
    <2> TAKE w \in C
    <2>1. w \in DOMAIN r /\ r[w].rec_len \in Nat /\ Behind(r, w) <= w + r[w].rec_len
      <3>1. w \in DOMAIN r /\ r[w] \in Record
        BY <1>1, BlockDomain DEF BlockOK
      <3>2. r[w].rec_len \in Nat
        <4>1. r[w].rec_len \in 0 .. Words
          BY <3>1, RecordIs, Zenon
        <4> QED
          BY <4>1, WordsNat
      <3> QED
        BY <3>1, <3>2 DEF Chain
    <2>2. r[w].rec_len > 0
      BY <1>1, <2>1, LengthIs DEF Behind
    <2> QED
      BY <1>1, <2>1, <2>2, WordsNat DEF Step, WordAt
  <1>5. next[Words] = Words
    BY <1>3, WordsNat DEF Onward
  <1>6. \A w \in D : next[w] \in D
    BY <1>4, <1>5 DEF Chain
  <1>7. \A w \in D : next[w] = w => \A x \in D : x <= w
    BY <1>1, <1>2, <1>4, WordsNat
  <1>8. \A v, w \in D : v < w => next[v] <= w
    <2> TAKE v, w \in D
    <2> HAVE v < w
    <2>1. v \in C
      BY <1>1, WordsNat
    <2>2. CASE w \in C
      BY <1>4, <2>1, <2>2 DEF Chain
    <2>3. CASE w = Words
      BY <1>3, <1>2, <2>3, WordsNat DEF Onward
    <2> QED
      BY <2>2, <2>3
  <1>9. Walk(r) = Visits(next, 0) \ {Words}
    BY DEF Walk, Step
  <1> HIDE DEF next, D
  <1>10. Visits(next, 0) \subseteq D
    BY <1>2, <1>3, <1>6, VisitsWithin
  <1>11. \A y \in D : y \in Visits(next, 0)
    <2> TAKE y \in D
    <2>1. 0 <= y
      BY <1>2
    <2> QED
      BY <1>2, <1>3, <1>6, <1>7, <1>8, <2>1, VisitsAll
  <1>12. C = D \ {Words}
    BY <1>1, WordsNat DEF D
  <1> QED
    BY <1>9, <1>10, <1>11, <1>12
-----------------------------------------------------------------------------
(* What the tools write into a block: a record over one of the same name,  *)
(* or a record and the words its name takes.                               *)
Fill(r, x, record) ==
  [w \in DOMAIN r \cup {x} \cup (x + 1 .. x + actual_len(record.name) - 1) |->
     IF w = x THEN record
     ELSE IF w \in x + 1 .. x + actual_len(record.name) - 1 THEN Rest ELSE r[w]]

LEMMA RecastOK ==
  ASSUME NEW r, BlockOK(r), NEW x, Header(r, x),
         NEW record \in Record, record.name = r[x].name, x + record.rec_len <= Words
  PROVE  BlockOK([r EXCEPT ![x] = record])
  <1> DEFINE new == [r EXCEPT ![x] = record]
  <1>1. x \in DOMAIN r /\ record.name # "/"
    BY DEF Header
  <1>2. new \in Written
    <2>1. PICK h \in 0 .. Words : r \in [0 .. h - 1 -> Record]
      BY WrittenIs DEF BlockOK
    <2>2. new \in [0 .. h - 1 -> Record]
      BY <2>1
    <2> QED
      BY <2>2, WrittenIs
  <1>3. DOMAIN new = DOMAIN r /\ new[x] = record /\ \A w \in DOMAIN r : w # x => new[w] = r[w]
    BY <1>1
  <1> HIDE DEF new
  <1>4. \A w \in DOMAIN r : new[w].name = r[w].name
    BY <1>1, <1>3
  <1>5. ASSUME NEW w \in DOMAIN new
        PROVE  /\ w + new[w].rec_len <= Words
               /\ IF new[w].name = "/" THEN new[w] = Rest
                  ELSE \A v \in w + 1 .. Behind(new, w) - 1 : v \in DOMAIN new /\ new[v].name = "/"
    <2>1. Behind(new, w) = Behind(r, w)
      BY <1>3, <1>4 DEF Behind
    <2>2. CASE w = x
      BY <1>1, <1>3, <1>4, <2>1, <2>2 DEF BlockOK
    <2>3. CASE w # x
      BY <1>1, <1>3, <1>4, <2>1, <2>3 DEF BlockOK
    <2> QED
      BY <2>2, <2>3
  <1> QED
    BY <1>2, <1>5 DEF BlockOK, new

LEMMA FillOK ==
  ASSUME NEW r, BlockOK(r), NEW x \in 0 .. Words - 1, x = 0 \/ x - 1 \in DOMAIN r,
         \A p \in DOMAIN r : Header(r, p) /\ p < x => Behind(r, p) <= x,
         NEW record \in Record, record.name # "/",
         x + record.rec_len <= Words, x + actual_len(record.name) <= Words
  PROVE  /\ BlockOK(Fill(r, x, record)) /\ x \in DOMAIN Fill(r, x, record)
         /\ Fill(r, x, record)[x] = record
         /\ \A w \in DOMAIN r : w < x \/ w >= x + actual_len(record.name) =>
              w \in DOMAIN Fill(r, x, record) /\ Fill(r, x, record)[w] = r[w]
  <1> DEFINE new == Fill(r, x, record)
             n == actual_len(record.name)
             after == x + 1 .. x + n - 1
  <1>1. n \in 3 .. 4
    BY LengthIs
  <1>2. PICK h \in 0 .. Words : r \in [0 .. h - 1 -> Record]
    BY WrittenIs DEF BlockOK
  <1>3. x <= h
    BY <1>2
  <1>4. /\ DOMAIN new = DOMAIN r \cup {x} \cup after /\ new[x] = record
        /\ \A w \in after : new[w] = Rest
        /\ \A w \in DOMAIN r : w # x /\ w \notin after => new[w] = r[w]
    <2> HIDE DEF n
    <2> QED
      BY <1>1 DEF Fill, n
  <1>5. new = [w \in DOMAIN new |-> new[w]]
    BY DEF Fill
  <1> HIDE DEF new
  <1>6. new \in Written
    <2>1. PICK e \in 0 .. Words : e >= h /\ e >= x + n /\ (e = h \/ e = x + n)
      <3>1. CASE h >= x + n
        BY <1>1, <3>1, WordsNat
      <3>2. CASE h < x + n
        BY <1>1, <3>2, WordsNat
      <3> QED
        BY <1>1, <3>1, <3>2, WordsNat
    <2>2. DOMAIN new = 0 .. e - 1
      <3>1. DOMAIN r = 0 .. h - 1
        BY <1>2
      <3> HIDE DEF n
      <3> QED
        BY <1>1, <1>3, <1>4, <2>1, <3>1, WordsNat
    <2>3. \A w \in DOMAIN new : new[w] \in Record
      <3> HIDE DEF n, after
      <3> QED
        BY <1>2, <1>4, RecordIs, Zenon
    <2>4. new \in [0 .. e - 1 -> Record]
      BY <1>5, <2>2, <2>3
    <2> QED
      BY <2>4, WrittenIs
  <1>7. ASSUME NEW w \in DOMAIN new
        PROVE  /\ w + new[w].rec_len <= Words
               /\ IF new[w].name = "/" THEN new[w] = Rest
                  ELSE \A v \in w + 1 .. Behind(new, w) - 1 : v \in DOMAIN new /\ new[v].name = "/"
    <2>1. CASE w = x
      <3>1. Behind(new, w) = x + n
        BY <1>4, <2>1 DEF Behind
      <3>2. \A v \in after : v \in DOMAIN new /\ new[v].name = "/"
        BY <1>4, RecordIs, Zenon
      <3>3. new[w].name # "/" /\ w + new[w].rec_len <= Words
        BY <1>4, <2>1
      <3>4. \A v \in w + 1 .. Behind(new, w) - 1 : v \in after
        <4> HIDE DEF n
        <4> QED
          BY <1>1, <2>1, <3>1, WordsNat
      <3> HIDE DEF n, after
      <3> QED
        BY <3>2, <3>3, <3>4
    <2>2. CASE w \in after
      <3>1. new[w] = Rest /\ w \in Int /\ w <= Words
        BY <1>1, <1>4, <2>2, WordsNat
      <3>2. w + Rest.rec_len = w
        <4>1. Rest.rec_len = 0
          BY RecordIs, Zenon
        <4> QED
          BY <3>1, <4>1
      <3>3. new[w].name = "/"
        BY <3>1, RecordIs, Zenon
      <3> QED
        BY <3>1, <3>2, <3>3
    <2>3. CASE w # x /\ w \notin after
      <3>1. w \in DOMAIN r /\ new[w] = r[w] /\ Behind(new, w) = Behind(r, w)
        BY <1>4, <2>3 DEF Behind
      <3>2. ASSUME r[w].name # "/", NEW v \in w + 1 .. Behind(r, w) - 1
            PROVE  v \in DOMAIN new /\ new[v].name = "/"
        <4>1. v \in DOMAIN r /\ r[v].name = "/"
          BY <3>1, <3>2 DEF BlockOK
        <4>2. w \in 0 .. Words /\ Behind(r, w) \in Int /\ (w < x => Behind(r, w) <= x)
          <5>1. w \in 0 .. Words
            BY <3>1, BlockDomain, WordsNat DEF BlockOK
          <5> QED
            BY <3>1, <3>2, <5>1, LengthIs DEF Header, Behind
        <4>3. v # x
          BY <1>1, <2>3, <4>2
        <4> QED
          BY <1>4, <4>1, <4>3, RecordIs, Zenon
      <3>3. w + r[w].rec_len <= Words /\ (r[w].name = "/" => r[w] = Rest)
        BY <3>1 DEF BlockOK
      <3> QED
        BY <3>1, <3>2, <3>3
    <2> QED
      BY <2>1, <2>2, <2>3
  <1>8. \A w \in DOMAIN r : w < x \/ w >= x + n => w \in DOMAIN new /\ new[w] = r[w]
    <2> TAKE w \in DOMAIN r
    <2> HAVE w < x \/ w >= x + n
    <2>1. w \in Int
      BY <1>2
    <2>2. w # x /\ w \notin after
      BY <1>1, <2>1
    <2> QED
      BY <1>4, <2>2
  <1> QED
    BY <1>4, <1>6, <1>7, <1>8 DEF BlockOK, new
-----------------------------------------------------------------------------
(* What every directory block is, and what becomes of its live records     *)
Live(r) == {w \in Walk(r) : WordAt(r, w).inode # 0}

DirBlock(r) == BlockOK(r) /\ Chain(r, Walk(r))

SameEntry(p, q) == p.inode = q.inode /\ p.name = q.name /\ p.type = q.type

(* the headers of removed records                                          *)
Gone(r) == {w \in DOMAIN r \ Walk(r) : r[w].name # "/" /\ r[w].inode # 0}

GoneFrom(r, new) == \A v \in Gone(new) : v \in Gone(r) /\ new[v].name = r[v].name

(* new is r with one record more, or with one less                         *)
Adds(r, new, x, record) ==
  /\ DirBlock(new) /\ x \notin Live(r) /\ Live(new) = Live(r) \cup {x}
  /\ SameEntry(new[x], record)
  /\ \A w \in Live(r) : SameEntry(new[w], r[w])
  /\ GoneFrom(r, new)

Drops(r, new, x) ==
  /\ DirBlock(new) /\ x \in Live(r) /\ Live(new) = Live(r) \ {x}
  /\ \A w \in Live(new) : SameEntry(new[w], r[w])
  /\ \A v \in Gone(new) : v \in Gone(r) \cup {x} /\ new[v].name = r[v].name

LEMMA DirBlockWords ==
  ASSUME NEW r, DirBlock(r)
  PROVE  /\ Walk(r) \subseteq DOMAIN r /\ Walk(r) \subseteq 0 .. Words - 1
         /\ \A w \in Walk(r) : /\ r[w] \in Record /\ r[w].name # "/"
                               /\ r[w].rec_len \in 3 .. Words
                               /\ w + actual_len(r[w].name) <= w + r[w].rec_len
                               /\ w + r[w].rec_len <= Words
         /\ Live(r) = {w \in Walk(r) : r[w].inode # 0}
  <1>1. Walk(r) \subseteq DOMAIN r /\ Walk(r) \subseteq 0 .. Words - 1
    BY WalkWithin DEF DirBlock, Chain, Header
  <1>2. ASSUME NEW w \in Walk(r)
        PROVE  /\ r[w] \in Record /\ r[w].name # "/"
               /\ r[w].rec_len \in 3 .. Words
               /\ w + actual_len(r[w].name) <= w + r[w].rec_len
               /\ w + r[w].rec_len <= Words
    <2>1. w \in DOMAIN r /\ w \in Int /\ r[w] \in Record /\ r[w].name # "/"
      BY <1>1, BlockDomain DEF DirBlock, BlockOK, Chain, Header
    <2>2. r[w].rec_len \in 0 .. Words
      BY <2>1, RecordIs, Zenon
    <2>3. w + actual_len(r[w].name) <= w + r[w].rec_len
      BY DEF DirBlock, Chain, Behind
    <2>4. w + r[w].rec_len <= Words
      BY <2>1 DEF DirBlock, BlockOK
    <2>5. actual_len(r[w].name) \in 3 .. 4
      BY LengthIs
    <2>6. r[w].rec_len \in 3 .. Words
      BY <2>1, <2>2, <2>3, <2>5, WordsNat
    <2> QED
      BY <2>1, <2>3, <2>4, <2>6
  <1>3. Live(r) = {w \in Walk(r) : r[w].inode # 0}
    BY <1>1 DEF Live, WordAt
  <1> QED
    BY <1>1, <1>2, <1>3

(* Headers do not overlap.                                                 *)
LEMMA HeaderBefore ==
  ASSUME NEW r, BlockOK(r), NEW x, Header(r, x), NEW p, Header(r, p), p < x
  PROVE  Behind(r, p) <= x
  <1>1. p \in 0 .. Words - 1 /\ x \in 0 .. Words - 1
    BY BlockDomain DEF BlockOK, Header
  <1>2. actual_len(r[p].name) \in 3 .. 4
    BY LengthIs
  <1>3. Behind(r, p) \in Int
    BY <1>1, <1>2, WordsNat DEF Behind
  <1>4. x \notin p + 1 .. Behind(r, p) - 1
    BY DEF BlockOK, Header
  <1> QED
    BY <1>1, <1>3, <1>4, WordsNat

LEMMA HeaderInside ==
  ASSUME NEW r, BlockOK(r), NEW p, Header(r, p)
  PROVE  Behind(r, p) \in p + 3 .. Words /\ Behind(r, p) - 1 \in DOMAIN r
  <1>1. p \in 0 .. Words - 1 /\ DOMAIN r \subseteq 0 .. Words - 1
    BY BlockDomain DEF BlockOK, Header
  <1>2. actual_len(r[p].name) \in 3 .. 4
    BY LengthIs
  <1>3. Behind(r, p) \in p + 3 .. p + 4
    BY <1>1, <1>2, WordsNat DEF Behind
  <1>4. Behind(r, p) - 1 \in p + 1 .. Behind(r, p) - 1
    BY <1>1, <1>3
  <1>5. Behind(r, p) - 1 \in DOMAIN r
    BY <1>4 DEF BlockOK, Header
  <1>6. Behind(r, p) - 1 \in 0 .. Words - 1
    BY <1>1, <1>5
  <1> QED
    BY <1>1, <1>3, <1>5, <1>6, WordsNat

(* A record takes the place of one that is not used,                       *)
LEMMA FillAdds ==
  ASSUME NEW r, DirBlock(r), NEW x \in Walk(r), r[x].inode = 0,
         NEW record \in Record, record.name # "/", record.inode # 0,
         record.rec_len = r[x].rec_len, actual_len(record.name) <= r[x].rec_len
  PROVE  Adds(r, Fill(r, x, record), x, record)
  <1> DEFINE new == Fill(r, x, record)
             W == Walk(r)
  <1>1. /\ W \subseteq DOMAIN r /\ x \in 0 .. Words - 1 /\ x \in DOMAIN r
        /\ x + r[x].rec_len <= Words /\ r[x].rec_len \in 3 .. Words
    BY DirBlockWords
  <1>2. actual_len(record.name) \in 3 .. 4
    BY LengthIs
  <1>3. x = 0 \/ x - 1 \in DOMAIN r
    BY <1>1, BlockDomain DEF DirBlock, BlockOK
  <1>4. \A p \in DOMAIN r : Header(r, p) /\ p < x => Behind(r, p) <= x
    BY HeaderBefore DEF DirBlock, Chain
  <1>5. /\ BlockOK(new) /\ x \in DOMAIN new /\ new[x] = record
        /\ \A w \in DOMAIN r : w < x \/ w >= x + actual_len(record.name) =>
              w \in DOMAIN new /\ new[w] = r[w]
    <2>1. BlockOK(r) /\ x + record.rec_len <= Words /\ x + actual_len(record.name) <= Words
      BY <1>1, <1>2, WordsNat DEF DirBlock
    <2> QED
      BY <1>1, <1>3, <1>4, <2>1, FillOK
  <1> HIDE DEF new
  <1>6. \A w \in W : w # x => w \in DOMAIN new /\ new[w] = r[w]
    <2> TAKE w \in W
    <2> HAVE w # x
    <2>1. w \in Int /\ w \in DOMAIN r
      BY DirBlockWords
    <2>2. x < w => x + r[x].rec_len <= w
      BY DEF DirBlock, Chain
    <2>3. w < x \/ w >= x + actual_len(record.name)
      BY <1>1, <1>2, <2>1, <2>2
    <2> QED
      BY <1>5, <2>1, <2>3
  <1>7. Chain(new, W)
    <2>1. \A w \in W : new[w].rec_len = r[w].rec_len
      BY <1>5, <1>6
    <2>2. \A w \in W : Header(new, w) /\ Behind(new, w) <= w + new[w].rec_len
      <3> TAKE w \in W
      <3>1. CASE w = x
        BY <1>1, <1>2, <1>5, <3>1 DEF Header, Behind
      <3>2. CASE w # x
        BY <1>6, <3>2 DEF DirBlock, Chain, Header, Behind
      <3> QED
        BY <3>1, <3>2
    <2> QED
      BY <2>1, <2>2 DEF DirBlock, Chain
  <1>8. Walk(new) = W
    BY <1>5, <1>7, ChainIsWalk
  <1>9. DirBlock(new)
    BY <1>5, <1>7, <1>8 DEF DirBlock
  <1>10. Live(new) = {w \in W : new[w].inode # 0} /\ Live(r) = {w \in W : r[w].inode # 0}
    BY <1>8, <1>9, DirBlockWords
  <1>11. x \notin Live(r) /\ Live(new) = Live(r) \cup {x}
    BY <1>5, <1>6, <1>10
  <1>12. \A w \in Live(r) : new[w] = r[w]
    BY <1>6, <1>10
  <1>13. GoneFrom(r, new)
    <2> SUFFICES ASSUME NEW v \in Gone(new)
                 PROVE  v \in Gone(r) /\ new[v].name = r[v].name
      BY DEF GoneFrom
    <2>1. v \in DOMAIN new /\ v \notin W /\ new[v].name # "/" /\ new[v].inode # 0
      BY <1>8 DEF Gone
    <2>2. v \in DOMAIN r /\ new[v] = r[v]
      BY <2>1, RecordIs DEF Fill, new
    <2> QED
      BY <2>1, <2>2 DEF Gone
  <1> QED
    BY <1>5, <1>9, <1>11, <1>12, <1>13 DEF Adds, SameEntry, new

(* or what another one does not need of its own,                           *)
LEMMA SplitAdds ==
  ASSUME NEW r, DirBlock(r), NEW w \in Walk(r),
         NEW record \in Record, record.name # "/", record.inode # 0,
         record.rec_len = r[w].rec_len - actual_len(r[w].name),
         actual_len(record.name) <= record.rec_len
  PROVE  LET short == [r EXCEPT ![w] = [r[w] EXCEPT !.rec_len = actual_len(r[w].name)]]
             x == w + actual_len(r[w].name)
         IN BlockOK(short) /\ Adds(r, Fill(short, x, record), x, record)
  <1> DEFINE kept == actual_len(r[w].name)
             x == w + kept
             short == [r EXCEPT ![w] = [r[w] EXCEPT !.rec_len = kept]]
             new == Fill(short, x, record)
             W == Walk(r)
             C == W \cup {x}
             end == w + r[w].rec_len
  <1>1. kept \in 3 .. 4 /\ actual_len(record.name) \in 3 .. 4
    BY LengthIs
  <1>2. /\ W \subseteq DOMAIN r /\ W \subseteq 0 .. Words - 1 /\ r[w] \in Record /\ r[w].name # "/"
        /\ r[w].rec_len \in 3 .. Words /\ end <= Words
    BY DirBlockWords
  <1>3. Behind(r, w) = x /\ Header(r, w) /\ BlockOK(r)
    BY <1>2 DEF Behind, Header, DirBlock
  <1>4. x \in 0 .. Words - 1 /\ x + actual_len(record.name) <= end /\ x + record.rec_len = end
        /\ w < x /\ x < end
    <2> HIDE DEF kept
    <2> QED
      BY <1>1, <1>2, WordsNat DEF kept
  <1>5. /\ BlockOK(short) /\ DOMAIN short = DOMAIN r /\ short[w].rec_len = kept
        /\ SameEntry(short[w], r[w]) /\ \A v \in DOMAIN r : v # w => short[v] = r[v]
    <2> DEFINE cut == [r[w] EXCEPT !.rec_len = kept]
    <2>1. /\ cut \in Record /\ cut.rec_len = kept /\ cut.inode = r[w].inode
          /\ cut.name = r[w].name /\ cut.type = r[w].type
      <3>1. kept \in 0 .. Words
        BY <1>1, WordsNat
      <3> HIDE DEF kept
      <3> QED
        BY <1>2, <3>1, Zenon DEF Record
    <2>2. w \in DOMAIN r /\ w + cut.rec_len <= Words
      BY <1>2, <1>4, <2>1, WordsNat
    <2> HIDE DEF cut
    <2>3. BlockOK([r EXCEPT ![w] = cut])
      BY <1>3, <2>1, <2>2, RecastOK
    <2>4. short = [r EXCEPT ![w] = cut]
      BY DEF cut
    <2> QED
      BY <2>1, <2>2, <2>3, <2>4 DEF SameEntry
  <1> HIDE DEF short
  <1>6. /\ BlockOK(new) /\ x \in DOMAIN new /\ new[x] = record
        /\ \A v \in DOMAIN r : v < x \/ v >= x + actual_len(record.name) =>
              v \in DOMAIN new /\ new[v] = short[v]
    <2>1. x - 1 \in DOMAIN short
      BY <1>3, <1>5, HeaderInside
    <2>2. \A p \in DOMAIN short : Header(short, p) /\ p < x => Behind(short, p) <= x
      <3> TAKE p \in DOMAIN short
      <3> HAVE Header(short, p) /\ p < x
      <3>1. Header(r, p) /\ Behind(short, p) = Behind(r, p)
        BY <1>5 DEF Header, Behind, SameEntry
      <3>2. CASE p < w
        <4>1. Behind(r, p) <= w /\ Behind(r, p) \in Int
          BY <1>3, <3>1, <3>2, HeaderBefore, HeaderInside
        <4> QED
          BY <1>2, <1>4, <3>1, <4>1
      <3>3. CASE p = w
        BY <1>3, <3>1, <3>3, <1>4
      <3>4. CASE p > w
        <4>1. x <= p
          BY <1>3, <3>1, <3>4, HeaderBefore
        <4> QED
          BY <1>4, <3>1, <4>1, <1>3, BlockDomain DEF BlockOK, Header
      <3> QED
        BY <1>2, <1>3, <3>1, <3>2, <3>3, <3>4, BlockDomain DEF BlockOK, Header
    <2>3. x + record.rec_len <= Words /\ x + actual_len(record.name) <= Words
      BY <1>1, <1>2, <1>4, WordsNat
    <2> HIDE DEF x
    <2> QED
      BY <1>4, <1>5, <2>1, <2>2, <2>3, FillOK
  <1> HIDE DEF new
  <1>7. \A v \in W : v # w => v \in DOMAIN new /\ new[v] = r[v] /\ (v > w => v >= end)
    <2> TAKE v \in W
    <2> HAVE v # w
    <2>1. v \in Int /\ w \in Int /\ v \in DOMAIN r
      BY <1>2
    <2>2. v > w => v >= end
      BY <2>1 DEF DirBlock, Chain
    <2>3. v < x \/ v >= x + actual_len(record.name)
      BY <1>1, <1>2, <1>4, <2>1, <2>2
    <2> QED
      BY <1>5, <1>6, <2>1, <2>2, <2>3
  <1>8. new[w].rec_len = kept /\ SameEntry(new[w], r[w]) /\ w \in DOMAIN new
    BY <1>2, <1>4, <1>5, <1>6
  <1>9. x \notin W
    BY <1>2, <1>4, <1>7
  <1>10. Chain(new, C)
    <2>1. \A v \in C : Header(new, v) /\ Behind(new, v) <= v + new[v].rec_len
      <3> TAKE v \in C
      <3>1. CASE v = w
        <4>1. Header(new, w)
          BY <1>2, <1>8 DEF Header, SameEntry
        <4>2. Behind(new, w) = w + new[w].rec_len /\ Behind(new, w) \in Int
          BY <1>2, <1>4, <1>8 DEF Behind, SameEntry
        <4> QED
          BY <3>1, <4>1, <4>2
      <3>2. CASE v = x
        <4>1. actual_len(record.name) <= record.rec_len
          OBVIOUS
        <4>2. x + actual_len(record.name) <= x + record.rec_len
          BY <1>1, <1>4
        <4> QED
          BY <1>6, <3>2, <4>2 DEF Header, Behind
      <3>3. CASE v \in W /\ v # w
        BY <1>7, <3>3 DEF DirBlock, Chain, Header, Behind
      <3> QED
        BY <3>1, <3>2, <3>3
    <2>2. \A v \in C : v + new[v].rec_len \in C \cup {Words}
      <3> TAKE v \in C
      <3>1. CASE v = w
        BY <1>8, <3>1
      <3>2. CASE v = x
        BY <1>4, <1>6, <3>2 DEF DirBlock, Chain
      <3>3. CASE v \in W /\ v # w
        BY <1>7, <3>3 DEF DirBlock, Chain
      <3> QED
        BY <3>1, <3>2, <3>3
    <2>3. \A v, u \in C : v < u => v + new[v].rec_len <= u
      <3> TAKE v, u \in C
      <3> HAVE v < u
      <3>0. v \in 0 .. Words /\ u \in 0 .. Words
        BY <1>2, <1>4, WordsNat
      <3>1. CASE v = w
        <4>1. u = x \/ u >= end
          BY <1>7, <3>1, <1>2, <1>4, <3>0
        <4> QED
          BY <1>8, <3>0, <3>1, <4>1, <1>4, <1>2
      <3>2. CASE v = x
        <4>1. u \in W /\ u # w /\ u > w
          BY <1>2, <1>4, <3>0, <3>2
        <4> QED
          BY <1>4, <1>6, <1>7, <3>2, <4>1
      <3>3. CASE v \in W /\ v # w /\ u \in W
        BY <1>7, <3>3 DEF DirBlock, Chain
      <3>4. CASE v \in W /\ v # w /\ u = x
        <4>1. v < w
          BY <1>2, <1>4, <1>7, <3>0, <3>4
        <4>2. v + r[v].rec_len <= w /\ r[v].rec_len \in 3 .. Words
          BY <3>4, <4>1, DirBlockWords DEF DirBlock, Chain
        <4> QED
          BY <1>2, <1>4, <1>7, <3>0, <3>4, <4>2, WordsNat
      <3> QED
        BY <3>1, <3>2, <3>3, <3>4
    <2>4. 0 \in C
      BY DEF DirBlock, Chain
    <2> HIDE DEF C
    <2> QED
      BY <2>1, <2>2, <2>3, <2>4 DEF Chain
  <1>11. Walk(new) = C
    <2> HIDE DEF C
    <2> QED
      BY <1>6, <1>10, ChainIsWalk
  <1>12. DirBlock(new)
    BY <1>6, <1>10, <1>11 DEF DirBlock
  <1>13. Live(new) = {v \in C : new[v].inode # 0} /\ Live(r) = {v \in W : r[v].inode # 0}
    BY <1>11, <1>12, DirBlockWords
  <1>14. \A v \in W : SameEntry(new[v], r[v])
    BY <1>7, <1>8 DEF SameEntry
  <1>15. x \notin Live(r) /\ Live(new) = Live(r) \cup {x}
    BY <1>6, <1>9, <1>13, <1>14 DEF SameEntry
  <1>16. GoneFrom(r, new)
    <2> SUFFICES ASSUME NEW v \in Gone(new)
                 PROVE  v \in Gone(r) /\ new[v].name = r[v].name
      BY DEF GoneFrom
    <2>1. v \in DOMAIN new /\ v \notin C /\ new[v].name # "/" /\ new[v].inode # 0
      BY <1>11 DEF Gone
    <2>2. v \in DOMAIN short /\ new[v] = short[v]
      BY <2>1, RecordIs DEF Fill, new
    <2>3. v \in DOMAIN r /\ new[v] = r[v] /\ v \notin W
      BY <1>5, <2>1, <2>2
    <2> QED
      BY <2>1, <2>3 DEF Gone
  <1>17. Adds(r, new, x, record)
    BY <1>6, <1>12, <1>13, <1>14, <1>15, <1>16 DEF Adds, SameEntry
  <1> QED
    BY <1>5, <1>17 DEF new, short

(* or the whole of a block that held none.                                 *)
LEMMA NewAdds ==
  ASSUME NEW record \in Record, record.name # "/", record.inode # 0, record.rec_len = Words
  PROVE  LET new == Fill(<<>>, 0, record)
         IN DirBlock(new) /\ Live(new) = {0} /\ new[0] = record /\ Gone(new) = {}
  <1> DEFINE new == Fill(<<>>, 0, record)
  <1>1. BlockOK(<<>>)
    <2>1. <<>> \in [0 .. 0 - 1 -> Record] /\ DOMAIN <<>> = {}
      OBVIOUS
    <2>2. <<>> \in Written
      <3>1. 0 \in 0 .. Words
        BY WordsNat
      <3> QED
        BY <2>1, <3>1, WrittenIs
    <2> QED
      BY <2>1, <2>2 DEF BlockOK
  <1>2. BlockOK(new) /\ 0 \in DOMAIN new /\ new[0] = record
    <2>1. actual_len(record.name) \in 3 .. 4
      BY LengthIs
    <2>2. 0 \in 0 .. Words - 1 /\ 0 + record.rec_len <= Words /\ 0 + actual_len(record.name) <= Words
      BY <2>1, WordsNat
    <2> QED
      BY <1>1, <2>2, FillOK
  <1> HIDE DEF new
  <1>3. Chain(new, {0})
    <2>1. actual_len(record.name) \in 3 .. 4
      BY LengthIs
    <2> QED
      BY <1>2, <2>1, WordsNat DEF Chain, Header, Behind
  <1>4. Walk(new) = {0}
    BY <1>2, <1>3, ChainIsWalk
  <1>5. DirBlock(new)
    BY <1>2, <1>3, <1>4 DEF DirBlock
  <1>6. Live(new) = {0}
    BY <1>2, <1>4, <1>5, DirBlockWords
  <1>7. ASSUME NEW v \in DOMAIN new, v # 0 PROVE new[v].name = "/"
    <2> DEFINE after == 0 + 1 .. 0 + actual_len(record.name) - 1
    <2>1. DOMAIN <<>> = {} /\ new = [u \in DOMAIN <<>> \cup {0} \cup after |->
                                     IF u = 0 THEN record ELSE IF u \in after THEN Rest ELSE <<>>[u]]
      BY DEF Fill, new
    <2> HIDE DEF after
    <2>2. new[v] = Rest
      BY <1>7, <2>1
    <2> QED
      BY <2>2, RecordIs
  <1>8. Gone(new) = {}
    BY <1>4, <1>7 DEF Gone
  <1> QED
    BY <1>2, <1>5, <1>6, <1>8 DEF new

(* The first record of a block loses its inode, *)
LEMMA ClearDrops ==
  ASSUME NEW r, DirBlock(r), 0 \in Live(r)
  PROVE  Drops(r, [r EXCEPT ![0] = [r[0] EXCEPT !.inode = 0]], 0)
  <1> DEFINE empty == [r[0] EXCEPT !.inode = 0]
             new == [r EXCEPT ![0] = empty]
             W == Walk(r)
  <1>1. /\ W \subseteq DOMAIN r /\ 0 \in W /\ r[0] \in Record /\ r[0].name # "/"
        /\ r[0].rec_len \in 3 .. Words /\ 0 + r[0].rec_len <= Words
    BY DirBlockWords DEF Live
  <1>2. /\ empty \in Record /\ empty.inode = 0 /\ empty.rec_len = r[0].rec_len
        /\ empty.name = r[0].name
    BY <1>1, Zenon DEF Record
  <1> HIDE DEF empty
  <1>3. BlockOK(new) /\ new[0] = empty /\ \A v \in W : v # 0 => new[v] = r[v]
    BY <1>1, <1>2, RecastOK DEF DirBlock, Header
  <1>4. DOMAIN new = DOMAIN r
    OBVIOUS
  <1> HIDE DEF new
  <1>5. \A v \in W : new[v].rec_len = r[v].rec_len /\ new[v].name = r[v].name
    BY <1>2, <1>3
  <1>6. Chain(new, W)
    BY <1>4, <1>5 DEF DirBlock, Chain, Header, Behind
  <1>7. Walk(new) = W
    BY <1>3, <1>6, ChainIsWalk
  <1>8. DirBlock(new)
    BY <1>3, <1>6, <1>7 DEF DirBlock
  <1>9. Live(new) = {v \in W : new[v].inode # 0} /\ Live(r) = {v \in W : r[v].inode # 0}
    BY <1>7, <1>8, DirBlockWords
  <1>10. Live(new) = Live(r) \ {0} /\ \A v \in Live(new) : new[v] = r[v]
    BY <1>2, <1>3, <1>9
  <1>11. GoneFrom(r, new)
    <2>1. \A v \in DOMAIN r : v \notin W => new[v] = r[v]
      BY <1>1 DEF new
    <2> QED
      BY <1>4, <1>7, <2>1 DEF Gone, GoneFrom
  <1> QED
    BY <1>8, <1>10, <1>11 DEF Drops, SameEntry, GoneFrom, new, empty

(* and any other one is there before.                                      *)
LEMMA OneBefore ==
  ASSUME NEW r, DirBlock(r), NEW e \in Walk(r), e # 0
  PROVE  \E o \in Walk(r) : o + r[o].rec_len = e
  <1> DEFINE S == {v \in Walk(r) : v < e}
  <1>1. Walk(r) \subseteq 0 .. Words - 1 /\ \A v \in Walk(r) : r[v].rec_len \in 3 .. Words
    BY DirBlockWords
  <1>2. S # {}
    BY <1>1 DEF DirBlock, Chain
  <1>3. S \subseteq 0 .. Words
    BY <1>1, WordsNat
  <1>4. PICK o \in S : \A v \in S : v <= o
    <2> HIDE DEF S
    <2> QED
      BY <1>2, <1>3, Largest
  <1>5. o \in Walk(r) /\ o + r[o].rec_len <= e
    BY DEF DirBlock, Chain
  <1>6. o + r[o].rec_len \in Walk(r) \cup {Words}
    BY <1>5 DEF DirBlock, Chain
  <1>7. o + r[o].rec_len \in Walk(r)
    BY <1>1, <1>5, <1>6, WordsNat
  <1>8. o + r[o].rec_len \notin S
    <2>1. o \in Int /\ r[o].rec_len \in 3 .. Words
      BY <1>1, <1>5
    <2>2. ~(o + r[o].rec_len <= o)
      BY <2>1, WordsNat
    <2> HIDE DEF S
    <2> QED
      BY <1>4, <2>2
  <1>9. ~(o + r[o].rec_len < e)
    BY <1>7, <1>8
  <1>10. o \in Int /\ e \in Int /\ r[o].rec_len \in Int
    BY <1>1, <1>5, WordsNat
  <1> QED
    BY <1>5, <1>9, <1>10

(* The header of a removed record lies behind what a record needs.         *)
LEMMA GapHolds ==
  ASSUME NEW r, DirBlock(r), NEW v \in Gone(r)
  PROVE  \E o \in Walk(r) : o < v /\ Behind(r, o) <= v /\ Behind(r, v) <= o + r[o].rec_len
  <1> DEFINE S == {w \in Walk(r) : w < v}
  <1>1. /\ Walk(r) \subseteq 0 .. Words - 1 /\ 0 \in Walk(r) /\ BlockOK(r)
        /\ \A w \in Walk(r) : r[w].rec_len \in 3 .. Words /\ Header(r, w)
    BY DirBlockWords DEF DirBlock, Chain
  <1>2. Header(r, v) /\ v \notin Walk(r) /\ v \in 0 .. Words - 1
    BY <1>1, BlockDomain DEF Gone, Header, BlockOK
  <1>3. S # {} /\ S \subseteq 0 .. Words
    BY <1>1, <1>2, WordsNat
  <1>4. PICK o \in S : \A w \in S : w <= o
    <2> HIDE DEF S
    <2> QED
      BY <1>3, Largest
  <1>5. o \in Walk(r) /\ o < v /\ o \in 0 .. Words - 1 /\ r[o].rec_len \in 3 .. Words
    BY <1>1
  <1>6. o + r[o].rec_len \in Walk(r) \cup {Words}
    BY <1>5 DEF DirBlock, Chain
  <1>7. o + r[o].rec_len > v
    <2>1. o + r[o].rec_len \in S => o + r[o].rec_len <= o
      BY <1>4
    <2>2. o + r[o].rec_len \notin S
      BY <1>5, <2>1, WordsNat
    <2> QED
      BY <1>2, <1>5, <1>6, <2>2, WordsNat
  <1>8. Behind(r, o) <= v
    BY <1>1, <1>2, <1>5, HeaderBefore
  <1>9. Behind(r, v) <= o + r[o].rec_len
    <2>1. CASE o + r[o].rec_len \in Walk(r)
      BY <1>1, <1>2, <1>7, <2>1, HeaderBefore
    <2>2. CASE o + r[o].rec_len = Words
      <3>1. Behind(r, v) \in v + 3 .. Words
        BY <1>1, <1>2, HeaderInside
      <3> QED
        BY <1>2, <2>2, <3>1, WordsNat
    <2> QED
      BY <1>6, <2>1, <2>2
  <1> QED
    BY <1>5, <1>8, <1>9

(* Any other record goes to the one before it.                             *)
LEMMA MergeDrops ==
  ASSUME NEW r, DirBlock(r), NEW e \in Live(r), NEW o \in Walk(r), o + r[o].rec_len = e
  PROVE  /\ Drops(r, [r EXCEPT ![o] = [r[o] EXCEPT !.rec_len = @ + r[e].rec_len]], e)
         /\ Walk([r EXCEPT ![o] = [r[o] EXCEPT !.rec_len = @ + r[e].rec_len]]) = Walk(r) \ {e}
  <1> DEFINE both == [r[o] EXCEPT !.rec_len = @ + r[e].rec_len]
             new == [r EXCEPT ![o] = both]
             W == Walk(r)
             C == W \ {e}
  <1>1. /\ W \subseteq DOMAIN r /\ W \subseteq 0 .. Words - 1
        /\ \A v \in W : /\ r[v] \in Record /\ r[v].name # "/"
                        /\ r[v].rec_len \in 3 .. Words /\ v + r[v].rec_len <= Words
    BY DirBlockWords
  <1>2. e \in W /\ o < e /\ o \in Int /\ e \in Int
    <2>1. e \in W
      BY DEF Live
    <2>2. o \in Int /\ r[o].rec_len \in 3 .. Words
      BY <1>1
    <2> QED
      BY <1>1, <2>1, <2>2, WordsNat
  <1>3. r[o].rec_len + r[e].rec_len \in 3 .. Words /\ o + (r[o].rec_len + r[e].rec_len) = e + r[e].rec_len
    <2>1. r[o].rec_len \in 3 .. Words /\ r[e].rec_len \in 3 .. Words /\ e + r[e].rec_len <= Words
          /\ o \in 0 .. Words
      BY <1>1, <1>2, WordsNat
    <2> QED
      BY <2>1, WordsNat
  <1>4. /\ both \in Record /\ both.rec_len = r[o].rec_len + r[e].rec_len
        /\ both.inode = r[o].inode /\ both.name = r[o].name /\ both.type = r[o].type
    <2>1. r[o].rec_len + r[e].rec_len \in 0 .. Words /\ r[o] \in Record
      BY <1>1, <1>3
    <2> QED
      BY <2>1, Zenon DEF Record
  <1> HIDE DEF both
  <1>5. /\ BlockOK(new) /\ DOMAIN new = DOMAIN r /\ new[o] = both
        /\ \A v \in W : v # o => new[v] = r[v]
    <2>1. o + both.rec_len <= Words
      BY <1>1, <1>2, <1>3, <1>4
    <2>2. BlockOK(r) /\ Header(r, o)
      BY <1>1 DEF DirBlock, Header
    <2>3. BlockOK(new)
      BY <1>4, <2>1, <2>2, RecastOK
    <2> QED
      BY <1>1, <2>3
  <1> HIDE DEF new
  <1>6. \A v \in W : SameEntry(new[v], r[v])
    BY <1>4, <1>5 DEF SameEntry
  <1>7. Chain(new, C)
    <2>1. \A v \in C : Header(new, v) /\ Behind(new, v) <= v + new[v].rec_len
      <3> TAKE v \in C
      <3>1. Header(new, v) /\ Behind(new, v) = Behind(r, v) /\ Behind(r, v) <= v + r[v].rec_len
        BY <1>1, <1>5, <1>6 DEF Header, Behind, SameEntry, DirBlock, Chain
      <3>2. CASE v = o
        <4>1. Behind(r, o) \in Int /\ Behind(r, o) <= e /\ e <= e + r[e].rec_len
          <5>1. Behind(r, o) \in Int
            BY <1>1, HeaderInside, WordsNat DEF DirBlock, Header
          <5> QED
            BY <1>1, <1>2, <3>1, <3>2, <5>1
        <4> QED
          BY <1>1, <1>2, <1>3, <1>4, <1>5, <3>1, <3>2, <4>1
      <3> QED
        BY <1>5, <3>1, <3>2
    <2>2. \A v \in C : v + new[v].rec_len \in C \cup {Words}
      <3> TAKE v \in C
      <3>1. CASE v = o
        <4>1. o + new[o].rec_len = e + r[e].rec_len
          BY <1>3, <1>4, <1>5
        <4>2. e + r[e].rec_len \in W \cup {Words} /\ e + r[e].rec_len # e
          BY <1>1, <1>2 DEF DirBlock, Chain
        <4> QED
          BY <3>1, <4>1, <4>2
      <3>2. CASE v # o
        <4>1. v + r[v].rec_len \in W \cup {Words}
          BY DEF DirBlock, Chain
        <4>2. v + r[v].rec_len # e
          <5>1. v < o => v + r[v].rec_len <= o
            BY DEF DirBlock, Chain
          <5>2. v > o => e <= v
            BY DEF DirBlock, Chain
          <5>3. v \in Int /\ v # e /\ r[v].rec_len \in 3 .. Words
            BY <1>1
          <5> QED
            BY <1>2, <3>2, <5>1, <5>2, <5>3
        <4> QED
          BY <1>5, <3>2, <4>1, <4>2
      <3> QED
        BY <3>1, <3>2
    <2>3. \A v, u \in C : v < u => v + new[v].rec_len <= u
      <3> TAKE v, u \in C
      <3> HAVE v < u
      <3>1. CASE v = o
        <4>1. e <= u
          BY <3>1 DEF DirBlock, Chain
        <4>2. u \in Int /\ u # e
          BY <1>1
        <4>3. e + r[e].rec_len <= u
          BY <1>2, <4>1, <4>2 DEF DirBlock, Chain
        <4> QED
          BY <1>3, <1>4, <1>5, <3>1, <4>3
      <3>2. CASE v # o
        BY <1>5, <3>2 DEF DirBlock, Chain
      <3> QED
        BY <3>1, <3>2
    <2>4. 0 \in C
      BY <1>1, <1>2 DEF DirBlock, Chain
    <2> HIDE DEF C
    <2> QED
      BY <2>1, <2>2, <2>3, <2>4 DEF Chain
  <1>8. Walk(new) = C
    <2> HIDE DEF C
    <2> QED
      BY <1>5, <1>7, ChainIsWalk
  <1>9. DirBlock(new)
    BY <1>5, <1>7, <1>8 DEF DirBlock
  <1>10. Live(new) = {v \in C : new[v].inode # 0} /\ Live(r) = {v \in W : r[v].inode # 0}
    BY <1>8, <1>9, DirBlockWords
  <1>11. Live(new) = Live(r) \ {e} /\ \A v \in Live(new) : SameEntry(new[v], r[v])
    BY <1>6, <1>10 DEF SameEntry
  <1>12. \A v \in Gone(new) : v \in Gone(r) \cup {e} /\ new[v].name = r[v].name
    <2>1. \A v \in DOMAIN r : v # o => new[v] = r[v]
      BY DEF new
    <2>2. o \in C
      BY <1>2
    <2> HIDE DEF C
    <2>3. \A v : v \notin C => v \notin W \/ v = e
      BY DEF C
    <2> QED
      BY <1>5, <1>8, <2>1, <2>2, <2>3 DEF Gone
  <1>13. Drops(r, new, e) /\ Walk(new) = Walk(r) \ {e}
    BY <1>8, <1>9, <1>11, <1>12 DEF Drops
  <1> QED
    BY <1>13 DEF new, both

(* A header in the gap behind a record comes back, with the rest of it.    *)
LEMMA RevealAdds ==
  ASSUME NEW r, DirBlock(r), NEW o \in Walk(r), NEW e, Header(r, e), r[e].inode # 0,
         Behind(r, o) <= e, e < o + r[o].rec_len
  PROVE  LET far == [r EXCEPT ![e] = [r[e] EXCEPT !.rec_len = r[o].rec_len - (e - o)]]
         IN Adds(r, [far EXCEPT ![o] = [r[o] EXCEPT !.rec_len = e - o]], e, r[e])
  <1> DEFINE gone == [r[e] EXCEPT !.rec_len = r[o].rec_len - (e - o)]
             near == [r[o] EXCEPT !.rec_len = e - o]
             far == [r EXCEPT ![e] = gone]
             new == [far EXCEPT ![o] = near]
             W == Walk(r)
             C == W \cup {e}
             end == o + r[o].rec_len
  <1>1. /\ W \subseteq DOMAIN r /\ W \subseteq 0 .. Words - 1
        /\ \A v \in W : /\ r[v] \in Record /\ r[v].name # "/"
                        /\ r[v].rec_len \in 3 .. Words /\ v + r[v].rec_len <= Words
    BY DirBlockWords
  <1>2. BlockOK(r) /\ Header(r, o) /\ e \in DOMAIN r /\ e \in 0 .. Words - 1 /\ r[e] \in Record
    BY <1>1, BlockDomain DEF DirBlock, Header, BlockOK
  <1>3. o \in 0 .. Words - 1 /\ Behind(r, o) \in o + 3 .. Words /\ o < e /\ end \in e .. Words
    <2>1. Behind(r, o) \in o + 3 .. Words /\ o \in 0 .. Words - 1
      BY <1>1, <1>2, HeaderInside
    <2>2. r[o].rec_len \in 3 .. Words /\ o + r[o].rec_len <= Words
      BY <1>1
    <2> QED
      BY <1>2, <2>1, <2>2, WordsNat
  <1>4. end \in W \cup {Words} /\ \A v \in W : o < v => end <= v
    BY DEF DirBlock, Chain
  <1>5. e \notin W
    BY <1>2, <1>3, <1>4
  <1>6. Behind(r, e) \in e + 3 .. end
    <2>1. Behind(r, e) \in e + 3 .. Words
      BY <1>2, HeaderInside
    <2>2. CASE end \in W
      <3>1. Header(r, end)
        BY <2>2 DEF DirBlock, Chain
      <3> QED
        BY <1>2, <1>3, <2>1, <3>1, HeaderBefore
    <2>3. CASE end = Words
      BY <2>1, <2>3
    <2> QED
      BY <1>4, <2>2, <2>3
  <1>7. /\ gone \in Record /\ gone.inode = r[e].inode /\ gone.name = r[e].name
        /\ gone.type = r[e].type /\ e + gone.rec_len = end
    <2>1. r[o].rec_len - (e - o) \in 0 .. Words /\ e + (r[o].rec_len - (e - o)) = end
      <3>1. r[o].rec_len \in 3 .. Words
        BY <1>1
      <3> QED
        BY <1>2, <1>3, <3>1, WordsNat
    <2> QED
      BY <1>2, <2>1, Zenon DEF Record
  <1>8. /\ near \in Record /\ near.inode = r[o].inode /\ near.name = r[o].name
        /\ near.type = r[o].type /\ o + near.rec_len = e
    <2>1. e - o \in 0 .. Words /\ o + (e - o) = e /\ r[o] \in Record
      BY <1>1, <1>2, <1>3, WordsNat
    <2> QED
      BY <2>1, Zenon DEF Record
  <1>9. /\ BlockOK(new) /\ DOMAIN new = DOMAIN r /\ new[o] = near /\ new[e] = gone
        /\ \A v \in W : v # o => new[v] = r[v]
    <2> HIDE DEF gone, near
    <2>1. BlockOK(far)
      <3>1. e + gone.rec_len <= Words
        BY <1>3, <1>7
      <3> QED
        BY <1>2, <1>7, <3>1, RecastOK
    <2>2. far[o] = r[o] /\ far[e] = gone /\ DOMAIN far = DOMAIN r /\ \A v \in W : far[v] = r[v]
      BY <1>1, <1>2, <1>3, <1>5
    <2> HIDE DEF far
    <2>3. BlockOK(new)
      <3>1. Header(far, o) /\ near.name = far[o].name /\ o + near.rec_len <= Words
        BY <1>1, <1>2, <1>8, <2>2, WordsNat DEF Header
      <3> QED
        BY <1>8, <2>1, <3>1, RecastOK
    <2> QED
      BY <1>1, <1>2, <1>3, <2>2, <2>3
  <1> HIDE DEF new, far, gone, near
  <1>10. \A v \in C : SameEntry(new[v], r[v])
    BY <1>7, <1>8, <1>9 DEF SameEntry
  <1>11. Chain(new, C)
    <2>1. \A v \in C : Header(new, v) /\ Behind(new, v) <= v + new[v].rec_len
      <3> TAKE v \in C
      <3>1. Header(r, v)
        BY <1>1 DEF Header
      <3>2. Header(new, v) /\ Behind(new, v) = Behind(r, v)
        BY <1>9, <1>10, <3>1 DEF Header, Behind, SameEntry
      <3>3. CASE v = o
        BY <1>8, <1>9, <3>2, <3>3
      <3>4. CASE v = e
        BY <1>6, <1>7, <1>9, <3>2, <3>4
      <3>5. CASE v \in W /\ v # o
        BY <1>9, <3>2, <3>5 DEF DirBlock, Chain
      <3> QED
        BY <3>3, <3>4, <3>5
    <2>2. \A v \in C : v + new[v].rec_len \in C \cup {Words}
      <3> TAKE v \in C
      <3>1. CASE v = o
        BY <1>8, <1>9, <3>1
      <3>2. CASE v = e
        BY <1>4, <1>7, <1>9, <3>2
      <3>3. CASE v \in W /\ v # o
        BY <1>9, <3>3 DEF DirBlock, Chain
      <3> QED
        BY <3>1, <3>2, <3>3
    <2>3. \A v, u \in C : v < u => v + new[v].rec_len <= u
      <3> TAKE v, u \in C
      <3> HAVE v < u
      <3>0. v \in 0 .. Words /\ u \in 0 .. Words
        BY <1>1, <1>2, WordsNat
      <3>1. CASE v = o
        <4>1. u = e \/ end <= u
          BY <1>4, <3>1
        <4> QED
          BY <1>2, <1>3, <1>8, <1>9, <3>0, <3>1, <4>1
      <3>2. CASE v = e
        <4>1. u \in W /\ o < u
          BY <1>2, <1>3, <3>0, <3>2
        <4> QED
          BY <1>4, <1>7, <1>9, <3>2, <4>1
      <3>3. CASE v \in W /\ v # o /\ u \in W
        BY <1>9, <3>3 DEF DirBlock, Chain
      <3>4. CASE v \in W /\ v # o /\ u = e
        <4>1. v < o
          BY <1>3, <1>4, <3>0, <3>4
        <4>2. v + r[v].rec_len <= o /\ r[v].rec_len \in 3 .. Words
          BY <1>1, <3>4, <4>1 DEF DirBlock, Chain
        <4> QED
          BY <1>3, <1>9, <3>0, <3>4, <4>2, WordsNat
      <3> QED
        BY <3>1, <3>2, <3>3, <3>4
    <2>4. 0 \in C
      BY DEF DirBlock, Chain
    <2> HIDE DEF C
    <2> QED
      BY <2>1, <2>2, <2>3, <2>4 DEF Chain
  <1>12. Walk(new) = C
    <2> HIDE DEF C
    <2> QED
      BY <1>9, <1>11, ChainIsWalk
  <1>13. DirBlock(new)
    BY <1>9, <1>11, <1>12 DEF DirBlock
  <1>14. Live(new) = {v \in C : new[v].inode # 0} /\ Live(r) = {v \in W : r[v].inode # 0}
    BY <1>12, <1>13, DirBlockWords
  <1>15. e \notin Live(r) /\ Live(new) = Live(r) \cup {e}
    BY <1>5, <1>10, <1>14 DEF SameEntry
  <1>16. GoneFrom(r, new)
    <2>1. \A v \in DOMAIN r : v # o /\ v # e => new[v] = r[v]
      BY DEF new, far
    <2>2. o \in C /\ e \in C /\ \A v : v \notin C => v \notin W
      OBVIOUS
    <2> HIDE DEF C
    <2> QED
      BY <1>9, <1>12, <2>1, <2>2 DEF Gone, GoneFrom
  <1>17. Adds(r, new, e, r[e])
    <2>1. \A v \in Live(r) : v \in C
      BY <1>14
    <2> QED
      BY <1>10, <1>13, <1>15, <1>16, <2>1 DEF Adds
  <1> QED
    BY <1>17 DEF new, far, gone, near
-----------------------------------------------------------------------------
(* The first of some places is one of them, as is the first free inode.    *)
Sooner(e, o) == e[1] < o[1] \/ (e[1] = o[1] /\ e[2] <= o[2])

LEMMA FirstIs ==
  ASSUME NEW S, S \subseteq Nat \X Nat, S # {}
  PROVE  First(S) \in S /\ \A o \in S : Sooner(First(S), o)
  <1> DEFINE K == {k \in Nat : \E w \in Nat : <<k, w>> \in S}
  <1>1. K \subseteq Nat /\ K # {}
    OBVIOUS
  <1>2. PICK k \in K : \A l \in K : k <= l
    <2> HIDE DEF K
    <2> QED
      BY <1>1, Smallest
  <1> DEFINE V == {w \in Nat : <<k, w>> \in S}
  <1>3. V \subseteq Nat /\ V # {}
    OBVIOUS
  <1>4. PICK w \in V : \A v \in V : w <= v
    <2> HIDE DEF V
    <2> QED
      BY <1>3, Smallest
  <1>5. <<k, w>> \in S
    OBVIOUS
  <1>6. ASSUME NEW o \in S
        PROVE  <<k, w>>[1] < o[1] \/ (<<k, w>>[1] = o[1] /\ <<k, w>>[2] <= o[2])
    <2>1. o[1] \in Nat /\ o[2] \in Nat /\ o = <<o[1], o[2]>>
      OBVIOUS
    <2>2. o[1] \in K
      BY <2>1
    <2>3. k <= o[1] /\ k \in Nat
      BY <1>2, <2>2
    <2>4. o[1] = k => w <= o[2]
      BY <1>4, <2>1
    <2> QED
      BY <2>1, <2>3, <2>4
  <1>7. \E e \in S : \A o \in S : e[1] < o[1] \/ (e[1] = o[1] /\ e[2] <= o[2])
    <2> HIDE DEF K, V
    <2> QED
      BY <1>5, <1>6
  <1> QED
    BY <1>7, Zenon DEF First, Sooner

LEMMA NumbersFinite ==
  /\ \A S \in SUBSET Inode : IsFiniteSet(S) /\ Cardinality(S) \in Nat /\ S \subseteq Nat \ {0}
  /\ \A S \in SUBSET Block : IsFiniteSet(S) /\ Cardinality(S) \in Nat /\ S \subseteq Nat \ {0}
  /\ Root \in Inode /\ 0 \notin Inode /\ 0 \notin Block
  <1>1. ASSUME NEW S \in SUBSET Inode
        PROVE  IsFiniteSet(S) /\ Cardinality(S) \in Nat /\ S \subseteq Nat \ {0}
    BY InodeAssumption, FS_Subset, FS_CardinalityType
  <1>2. ASSUME NEW S \in SUBSET Block
        PROVE  IsFiniteSet(S) /\ Cardinality(S) \in Nat /\ S \subseteq Nat \ {0}
    BY BlockAssumption, FS_Subset, FS_CardinalityType
  <1> QED
    BY <1>1, <1>2, InodeAssumption, BlockAssumption

LEMMA NextInodeIs ==
  ASSUME NEW img, FreeInodes(img) # {}
  PROVE  NextInode(img) \in Inode \ img.inode_bitmap
  <1>1. FreeInodes(img) \subseteq Nat
    BY NumbersFinite DEF FreeInodes
  <1>2. NextInode(img) \in FreeInodes(img)
    BY <1>1, MinIs DEF NextInode
  <1> QED
    BY <1>2 DEF FreeInodes

(* The lowest free blocks are as many as asked for, in ascending order.    *)
LEMMA NextBlocksAre ==
  ASSUME NEW img, NEW n \in 0 .. Cardinality(FreeBlocks(img))
  PROVE  /\ NextBlocks(img, n) \in [1 .. n -> Block \ img.block_bitmap]
         /\ \A k, l \in 1 .. n : k < l => NextBlocks(img, n)[k] < NextBlocks(img, n)[l]
  <1> DEFINE F == FreeBlocks(img)
             Below(b) == {c \in F : c < b}
             rank == [b \in F |-> Cardinality(Below(b)) + 1]
             m == Cardinality(F)
             s == NextBlocks(img, n)
  <1>1. F = Block \ img.block_bitmap /\ F \subseteq Nat /\ IsFiniteSet(F) /\ m \in Nat
    BY NumbersFinite DEF FreeBlocks
  <1> HIDE DEF F
  <1>2. ASSUME NEW b \in F, NEW c \in F, b < c
        PROVE  Cardinality(Below(b)) < Cardinality(Below(c))
    <2>1. IsFiniteSet(Below(c)) /\ Below(b) \in SUBSET Below(c) /\ Below(b) # Below(c)
      <3>1. IsFiniteSet(Below(c))
        BY <1>1, FS_Subset
      <3>2. b \in Below(c) /\ b \notin Below(b)
        BY <1>1, <1>2
      <3>3. Below(b) \subseteq Below(c)
        BY <1>1, <1>2
      <3> QED
        BY <3>1, <3>2, <3>3
    <2> HIDE DEF Below
    <2>2. IsFiniteSet(Below(b)) /\ Cardinality(Below(b)) <= Cardinality(Below(c))
          /\ Cardinality(Below(b)) # Cardinality(Below(c))
      BY <2>1, FS_Subset
    <2>3. Cardinality(Below(b)) \in Nat /\ Cardinality(Below(c)) \in Nat
      BY <2>1, <2>2, FS_CardinalityType
    <2> QED
      BY <2>2, <2>3
  <1>3. ASSUME NEW b \in F PROVE Cardinality(Below(b)) \in 0 .. m - 1
    <2>1. Below(b) \in SUBSET F /\ b \in F /\ b \notin Below(b)
      BY <1>1
    <2> HIDE DEF Below
    <2>2. IsFiniteSet(Below(b)) /\ Cardinality(Below(b)) <= m /\ Cardinality(Below(b)) # m
      BY <1>1, <2>1, FS_Subset
    <2>3. Cardinality(Below(b)) \in Nat
      BY <2>2, FS_CardinalityType
    <2> QED
      BY <1>1, <2>2, <2>3
  <1>4. ASSUME NEW k \in 1 .. m PROVE \E b \in F : Cardinality(Below(b)) = k - 1
    <2> HIDE DEF Below, m
    <2>1. rank \in [F -> 1 .. m]
      BY <1>1, <1>3
    <2>2. \A b, c \in F : rank[b] = rank[c] => b = c
      <3> TAKE b, c \in F
      <3>1. b \in Nat /\ c \in Nat /\ Cardinality(Below(b)) \in Int /\ Cardinality(Below(c)) \in Int
        BY <1>1, <1>3
      <3> QED
        BY <1>2, <3>1
    <2>3. rank \in Injection(F, 1 .. m)
      BY <2>1, <2>2 DEF Injection, IsInjective
    <2>4. IsFiniteSet(1 .. m) /\ Cardinality(1 .. m) = m
      BY <1>1, FS_Interval
    <2>5. rank \in Surjection(F, 1 .. m)
      <3>1. Cardinality(F) = Cardinality(1 .. m)
        BY <2>4 DEF m
      <3> QED
        BY <2>3, <2>4, <3>1, FS_Injection
    <2>6. PICK b \in F : rank[b] = k
      BY <2>5 DEF Surjection
    <2>7. Cardinality(Below(b)) = k - 1
      BY <2>6, <1>3, <1>1
    <2> QED
      BY <2>7
  <1>5. s = [k \in 1 .. n |-> CHOOSE b \in F : Cardinality(Below(b)) = k - 1]
    BY DEF NextBlocks, F
  <1>6. ASSUME NEW k \in 1 .. n PROVE s[k] \in F /\ Cardinality(Below(s[k])) = k - 1
    <2>1. k \in 1 .. m
      BY <1>1 DEF F
    <2> HIDE DEF s, Below
    <2>2. \E b \in F : Cardinality(Below(b)) = k - 1
      BY <1>4, <2>1
    <2> QED
      BY <1>5, <2>2
  <1> HIDE DEF s, Below
  <1>7. s \in [1 .. n -> F]
    BY <1>5, <1>6
  <1>8. \A k, l \in 1 .. n : k < l => s[k] < s[l]
    <2> TAKE k, l \in 1 .. n
    <2> HAVE k < l
    <2>1. Cardinality(Below(s[k])) = k - 1 /\ Cardinality(Below(s[l])) = l - 1
      BY <1>6
    <2>2. s[k] \in F /\ s[l] \in F /\ s[k] \in Nat /\ s[l] \in Nat
      BY <1>1, <1>6
    <2>3. s[k] # s[l]
      BY <2>1
    <2>4. ~(s[l] < s[k])
      <3>1. s[l] < s[k] => l - 1 < k - 1
        BY <1>2, <2>1, <2>2
      <3> QED
        BY <3>1
    <2> QED
      BY <2>2, <2>3, <2>4
  <1> QED
    BY <1>1, <1>7, <1>8 DEF s
-----------------------------------------------------------------------------
(* An image has its types whatever was done to it: the blocks of a file    *)
(* are all different, and those an indirect block points to are above it,  *)
(* because the lowest free ones are taken in turn.                         *)
Once(s) == \A k, l \in 1 .. Len(s) : s[k] = s[l] => k = l

FileOK(f) ==
  /\ Len(f.direct) <= Direct /\ Once(f.direct)
  /\ f.indirect # 0 => /\ Len(f.direct) = Direct
                       /\ \A k \in 1 .. Direct : f.direct[k] < f.indirect

PointersOK(b, s) ==
  Len(s) <= Pointers /\ Once(s) /\ \A k \in 1 .. Len(s) : s[k] > b

Typed(img) ==
  /\ img \in Image
  /\ \A b \in Block : BlockOK(img.records[b]) /\ PointersOK(b, img.pointers[b])
  /\ \A i \in Inode : FileOK(img.inode[i])

(* A block of a directory is the k-th of d: s is <<d, k>>.                 *)
Slots(img) ==
  {s \in UsedDirectories(img) \X Nat : s[2] \in 1 .. Len(img.inode[s[1]].direct)}

Content(img, s) == img.records[img.inode[s[1]].direct[s[2]]]

Pointing(img, i) == {x \in LiveRecords(img) : RecordAt(img, x[1], x[2]).inode = i}

DirsOK(img) ==
  /\ \A d \in UsedDirectories(img) : img.inode[d].indirect = 0
  /\ \A s \in Slots(img) : DirBlock(Content(img, s))

NamesOK(img) ==
  \A x \in LiveRecords(img) :
    LET record == RecordAt(img, x[1], x[2])
    IN /\ record.inode \in img.inode_bitmap
       /\ record.type = "dir" <=> IsDir(img, record.inode)

LinksOK(img) ==
  \A i \in img.inode_bitmap :
    /\ Pointing(img, i) # {} /\ img.inode[i].links = Cardinality(Pointing(img, i))
    /\ ~img.inode[i].dtime

FreeOK(img) == \A i \in Inode \ img.inode_bitmap : ~IsDir(img, i)

BlocksOK(img) ==
  /\ \A i, j \in img.inode_bitmap : i # j => DataBlocks(img, i) \cap DataBlocks(img, j) = {}
  /\ UNION {DataBlocks(img, i) : i \in img.inode_bitmap} = img.block_bitmap

IsRoot(record) == record.name = "." /\ record.inode = Root

RootOK(img) ==
  /\ img.inode[Root].direct # <<>>
  /\ LET r == img.records[img.inode[Root].direct[1]]
     IN 0 \in DOMAIN r /\ IsRoot(r[0])

(* what is in use and what is free *)
Accounted(img) == FreeOK(img) /\ BlocksOK(img) /\ CountersOf(img)

Sane(img) ==
  /\ DirsOK(img) /\ NamesOK(img) /\ LinksOK(img) /\ Accounted(img)
  /\ Root \in img.inode_bitmap /\ IsDir(img, Root) /\ RootOK(img)

LEMMA TypedIs ==
  ASSUME NEW img, Typed(img)
  PROVE  /\ img.inode_bitmap \subseteq Inode /\ img.block_bitmap \subseteq Block
         /\ img.inode \in [Inode -> InodeRecord] /\ img.records \in [Block -> Written]
         /\ img.pointers \in [Block -> Seq(Block)] /\ img.text \subseteq Block
         /\ img.sb \in [free_inodes : Int, free_blocks : Int]
         /\ img.gd \in [free_inodes : Int, free_blocks : Int, used_dirs : Int]
         /\ UsedDirectories(img) \subseteq img.inode_bitmap
  BY DEF Typed, Image, UsedDirectories

LEMMA InodeIs ==
  ASSUME NEW f \in InodeRecord
  PROVE  /\ f.mode \in Mode /\ f.links \in Nat /\ f.dtime \in BOOLEAN
         /\ f.direct \in Seq(Block) /\ f.indirect \in Block \cup {0}
         /\ Len(f.direct) \in Nat /\ \A k \in 1 .. Len(f.direct) : f.direct[k] \in Block
  BY DEF InodeRecord

LEMMA SlotIs ==
  ASSUME NEW img, Typed(img), NEW s \in Slots(img)
  PROVE  /\ s[1] \in UsedDirectories(img) /\ s[1] \in Inode /\ s[2] \in 1 .. Direct
         /\ s = <<s[1], s[2]>> /\ s[2] \in 1 .. Len(img.inode[s[1]].direct)
         /\ img.inode[s[1]].direct[s[2]] \in Block
         /\ BlockOK(Content(img, s))
  <1>1. /\ s[1] \in UsedDirectories(img) /\ s[1] \in Inode /\ s = <<s[1], s[2]>>
        /\ s[2] \in 1 .. Len(img.inode[s[1]].direct) /\ s[2] \in Nat
    BY TypedIs DEF Slots
  <1>2. img.inode[s[1]] \in InodeRecord /\ FileOK(img.inode[s[1]])
    BY <1>1, TypedIs DEF Typed
  <1>3. img.inode[s[1]].direct[s[2]] \in Block /\ Len(img.inode[s[1]].direct) \in Nat
    BY <1>1, <1>2, InodeIs
  <1>4. BlockOK(Content(img, s))
    BY <1>3 DEF Content, Typed
  <1>5. s[2] \in 1 .. Direct
    BY <1>1, <1>2, <1>3, SizeAssumption DEF FileOK
  <1> QED
    BY <1>1, <1>3, <1>4, <1>5

LEMMA PlacesAre ==
  ASSUME NEW img, Typed(img), NEW d \in UsedDirectories(img)
  PROVE  /\ Places(img, d) \subseteq Nat \X Nat
         /\ \A e \in Places(img, d) : <<d, e[1]>> \in Slots(img) /\ e[2] \in Walk(Content(img, <<d, e[1]>>))
         /\ \A k, w : <<d, k>> \in Slots(img) /\ w \in Walk(Content(img, <<d, k>>)) => <<k, w>> \in Places(img, d)
         /\ \A k, w : RecordAt(img, d, <<k, w>>) = WordAt(Content(img, <<d, k>>), w)
  <1> DEFINE direct == img.inode[d].direct
  <1>1. Len(direct) \in Nat
    BY TypedIs, InodeIs
  <1>2. \A k : <<d, k>> \in Slots(img) <=> k \in 1 .. Len(direct)
    BY <1>1 DEF Slots
  <1>3. \A k : Content(img, <<d, k>>) = img.records[direct[k]]
    BY DEF Content
  <1>4. Places(img, d) = UNION {{k} \X Walk(img.records[direct[k]]) : k \in 1 .. Len(direct)}
    BY DEF Places
  <1>5. \A k \in 1 .. Len(direct) : Walk(img.records[direct[k]]) \subseteq Nat
    <2> TAKE k \in 1 .. Len(direct)
    <2>1. Walk(img.records[direct[k]]) \subseteq 0 .. Words - 1
      BY <1>2, <1>3, SlotIs, WalkWithin
    <2> QED
      BY <2>1, WordsNat
  <1>6. Places(img, d) \subseteq Nat \X Nat
    BY <1>1, <1>4, <1>5
  <1>7. \A e \in Places(img, d) : <<d, e[1]>> \in Slots(img) /\ e[2] \in Walk(Content(img, <<d, e[1]>>))
    BY <1>2, <1>3, <1>4
  <1>8. \A k, w : <<d, k>> \in Slots(img) /\ w \in Walk(Content(img, <<d, k>>)) => <<k, w>> \in Places(img, d)
    BY <1>2, <1>3, <1>4
  <1>9. \A k, w : RecordAt(img, d, <<k, w>>) = WordAt(Content(img, <<d, k>>), w)
    BY <1>3 DEF RecordAt
  <1> QED
    BY <1>6, <1>7, <1>8, <1>9

LEMMA LiveIs ==
  ASSUME NEW img, Typed(img)
  PROVE  /\ \A x \in LiveRecords(img) :
              /\ x = <<x[1], <<x[2][1], x[2][2]>>>> /\ <<x[1], x[2][1]>> \in Slots(img)
              /\ x[2][2] \in Live(Content(img, <<x[1], x[2][1]>>))
         /\ \A s \in Slots(img) : \A w \in Live(Content(img, s)) :
              /\ <<s[1], <<s[2], w>>>> \in LiveRecords(img)
              /\ RecordAt(img, s[1], <<s[2], w>>) = Content(img, s)[w]
  <1>1. ASSUME NEW x \in LiveRecords(img)
        PROVE  /\ x = <<x[1], <<x[2][1], x[2][2]>>>> /\ <<x[1], x[2][1]>> \in Slots(img)
               /\ x[2][2] \in Live(Content(img, <<x[1], x[2][1]>>))
    <2>0. PICK d \in UsedDirectories(img) : \E e \in LiveEntries(img, d) : x = <<d, e>>
      BY DEF LiveRecords
    <2>1. PICK e \in LiveEntries(img, d) : x = <<d, e>>
      BY <2>0
    <2>2. e \in Places(img, d) /\ RecordAt(img, d, e).inode # 0
      BY DEF LiveEntries
    <2>3. e = <<e[1], e[2]>>
      BY <2>2, PlacesAre
    <2>4. <<d, e[1]>> \in Slots(img) /\ e[2] \in Walk(Content(img, <<d, e[1]>>))
      BY <2>2, PlacesAre
    <2>5. WordAt(Content(img, <<d, e[1]>>), e[2]).inode # 0
      BY <2>2, <2>3, PlacesAre
    <2> QED
      BY <2>1, <2>3, <2>4, <2>5 DEF Live
  <1>2. ASSUME NEW s \in Slots(img), NEW w \in Live(Content(img, s))
        PROVE  /\ <<s[1], <<s[2], w>>>> \in LiveRecords(img)
               /\ RecordAt(img, s[1], <<s[2], w>>) = Content(img, s)[w]
    <2>1. s[1] \in UsedDirectories(img) /\ s = <<s[1], s[2]>>
      BY SlotIs
    <2>2. RecordAt(img, s[1], <<s[2], w>>) = WordAt(Content(img, s), w)
      BY <2>1, PlacesAre
    <2>3. WordAt(Content(img, s), w).inode # 0 /\ w \in Walk(Content(img, s))
      BY DEF Live
    <2>4. <<s[2], w>> \in Places(img, s[1])
      BY <2>1, <2>3, PlacesAre
    <2>5. <<s[1], <<s[2], w>>>> \in LiveRecords(img)
      BY <2>1, <2>2, <2>3, <2>4 DEF LiveRecords, LiveEntries
    <2>6. w \in DOMAIN Content(img, s)
      BY <2>3, RecordIs, Zenon DEF WordAt
    <2> QED
      BY <2>2, <2>5, <2>6 DEF WordAt
  <1> QED
    BY <1>1, <1>2

LEMMA LiveFinite ==
  ASSUME NEW img, Typed(img)
  PROVE  IsFiniteSet(LiveRecords(img)) /\ \A i : IsFiniteSet(Pointing(img, i))
  <1>1. IsFiniteSet(Inode \X ((1 .. Direct) \X (0 .. Words - 1)))
    <2>1. IsFiniteSet(1 .. Direct) /\ IsFiniteSet(0 .. Words - 1)
      BY FS_Interval, SizeAssumption
    <2> QED
      BY <2>1, InodeAssumption, FS_Product
  <1>2. ASSUME NEW x \in LiveRecords(img)
        PROVE  x \in Inode \X ((1 .. Direct) \X (0 .. Words - 1))
    <2> DEFINE s == <<x[1], x[2][1]>>
    <2>1. x = <<x[1], <<x[2][1], x[2][2]>>>> /\ s \in Slots(img) /\ x[2][2] \in Live(Content(img, s))
      BY LiveIs
    <2>2. s[1] \in Inode /\ s[2] \in 1 .. Direct /\ BlockOK(Content(img, s))
      BY <2>1, SlotIs
    <2>3. x[2][2] \in 0 .. Words - 1
      BY <2>1, <2>2, WalkWithin DEF Live
    <2> QED
      BY <2>1, <2>2, <2>3
  <1>3. IsFiniteSet(LiveRecords(img))
    BY <1>1, <1>2, FS_Subset
  <1>4. \A i : Pointing(img, i) \in SUBSET LiveRecords(img)
    BY DEF Pointing
  <1> QED
    BY <1>3, <1>4, FS_Subset
-----------------------------------------------------------------------------
(* A record more in one directory block, or one less, is one name more, or *)
(* one less, in the image; the others are what they were.                  *)
Place(s, w) == <<s[1], <<s[2], w>>>>

Entry(img, x) == RecordAt(img, x[1], x[2])

OldLive(img, s) == IF s \in Slots(img) THEN Live(Content(img, s)) ELSE {}

OldGone(img, s) == IF s \in Slots(img) THEN Gone(Content(img, s)) ELSE {}

(* The names of removed records, and where: <<place, name>>.               *)
Ghosts(img) ==
  UNION {{<<Place(s, w), Content(img, s)[w].name>> : w \in Gone(Content(img, s))} : s \in Slots(img)}

(* No removed record of that name lies before the place x.                 *)
Foremost(img, x, n) == \A g \in Ghosts(img) : g[1][1] = x[1] /\ g[2] = n => Sooner(x[2], g[1][2])

GainsName(img, new, x, record) ==
  /\ x \notin LiveRecords(img) /\ LiveRecords(new) = LiveRecords(img) \cup {x}
  /\ SameEntry(Entry(new, x), record)
  /\ \A y \in LiveRecords(img) : SameEntry(Entry(new, y), Entry(img, y))
  /\ Ghosts(new) \subseteq Ghosts(img)

LosesName(img, new, x) ==
  /\ x \in LiveRecords(img) /\ LiveRecords(new) = LiveRecords(img) \ {x}
  /\ \A y \in LiveRecords(new) : SameEntry(Entry(new, y), Entry(img, y))
  /\ Ghosts(new) \subseteq Ghosts(img) \cup {<<x, Entry(img, x).name>>}

(* What a name says, and where: <<place, name, inode>>.                    *)
Named(img) == {<<x, Entry(img, x).name, Entry(img, x).inode>> : x \in LiveRecords(img)}

SameNames(img, new) ==
  /\ Named(new) = Named(img) /\ UsedDirectories(new) = UsedDirectories(img)
  /\ Ghosts(new) \subseteq Ghosts(img)

NameAdded(img, new, d, n, i) ==
  /\ \E x : x[1] = d /\ Named(new) = Named(img) \cup {<<x, n, i>>} /\ Foremost(new, x, n)
  /\ Ghosts(new) \subseteq Ghosts(img)

NameTaken(img, new, d, n, i) ==
  \E x : /\ x[1] = d /\ <<x, n, i>> \in Named(img) /\ Named(new) = Named(img) \ {<<x, n, i>>}
         /\ Ghosts(new) \subseteq Ghosts(img) \cup {<<x, n>>}

LEMMA GhostsWithin ==
  ASSUME NEW img, NEW new, NEW X,
         \A s \in Slots(new) : \A w \in Gone(Content(new, s)) :
           \/ <<Place(s, w), Content(new, s)[w].name>> \in X
           \/ /\ s \in Slots(img) /\ w \in Gone(Content(img, s))
              /\ Content(new, s)[w].name = Content(img, s)[w].name
  PROVE  Ghosts(new) \subseteq Ghosts(img) \cup X
  <1> SUFFICES ASSUME NEW g \in Ghosts(new), g \notin X PROVE g \in Ghosts(img)
    OBVIOUS
  <1>1. PICK s \in Slots(new) :
          g \in {<<Place(s, w), Content(new, s)[w].name>> : w \in Gone(Content(new, s))}
    BY DEF Ghosts
  <1>2. PICK w \in Gone(Content(new, s)) : g = <<Place(s, w), Content(new, s)[w].name>>
    BY <1>1
  <1>3. /\ s \in Slots(img) /\ w \in Gone(Content(img, s))
        /\ g = <<Place(s, w), Content(img, s)[w].name>>
    BY <1>2
  <1>4. g \in {<<Place(s, v), Content(img, s)[v].name>> : v \in Gone(Content(img, s))}
    BY <1>3
  <1> QED
    BY <1>3, <1>4 DEF Ghosts

Absent(img, d, n) == \A t \in Named(img) : ~(t[1][1] = d /\ t[2] = n)

LEMMA AbsentIs ==
  ASSUME NEW img, NEW d, NEW n, find_entry(img, d, n) = {}
  PROVE  Absent(img, d, n)
  <1> SUFFICES ASSUME NEW t \in Named(img), t[1][1] = d, t[2] = n PROVE FALSE
    BY DEF Absent
  <1>1. PICK x \in LiveRecords(img) : t = <<x, Entry(img, x).name, Entry(img, x).inode>>
    BY DEF Named
  <1>2. PICK c \in UsedDirectories(img) : \E e \in LiveEntries(img, c) : x = <<c, e>>
    BY DEF LiveRecords
  <1>3. PICK e \in LiveEntries(img, c) : x = <<c, e>>
    BY <1>2
  <1>4. t[1] = x /\ x[1] = c /\ x[2] = e /\ t[2] = Entry(img, x).name
    BY <1>1, <1>3
  <1>5. e \in LiveEntries(img, d) /\ RecordAt(img, d, e).name = n
    BY <1>4 DEF Entry
  <1> QED
    BY <1>5 DEF find_entry

LEMMA NamedMore ==
  ASSUME NEW img, NEW new, NEW x, NEW record, GainsName(img, new, x, record), Foremost(img, x, record.name)
  PROVE  NameAdded(img, new, x[1], record.name, record.inode)
  <1>1. \A y \in LiveRecords(img) :
          y \in LiveRecords(new) /\ Entry(new, y).name = Entry(img, y).name /\ Entry(new, y).inode = Entry(img, y).inode
    BY DEF GainsName, SameEntry
  <1>2. /\ LiveRecords(new) = LiveRecords(img) \cup {x}
        /\ Entry(new, x).name = record.name /\ Entry(new, x).inode = record.inode
    BY DEF GainsName, SameEntry
  <1>3. Named(new) = Named(img) \cup {<<x, record.name, record.inode>>}
    BY <1>1, <1>2 DEF Named
  <1>4. Ghosts(new) \subseteq Ghosts(img) /\ Foremost(new, x, record.name)
    BY DEF GainsName, Foremost
  <1> QED
    BY <1>3, <1>4 DEF NameAdded

LEMMA NamedLess ==
  ASSUME NEW img, NEW new, NEW x, LosesName(img, new, x)
  PROVE  NameTaken(img, new, x[1], Entry(img, x).name, Entry(img, x).inode)
  <1>1. \A y \in LiveRecords(new) :
          y \in LiveRecords(img) /\ Entry(new, y).name = Entry(img, y).name /\ Entry(new, y).inode = Entry(img, y).inode
    BY DEF LosesName, SameEntry
  <1>2. x \in LiveRecords(img) /\ LiveRecords(new) = LiveRecords(img) \ {x}
    BY DEF LosesName
  <1> DEFINE t == <<x, Entry(img, x).name, Entry(img, x).inode>>
  <1>3. \A u \in Named(new) : u \in Named(img) /\ u # t
    BY <1>1, <1>2 DEF Named
  <1>4. \A u \in Named(img) : u # t => u \in Named(new)
    BY <1>1, <1>2 DEF Named
  <1>5. t \in Named(img) /\ Ghosts(new) \subseteq Ghosts(img) \cup {<<x, Entry(img, x).name>>}
    BY <1>2 DEF Named, LosesName
  <1> HIDE DEF t
  <1>6. Named(new) = Named(img) \ {t}
    BY <1>3, <1>4, <1>5
  <1> QED
    BY <1>5, <1>6 DEF NameTaken, t

LEMMA PlaceIs ==
  ASSUME NEW img, Typed(img)
  PROVE  /\ \A x \in LiveRecords(img) :
              \E s \in Slots(img) : \E w \in Live(Content(img, s)) : x = Place(s, w)
         /\ \A s \in Slots(img) : \A w \in Live(Content(img, s)) :
              Place(s, w) \in LiveRecords(img) /\ Entry(img, Place(s, w)) = Content(img, s)[w]
         /\ \A s, u \in Slots(img) : \A w, v : Place(s, w) = Place(u, v) => s = u /\ w = v
  <1>1. ASSUME NEW x \in LiveRecords(img)
        PROVE  \E s \in Slots(img) : \E w \in Live(Content(img, s)) : x = Place(s, w)
    <2> DEFINE s == <<x[1], x[2][1]>>
    <2>1. /\ x = <<x[1], <<x[2][1], x[2][2]>>>> /\ s \in Slots(img)
          /\ x[2][2] \in Live(Content(img, s))
      BY LiveIs
    <2>2. x = Place(s, x[2][2])
      BY <2>1 DEF Place
    <2> HIDE DEF s
    <2> QED
      BY <2>1, <2>2
  <1>2. \A s \in Slots(img) : \A w \in Live(Content(img, s)) :
          Place(s, w) \in LiveRecords(img) /\ Entry(img, Place(s, w)) = Content(img, s)[w]
    BY LiveIs, Zenon DEF Place, Entry
  <1>3. ASSUME NEW s \in Slots(img), NEW u \in Slots(img), NEW w, NEW v, Place(s, w) = Place(u, v)
        PROVE  s = u /\ w = v
    <2>1. s = <<s[1], s[2]>> /\ u = <<u[1], u[2]>>
      BY SlotIs
    <2>2. s[1] = u[1] /\ s[2] = u[2] /\ w = v
      BY <1>3 DEF Place
    <2> QED
      BY <2>1, <2>2
  <1> QED
    BY <1>1, <1>2, <1>3

LEMMA NameGained ==
  ASSUME NEW img, Typed(img), NEW new, Typed(new),
         NEW s \in Slots(new), Slots(new) = Slots(img) \cup {s},
         \A u \in Slots(img) : u # s => Content(new, u) = Content(img, u),
         NEW w, NEW record,
         w \notin OldLive(img, s), Live(Content(new, s)) = OldLive(img, s) \cup {w},
         SameEntry(Content(new, s)[w], record),
         \A v \in OldLive(img, s) : SameEntry(Content(new, s)[v], Content(img, s)[v]),
         \A v \in Gone(Content(new, s)) : v \in OldGone(img, s) /\ Content(new, s)[v].name = Content(img, s)[v].name
  PROVE  GainsName(img, new, Place(s, w), record)
  <1>1. Place(s, w) \in LiveRecords(new) /\ Entry(new, Place(s, w)) = Content(new, s)[w]
    BY PlaceIs
  <1>2. Place(s, w) \notin LiveRecords(img)
    <2> SUFFICES ASSUME Place(s, w) \in LiveRecords(img) PROVE FALSE
      OBVIOUS
    <2>1. PICK u \in Slots(img) : \E v \in Live(Content(img, u)) : Place(s, w) = Place(u, v)
      BY PlaceIs
    <2>2. PICK v \in Live(Content(img, u)) : Place(s, w) = Place(u, v)
      BY <2>1
    <2>3. u \in Slots(new) /\ s = u /\ w = v
      BY <2>2, PlaceIs
    <2> QED
      BY <2>3 DEF OldLive
  <1>3. ASSUME NEW y \in LiveRecords(img)
        PROVE  y \in LiveRecords(new) /\ SameEntry(Entry(new, y), Entry(img, y))
    <2>1. PICK u \in Slots(img) : \E v \in Live(Content(img, u)) : y = Place(u, v)
      BY PlaceIs
    <2>2. PICK v \in Live(Content(img, u)) : y = Place(u, v)
      BY <2>1
    <2>3. Entry(img, y) = Content(img, u)[v] /\ u \in Slots(new)
      BY <2>2, PlaceIs
    <2>4. v \in Live(Content(new, u)) /\ SameEntry(Content(new, u)[v], Content(img, u)[v])
      <3>1. CASE u = s
        BY <3>1 DEF OldLive
      <3>2. CASE u # s
        BY <3>2 DEF SameEntry
      <3> QED
        BY <3>1, <3>2
    <2> QED
      BY <2>2, <2>3, <2>4, PlaceIs
  <1>4. ASSUME NEW y \in LiveRecords(new), y # Place(s, w)
        PROVE  y \in LiveRecords(img)
    <2>1. PICK u \in Slots(new) : \E v \in Live(Content(new, u)) : y = Place(u, v)
      BY PlaceIs
    <2>2. PICK v \in Live(Content(new, u)) : y = Place(u, v)
      BY <2>1
    <2>3. CASE u = s
      <3>1. v \in OldLive(img, s)
        BY <1>4, <2>2, <2>3
      <3>2. s \in Slots(img) /\ v \in Live(Content(img, s))
        BY <3>1 DEF OldLive
      <3> QED
        BY <2>2, <2>3, <3>2, PlaceIs
    <2>4. CASE u # s
      <3>1. u \in Slots(img) /\ v \in Live(Content(img, u))
        BY <2>4
      <3> QED
        BY <2>2, <3>1, PlaceIs
    <2> QED
      BY <2>3, <2>4
  <1>5. Ghosts(new) \subseteq Ghosts(img) \cup {}
    <2>1. \A u \in Slots(new) : \A v \in Gone(Content(new, u)) :
            /\ u \in Slots(img) /\ v \in Gone(Content(img, u))
            /\ Content(new, u)[v].name = Content(img, u)[v].name
      BY DEF OldGone
    <2> QED
      BY <2>1, GhostsWithin
  <1> QED
    BY <1>1, <1>2, <1>3, <1>4, <1>5 DEF GainsName

LEMMA NameLost ==
  ASSUME NEW img, Typed(img), NEW new, Typed(new),
         NEW s \in Slots(img), Slots(new) = Slots(img),
         \A u \in Slots(img) : u # s => Content(new, u) = Content(img, u),
         NEW w, Drops(Content(img, s), Content(new, s), w)
  PROVE  LosesName(img, new, Place(s, w))
  <1>1. Place(s, w) \in LiveRecords(img)
    BY PlaceIs DEF Drops
  <1>2. Place(s, w) \notin LiveRecords(new)
    <2> SUFFICES ASSUME Place(s, w) \in LiveRecords(new) PROVE FALSE
      OBVIOUS
    <2>1. PICK u \in Slots(img) : \E v \in Live(Content(new, u)) : Place(s, w) = Place(u, v)
      BY PlaceIs
    <2>2. PICK v \in Live(Content(new, u)) : Place(s, w) = Place(u, v)
      BY <2>1
    <2>3. s = u /\ w = v
      BY <2>2, PlaceIs
    <2> QED
      BY <2>3 DEF Drops
  <1>3. ASSUME NEW y \in LiveRecords(img), y # Place(s, w) PROVE y \in LiveRecords(new)
    <2>1. PICK u \in Slots(img) : \E v \in Live(Content(img, u)) : y = Place(u, v)
      BY PlaceIs
    <2>2. PICK v \in Live(Content(img, u)) : y = Place(u, v)
      BY <2>1
    <2>3. v \in Live(Content(new, u))
      <3>1. CASE u = s
        BY <1>3, <2>2, <3>1 DEF Drops
      <3>2. CASE u # s
        BY <3>2
      <3> QED
        BY <3>1, <3>2
    <2> QED
      BY <2>2, <2>3, PlaceIs
  <1>4. ASSUME NEW y \in LiveRecords(new)
        PROVE  y \in LiveRecords(img) /\ SameEntry(Entry(new, y), Entry(img, y))
    <2>1. PICK u \in Slots(img) : \E v \in Live(Content(new, u)) : y = Place(u, v)
      BY PlaceIs
    <2>2. PICK v \in Live(Content(new, u)) : y = Place(u, v)
      BY <2>1
    <2>3. v \in Live(Content(img, u)) /\ SameEntry(Content(new, u)[v], Content(img, u)[v])
      <3>1. CASE u = s
        BY <3>1 DEF Drops
      <3>2. CASE u # s
        BY <3>2 DEF SameEntry
      <3> QED
        BY <3>1, <3>2
    <2>4. Entry(new, y) = Content(new, u)[v] /\ Entry(img, y) = Content(img, u)[v]
      BY <2>2, <2>3, PlaceIs
    <2> QED
      BY <2>2, <2>3, <2>4, PlaceIs
  <1>5. Ghosts(new) \subseteq Ghosts(img) \cup {<<Place(s, w), Entry(img, Place(s, w)).name>>}
    <2>1. Entry(img, Place(s, w)) = Content(img, s)[w]
      BY PlaceIs DEF Drops
    <2>2. \A u \in Slots(new) : \A v \in Gone(Content(new, u)) :
            \/ <<Place(u, v), Content(new, u)[v].name>> \in {<<Place(s, w), Entry(img, Place(s, w)).name>>}
            \/ /\ u \in Slots(img) /\ v \in Gone(Content(img, u))
               /\ Content(new, u)[v].name = Content(img, u)[v].name
      BY <2>1 DEF Drops
    <2> QED
      BY <2>2, GhostsWithin
  <1> QED
    BY <1>1, <1>2, <1>3, <1>4, <1>5 DEF LosesName

(* Where no block gains or loses one, no name comes or goes.               *)
LEMMA NamesSame ==
  ASSUME NEW img, Typed(img), NEW new, Typed(new), Slots(new) = Slots(img),
         \A s \in Slots(img) :
           /\ Live(Content(new, s)) = Live(Content(img, s))
           /\ \A w \in Live(Content(img, s)) : /\ Content(new, s)[w].inode = Content(img, s)[w].inode
                                               /\ Content(new, s)[w].name = Content(img, s)[w].name
           /\ GoneFrom(Content(img, s), Content(new, s))
  PROVE  /\ LiveRecords(new) = LiveRecords(img)
         /\ \A x \in LiveRecords(img) : Entry(new, x).inode = Entry(img, x).inode
         /\ \A i : Pointing(new, i) = Pointing(img, i)
         /\ Named(new) = Named(img) /\ Ghosts(new) \subseteq Ghosts(img)
  <1>1. ASSUME NEW x \in LiveRecords(img)
        PROVE  /\ x \in LiveRecords(new) /\ Entry(new, x).inode = Entry(img, x).inode
               /\ Entry(new, x).name = Entry(img, x).name
    <2>1. PICK s \in Slots(img) : \E w \in Live(Content(img, s)) : x = Place(s, w)
      BY PlaceIs
    <2>2. PICK w \in Live(Content(img, s)) : x = Place(s, w)
      BY <2>1
    <2>3. w \in Live(Content(new, s))
      OBVIOUS
    <2>4. Entry(new, x) = Content(new, s)[w] /\ Entry(img, x) = Content(img, s)[w]
          /\ x \in LiveRecords(new)
      BY <2>2, <2>3, PlaceIs
    <2> QED
      BY <2>4
  <1>2. ASSUME NEW x \in LiveRecords(new) PROVE x \in LiveRecords(img)
    <2>1. PICK s \in Slots(img) : \E w \in Live(Content(new, s)) : x = Place(s, w)
      BY PlaceIs
    <2>2. PICK w \in Live(Content(img, s)) : x = Place(s, w)
      BY <2>1
    <2> QED
      BY <2>2, PlaceIs
  <1>3. LiveRecords(new) = LiveRecords(img)
    BY <1>1, <1>2
  <1>4. \A i : Pointing(new, i) = Pointing(img, i)
    BY <1>1, <1>3 DEF Pointing, Entry
  <1>5. Named(new) = Named(img)
    BY <1>1, <1>3 DEF Named
  <1>6. Ghosts(new) \subseteq Ghosts(img) \cup {}
    BY GhostsWithin DEF GoneFrom
  <1> QED
    BY <1>1, <1>3, <1>4, <1>5, <1>6

(* The links of a file are counted with its names.                         *)
LEMMA LinkCounted ==
  ASSUME NEW img, Typed(img), NamesOK(img), LinksOK(img), NEW new, Typed(new),
         NEW x, NEW record, GainsName(img, new, x, record),
         NEW i \in Inode, record.inode = i, record.type = "dir" <=> IsDir(new, i),
         new.inode_bitmap = img.inode_bitmap \cup {i},
         \A j \in img.inode_bitmap :
           /\ new.inode[j].mode = img.inode[j].mode
           /\ j # i => new.inode[j].links = img.inode[j].links
           /\ new.inode[j].dtime = img.inode[j].dtime,
         i \in img.inode_bitmap \/ ~new.inode[i].dtime,
         new.inode[i].links = IF i \in img.inode_bitmap THEN img.inode[i].links + 1 ELSE 1
  PROVE  NamesOK(new) /\ LinksOK(new)
  <1>0. img.inode_bitmap \subseteq Inode
    BY TypedIs
  <1>1. NamesOK(new)
    <2> SUFFICES ASSUME NEW y \in LiveRecords(new)
                 PROVE  /\ Entry(new, y).inode \in new.inode_bitmap
                        /\ Entry(new, y).type = "dir" <=> IsDir(new, Entry(new, y).inode)
      BY DEF NamesOK, Entry
    <2>1. CASE y = x
      <3>1. SameEntry(Entry(new, x), record)
        BY DEF GainsName
      <3> QED
        BY <2>1, <3>1 DEF SameEntry
    <2>2. CASE y \in LiveRecords(img)
      <3>1. SameEntry(Entry(new, y), Entry(img, y))
        BY <2>2 DEF GainsName
      <3>2. Entry(img, y).inode \in img.inode_bitmap
            /\ (Entry(img, y).type = "dir" <=> IsDir(img, Entry(img, y).inode))
        BY <2>2 DEF NamesOK, Entry
      <3> QED
        BY <3>1, <3>2 DEF SameEntry, IsDir
    <2> QED
      BY <2>1, <2>2 DEF GainsName
  <1>2. \A j : Pointing(new, j) = IF j = i THEN Pointing(img, j) \cup {x} ELSE Pointing(img, j)
    <2> TAKE j
    <2>1. Pointing(new, j) = {y \in LiveRecords(new) : Entry(new, y).inode = j}
          /\ Pointing(img, j) = {y \in LiveRecords(img) : Entry(img, y).inode = j}
      BY DEF Pointing, Entry
    <2>2. LiveRecords(new) = LiveRecords(img) \cup {x} /\ Entry(new, x).inode = i
          /\ \A y \in LiveRecords(img) : Entry(new, y).inode = Entry(img, y).inode
      BY DEF GainsName, SameEntry
    <2> QED
      BY <2>1, <2>2
  <1>3. x \notin Pointing(img, i) /\ IsFiniteSet(Pointing(img, i))
    <2>1. x \notin LiveRecords(img)
      BY DEF GainsName
    <2>2. x \notin Pointing(img, i)
      BY <2>1 DEF Pointing
    <2> QED
      BY <2>2, LiveFinite
  <1>4. Cardinality(Pointing(img, i) \cup {x}) = Cardinality(Pointing(img, i)) + 1
    BY <1>3, FS_AddElement
  <1>5. i \notin img.inode_bitmap => Pointing(img, i) = {}
    BY DEF Pointing, NamesOK
  <1>6. Cardinality(Pointing(new, i)) = new.inode[i].links /\ Pointing(new, i) # {}
    <2>1. CASE i \in img.inode_bitmap
      BY <1>2, <1>4, <2>1 DEF LinksOK
    <2>2. CASE i \notin img.inode_bitmap
      <3>1. Cardinality(Pointing(img, i)) = 0 /\ new.inode[i].links = 1
        BY <1>5, <2>2, FS_EmptySet
      <3>2. Pointing(new, i) = Pointing(img, i) \cup {x}
        BY <1>2
      <3> QED
        BY <1>4, <3>1, <3>2
    <2> QED
      BY <1>2, <2>1, <2>2
  <1>7. \A j \in new.inode_bitmap : ~new.inode[j].dtime
    BY DEF LinksOK
  <1>8. LinksOK(new)
    BY <1>2, <1>6, <1>7 DEF LinksOK
  <1> QED
    BY <1>1, <1>8

LEMMA LinkDropped ==
  ASSUME NEW img, Typed(img), NamesOK(img), LinksOK(img), NEW new, Typed(new),
         NEW x, LosesName(img, new, x), NEW i, Entry(img, x).inode = i,
         \A j \in img.inode_bitmap :
           /\ new.inode[j].mode = img.inode[j].mode
           /\ new.inode[j].links = IF j = i THEN img.inode[j].links - 1 ELSE img.inode[j].links,
         \A j \in new.inode_bitmap : new.inode[j].dtime = img.inode[j].dtime,
         new.inode_bitmap = IF new.inode[i].links > 0 THEN img.inode_bitmap
                            ELSE img.inode_bitmap \ {i}
  PROVE  NamesOK(new) /\ LinksOK(new) /\ i \in img.inode_bitmap
  <1>1. i \in img.inode_bitmap /\ x \in Pointing(img, i)
    BY DEF NamesOK, LosesName, Entry, Pointing
  <1>2. \A j : Pointing(new, j) = IF j = i THEN Pointing(img, j) \ {x} ELSE Pointing(img, j)
    <2> TAKE j
    <2>1. Pointing(new, j) = {y \in LiveRecords(new) : Entry(new, y).inode = j}
          /\ Pointing(img, j) = {y \in LiveRecords(img) : Entry(img, y).inode = j}
      BY DEF Pointing, Entry
    <2>2. LiveRecords(new) = LiveRecords(img) \ {x} /\ Entry(img, x).inode = i
          /\ \A y \in LiveRecords(new) : Entry(new, y).inode = Entry(img, y).inode
      BY DEF LosesName, SameEntry
    <2> QED
      BY <2>1, <2>2
  <1>3. /\ IsFiniteSet(Pointing(img, i)) /\ IsFiniteSet(Pointing(new, i))
        /\ Cardinality(Pointing(new, i)) = Cardinality(Pointing(img, i)) - 1
        /\ Cardinality(Pointing(new, i)) \in Nat
    <2>1. IsFiniteSet(Pointing(img, i)) /\ IsFiniteSet(Pointing(new, i))
      BY LiveFinite
    <2>2. Cardinality(Pointing(img, i) \ {x}) = Cardinality(Pointing(img, i)) - 1
      BY <1>1, <2>1, FS_RemoveElement
    <2> QED
      BY <1>2, <2>1, <2>2, FS_CardinalityType
  <1>4. new.inode[i].links = Cardinality(Pointing(new, i))
    BY <1>1, <1>3 DEF LinksOK
  <1>5. new.inode[i].links > 0 <=> Pointing(new, i) # {}
    BY <1>3, <1>4, FS_EmptySet
  <1>6. NamesOK(new)
    <2> SUFFICES ASSUME NEW y \in LiveRecords(new)
                 PROVE  /\ Entry(new, y).inode \in new.inode_bitmap
                        /\ Entry(new, y).type = "dir" <=> IsDir(new, Entry(new, y).inode)
      BY DEF NamesOK, Entry
    <2>1. SameEntry(Entry(new, y), Entry(img, y)) /\ y \in LiveRecords(img)
      BY DEF LosesName
    <2>2. Entry(img, y).inode \in img.inode_bitmap
          /\ (Entry(img, y).type = "dir" <=> IsDir(img, Entry(img, y).inode))
      BY <2>1 DEF NamesOK, Entry
    <2>3. Entry(new, y).inode = i => Pointing(new, i) # {}
      BY DEF Pointing, Entry
    <2>4. Entry(new, y).inode \in new.inode_bitmap
      BY <1>5, <2>1, <2>2, <2>3 DEF SameEntry
    <2> QED
      BY <2>1, <2>2, <2>4 DEF SameEntry, IsDir
  <1>7. \A j \in new.inode_bitmap : ~new.inode[j].dtime
    BY DEF LinksOK
  <1>8. LinksOK(new)
    BY <1>2, <1>4, <1>5, <1>7 DEF LinksOK
  <1> QED
    BY <1>1, <1>6, <1>8
-----------------------------------------------------------------------------
(* What the operations of Ext2Image do to each field.                      *)
Counts(img, new, inodes, blocks) ==
  /\ new.sb.free_inodes = img.sb.free_inodes + inodes
  /\ new.gd.free_inodes = img.gd.free_inodes + inodes
  /\ new.sb.free_blocks = img.sb.free_blocks + blocks
  /\ new.gd.free_blocks = img.gd.free_blocks + blocks
  /\ new.gd.used_dirs = img.gd.used_dirs

Same(img, new, fields) ==
  /\ new \in Image
  /\ "inode_bitmap" \in fields => new.inode_bitmap = img.inode_bitmap
  /\ "block_bitmap" \in fields => new.block_bitmap = img.block_bitmap
  /\ "sb" \in fields => new.sb = img.sb
  /\ "gd" \in fields => new.gd = img.gd
  /\ "inode" \in fields => new.inode = img.inode
  /\ "records" \in fields => new.records = img.records
  /\ "pointers" \in fields => new.pointers = img.pointers
  /\ "text" \in fields => new.text = img.text

Field == {"inode_bitmap", "block_bitmap", "sb", "gd", "inode", "records", "pointers", "text"}

LEMMA UpdateIs ==
  ASSUME NEW img \in Image
  PROVE  /\ \A v \in SUBSET Inode : LET new == [img EXCEPT !.inode_bitmap = v]
                                    IN new.inode_bitmap = v /\ Same(img, new, Field \ {"inode_bitmap"})
         /\ \A v \in SUBSET Block : LET new == [img EXCEPT !.block_bitmap = v]
                                    IN new.block_bitmap = v /\ Same(img, new, Field \ {"block_bitmap"})
         /\ \A v \in [free_inodes : Int, free_blocks : Int] :
              LET new == [img EXCEPT !.sb = v] IN new.sb = v /\ Same(img, new, Field \ {"sb"})
         /\ \A v \in [free_inodes : Int, free_blocks : Int, used_dirs : Int] :
              LET new == [img EXCEPT !.gd = v] IN new.gd = v /\ Same(img, new, Field \ {"gd"})
         /\ \A v \in [Inode -> InodeRecord] :
              LET new == [img EXCEPT !.inode = v] IN new.inode = v /\ Same(img, new, Field \ {"inode"})
         /\ \A v \in [Block -> Written] :
              LET new == [img EXCEPT !.records = v]
              IN new.records = v /\ Same(img, new, Field \ {"records"})
         /\ \A v \in [Block -> Seq(Block)] :
              LET new == [img EXCEPT !.pointers = v]
              IN new.pointers = v /\ Same(img, new, Field \ {"pointers"})
         /\ \A v \in SUBSET Block : LET new == [img EXCEPT !.text = v]
                                    IN new.text = v /\ Same(img, new, Field \ {"text"})
  <1> USE DEF Image, Same, Field
  <1>1. ASSUME NEW v \in SUBSET Inode
        PROVE  LET new == [img EXCEPT !.inode_bitmap = v]
               IN new.inode_bitmap = v /\ Same(img, new, Field \ {"inode_bitmap"})
    OBVIOUS
  <1>2. ASSUME NEW v \in SUBSET Block
        PROVE  LET new == [img EXCEPT !.block_bitmap = v]
               IN new.block_bitmap = v /\ Same(img, new, Field \ {"block_bitmap"})
    OBVIOUS
  <1>3. ASSUME NEW v \in [free_inodes : Int, free_blocks : Int]
        PROVE  LET new == [img EXCEPT !.sb = v] IN new.sb = v /\ Same(img, new, Field \ {"sb"})
    OBVIOUS
  <1>4. ASSUME NEW v \in [free_inodes : Int, free_blocks : Int, used_dirs : Int]
        PROVE  LET new == [img EXCEPT !.gd = v] IN new.gd = v /\ Same(img, new, Field \ {"gd"})
    OBVIOUS
  <1>5. ASSUME NEW v \in [Inode -> InodeRecord]
        PROVE  LET new == [img EXCEPT !.inode = v]
               IN new.inode = v /\ Same(img, new, Field \ {"inode"})
    OBVIOUS
  <1>6. ASSUME NEW v \in [Block -> Written]
        PROVE  LET new == [img EXCEPT !.records = v]
               IN new.records = v /\ Same(img, new, Field \ {"records"})
    OBVIOUS
  <1>7. ASSUME NEW v \in [Block -> Seq(Block)]
        PROVE  LET new == [img EXCEPT !.pointers = v]
               IN new.pointers = v /\ Same(img, new, Field \ {"pointers"})
    OBVIOUS
  <1>8. ASSUME NEW v \in SUBSET Block
        PROVE  LET new == [img EXCEPT !.text = v]
               IN new.text = v /\ Same(img, new, Field \ {"text"})
    OBVIOUS
  <1> HIDE DEF Image, Same, Field
  <1> QED
    BY <1>1, <1>2, <1>3, <1>4, <1>5, <1>6, <1>7, <1>8

LEMMA AddFreeIs ==
  ASSUME NEW img \in Image, NEW m \in Int, NEW n \in Int
  PROVE  Counts(img, AddFree(img, m, n), m, n) /\ Same(img, AddFree(img, m, n), Field \ {"sb", "gd"})
  <1> DEFINE one == [img EXCEPT !.sb.free_inodes = @ + m]
             two == [one EXCEPT !.gd.free_inodes = @ + m]
             three == [two EXCEPT !.sb.free_blocks = @ + n]
             new == [three EXCEPT !.gd.free_blocks = @ + n]
             SB == [free_inodes : Int, free_blocks : Int]
             GD == [free_inodes : Int, free_blocks : Int, used_dirs : Int]
  <1>1. img \in Image /\ img.sb \in SB /\ img.gd \in GD
    BY DEF Image
  <1>2. /\ Same(img, one, Field \ {"sb"}) /\ one.sb \in SB
        /\ one.sb.free_inodes = img.sb.free_inodes + m /\ one.sb.free_blocks = img.sb.free_blocks
    <2> DEFINE v == [img.sb EXCEPT !.free_inodes = @ + m]
    <2>1. v \in SB
      BY <1>1
    <2>2. v.free_inodes = img.sb.free_inodes + m /\ v.free_blocks = img.sb.free_blocks
      BY <1>1
    <2>3. one = [img EXCEPT !.sb = v]
      BY <1>1
    <2> HIDE DEF v, one
    <2> QED
      BY <2>1, <2>2, <2>3, UpdateIs, ZenonT(30)
  <1> HIDE DEF one
  <1>3. /\ Same(one, two, Field \ {"gd"}) /\ two.gd \in GD
        /\ two.gd.free_inodes = one.gd.free_inodes + m /\ two.gd.free_blocks = one.gd.free_blocks
        /\ two.gd.used_dirs = one.gd.used_dirs
    <2> DEFINE v == [one.gd EXCEPT !.free_inodes = @ + m]
    <2>0. one \in Image /\ one.gd \in GD
      BY <1>1, <1>2 DEF Same, Field
    <2>1. v \in GD
      BY <2>0
    <2>2. v.free_inodes = one.gd.free_inodes + m /\ v.free_blocks = one.gd.free_blocks
          /\ v.used_dirs = one.gd.used_dirs
      BY <2>0
    <2>3. two = [one EXCEPT !.gd = v]
      BY <2>0
    <2> HIDE DEF v, two
    <2> QED
      BY <2>0, <2>1, <2>2, <2>3, UpdateIs, ZenonT(30)
  <1> HIDE DEF two
  <1>4. /\ Same(two, three, Field \ {"sb"}) /\ three.sb \in SB
        /\ three.sb.free_blocks = two.sb.free_blocks + n /\ three.sb.free_inodes = two.sb.free_inodes
    <2> DEFINE v == [two.sb EXCEPT !.free_blocks = @ + n]
    <2>0. two \in Image /\ two.sb \in SB
      BY <1>2, <1>3 DEF Same, Field
    <2>1. v \in SB
      BY <2>0
    <2>2. v.free_blocks = two.sb.free_blocks + n /\ v.free_inodes = two.sb.free_inodes
      BY <2>0
    <2>3. three = [two EXCEPT !.sb = v]
      BY <2>0
    <2> HIDE DEF v, three
    <2> QED
      BY <2>0, <2>1, <2>2, <2>3, UpdateIs, ZenonT(30)
  <1> HIDE DEF three
  <1>5. /\ Same(three, new, Field \ {"gd"})
        /\ new.gd.free_blocks = three.gd.free_blocks + n /\ new.gd.free_inodes = three.gd.free_inodes
        /\ new.gd.used_dirs = three.gd.used_dirs
    <2> DEFINE v == [three.gd EXCEPT !.free_blocks = @ + n]
    <2>0. three \in Image /\ three.gd \in GD
      BY <1>3, <1>4 DEF Same, Field
    <2>1. v \in GD
      BY <2>0
    <2>2. v.free_blocks = three.gd.free_blocks + n /\ v.free_inodes = three.gd.free_inodes
          /\ v.used_dirs = three.gd.used_dirs
      BY <2>0
    <2>3. new = [three EXCEPT !.gd = v]
      BY <2>0
    <2> HIDE DEF v, new
    <2> QED
      BY <2>0, <2>1, <2>2, <2>3, UpdateIs, ZenonT(30)
  <1> HIDE DEF new
  <1>6. Counts(img, new, m, n) /\ Same(img, new, Field \ {"sb", "gd"})
    BY <1>2, <1>3, <1>4, <1>5 DEF Counts, Same, Field
  <1>7. AddFree(img, m, n) = new
    BY DEF AddFree, new, three, two, one
  <1> QED
    BY <1>6, <1>7

LEMMA BlocksTyped ==
  ASSUME NEW img, Typed(img), NEW i \in Inode
  PROVE  /\ DataBlocks(img, i) \subseteq Block
         /\ IsFiniteSet(DataBlocks(img, i)) /\ Cardinality(DataBlocks(img, i)) \in Nat
  <1>1. img.inode[i] \in InodeRecord /\ img.pointers \in [Block -> Seq(Block)]
    BY TypedIs
  <1>2. img.inode[i].direct \in Seq(Block) /\ img.inode[i].indirect \in Block \cup {0}
    BY <1>1, InodeIs
  <1>3. \A s \in Seq(Block) : ToSet(s) \subseteq Block
    BY DEF ToSet
  <1>4. DataBlocks(img, i) \subseteq Block
    BY <1>1, <1>2, <1>3 DEF DataBlocks
  <1> QED
    BY <1>4, NumbersFinite

(* How the counters go with the bitmaps.                                   *)
LEMMA CountersAre ==
  ASSUME NEW img
  PROVE  CountersOf(img) <=>
           /\ img.sb.free_inodes = Cardinality(FreeInodes(img))
           /\ img.gd.free_inodes = Cardinality(FreeInodes(img))
           /\ img.sb.free_blocks = Cardinality(FreeBlocks(img))
           /\ img.gd.free_blocks = Cardinality(FreeBlocks(img))
  BY DEF CountersOf

LEMMA CountersFollow ==
  ASSUME NEW img, CountersOf(img), NEW new, NEW m, NEW n, Counts(img, new, m, n),
         Cardinality(FreeInodes(new)) = Cardinality(FreeInodes(img)) + m,
         Cardinality(FreeBlocks(new)) = Cardinality(FreeBlocks(img)) + n
  PROVE  CountersOf(new)
  BY CountersAre DEF Counts

LEMMA InodeTaken ==
  ASSUME NEW img, NEW new, NEW i \in Inode \ img.inode_bitmap,
         new.inode_bitmap = img.inode_bitmap \cup {i}
  PROVE  Cardinality(FreeInodes(new)) = Cardinality(FreeInodes(img)) + -1
  <1>1. FreeInodes(new) = FreeInodes(img) \ {i} /\ i \in FreeInodes(img)
    BY DEF FreeInodes
  <1>2. IsFiniteSet(FreeInodes(img)) /\ Cardinality(FreeInodes(img)) \in Nat
    BY NumbersFinite DEF FreeInodes
  <1>3. Cardinality(FreeInodes(img) \ {i}) = Cardinality(FreeInodes(img)) - 1
    BY <1>1, <1>2, FS_RemoveElement
  <1> QED
    BY <1>1, <1>2, <1>3

LEMMA InodeFreed ==
  ASSUME NEW img, NEW new, NEW i \in Inode \cap img.inode_bitmap,
         new.inode_bitmap = img.inode_bitmap \ {i}
  PROVE  Cardinality(FreeInodes(new)) = Cardinality(FreeInodes(img)) + 1
  <1>1. FreeInodes(new) = FreeInodes(img) \cup {i} /\ i \notin FreeInodes(img)
    BY DEF FreeInodes
  <1>2. IsFiniteSet(FreeInodes(img))
    BY NumbersFinite DEF FreeInodes
  <1> QED
    BY <1>1, <1>2, FS_AddElement

LEMMA BlocksTaken ==
  ASSUME NEW img, NEW new, NEW bs \in SUBSET (Block \ img.block_bitmap),
         new.block_bitmap = img.block_bitmap \cup bs
  PROVE  Cardinality(FreeBlocks(new)) = Cardinality(FreeBlocks(img)) + -Cardinality(bs)
  <1>1. FreeBlocks(new) = FreeBlocks(img) \ bs /\ FreeBlocks(img) \cap bs = bs
    BY DEF FreeBlocks
  <1>2. IsFiniteSet(FreeBlocks(img)) /\ Cardinality(FreeBlocks(img)) \in Nat /\ Cardinality(bs) \in Nat
    BY NumbersFinite DEF FreeBlocks
  <1>3. Cardinality(FreeBlocks(img) \ bs) = Cardinality(FreeBlocks(img)) - Cardinality(bs)
    BY <1>1, <1>2, FS_Difference
  <1> QED
    BY <1>1, <1>2, <1>3

LEMMA BlocksFreed ==
  ASSUME NEW img, NEW new, NEW bs \in SUBSET (Block \cap img.block_bitmap),
         new.block_bitmap = img.block_bitmap \ bs
  PROVE  Cardinality(FreeBlocks(new)) = Cardinality(FreeBlocks(img)) + Cardinality(bs)
  <1>1. FreeBlocks(new) = FreeBlocks(img) \cup bs /\ FreeBlocks(img) \cap bs = {}
    BY DEF FreeBlocks
  <1>2. IsFiniteSet(FreeBlocks(img)) /\ Cardinality(FreeBlocks(img)) \in Nat /\ IsFiniteSet(bs)
        /\ Cardinality(bs) \in Nat
    BY NumbersFinite DEF FreeBlocks
  <1>3. Cardinality(FreeBlocks(img) \cup bs) = Cardinality(FreeBlocks(img)) + Cardinality(bs) - Cardinality({})
    BY <1>1, <1>2, FS_Union
  <1> QED
    BY <1>1, <1>2, <1>3, FS_EmptySet

(* Who owns the blocks when a file gets some that were free, or is freed.  *)
LEMMA BlocksGrow ==
  ASSUME NEW img, BlocksOK(img), NEW new, NEW j, NEW bs, bs \cap img.block_bitmap = {},
         new.block_bitmap = img.block_bitmap \cup bs,
         new.inode_bitmap = img.inode_bitmap \cup {j},
         \A i \in img.inode_bitmap : i # j => DataBlocks(new, i) = DataBlocks(img, i),
         DataBlocks(new, j) = bs \cup (IF j \in img.inode_bitmap THEN DataBlocks(img, j) ELSE {})
  PROVE  BlocksOK(new)
  <1> DEFINE Old(i) == IF i \in img.inode_bitmap THEN DataBlocks(img, i) ELSE {}
  <1>1. \A i \in new.inode_bitmap : DataBlocks(new, i) = IF i = j THEN bs \cup Old(j) ELSE Old(i)
    OBVIOUS
  <1>2. \A i : Old(i) \subseteq img.block_bitmap
    BY DEF BlocksOK
  <1>3. \A i, k : i # k => Old(i) \cap Old(k) = {}
    BY DEF BlocksOK
  <1>4. \A b \in img.block_bitmap : \E i \in img.inode_bitmap : b \in Old(i)
    BY DEF BlocksOK
  <1> HIDE DEF Old
  <1>5. ASSUME NEW i \in new.inode_bitmap, NEW k \in new.inode_bitmap, i # k
        PROVE  DataBlocks(new, i) \cap DataBlocks(new, k) = {}
    <2>1. CASE i = j
      BY <1>1, <1>2, <1>3, <1>5, <2>1
    <2>2. CASE k = j
      BY <1>1, <1>2, <1>3, <1>5, <2>2
    <2>3. CASE i # j /\ k # j
      BY <1>1, <1>3, <1>5, <2>3
    <2> QED
      BY <2>1, <2>2, <2>3
  <1>6. UNION {DataBlocks(new, i) : i \in new.inode_bitmap} \subseteq new.block_bitmap
    BY <1>1, <1>2
  <1>7. \A b \in new.block_bitmap : \E i \in new.inode_bitmap : b \in DataBlocks(new, i)
    BY <1>1, <1>4
  <1> QED
    BY <1>5, <1>6, <1>7 DEF BlocksOK

LEMMA BlocksShrink ==
  ASSUME NEW img, BlocksOK(img), NEW new, NEW j \in img.inode_bitmap,
         new.block_bitmap = img.block_bitmap \ DataBlocks(img, j),
         new.inode_bitmap = img.inode_bitmap \ {j},
         \A i \in img.inode_bitmap : DataBlocks(new, i) = DataBlocks(img, i)
  PROVE  BlocksOK(new)
  <1>1. \A i, k \in img.inode_bitmap : i # k => DataBlocks(img, i) \cap DataBlocks(img, k) = {}
    BY DEF BlocksOK
  <1>2. \A i \in img.inode_bitmap : DataBlocks(img, i) \subseteq img.block_bitmap
    BY DEF BlocksOK
  <1>3. \A b \in img.block_bitmap : \E i \in img.inode_bitmap : b \in DataBlocks(img, i)
    BY DEF BlocksOK
  <1>4. UNION {DataBlocks(new, i) : i \in new.inode_bitmap} \subseteq new.block_bitmap
    BY <1>1, <1>2
  <1>5. \A b \in new.block_bitmap : \E i \in new.inode_bitmap : b \in DataBlocks(new, i)
    BY <1>3
  <1> QED
    BY <1>1, <1>4, <1>5 DEF BlocksOK
-----------------------------------------------------------------------------
(* What the operations of Ext2Directory write.                             *)
PutRecords(img, v) == [img EXCEPT !.records = v]

PutInode(img, v) == [img EXCEPT !.inode = v]

PutBlock(img, b, r) == PutRecords(img, [img.records EXCEPT ![b] = r])

PutFile(img, i, f) == PutInode(img, [img.inode EXCEPT ![i] = f])

(* new is img but for the one block                                        *)
BlockPut(img, new, b, r) ==
  /\ Typed(new) /\ Same(img, new, Field \ {"records"})
  /\ \A c \in Block : new.records[c] = IF c = b THEN r ELSE img.records[c]

LEMMA PutIs ==
  ASSUME NEW img \in Image
  PROVE  /\ \A v \in [Block -> Written] :
              /\ PutRecords(img, v).records = v
              /\ Same(img, PutRecords(img, v), Field \ {"records"})
         /\ \A v \in [Inode -> InodeRecord] :
              /\ PutInode(img, v).inode = v
              /\ Same(img, PutInode(img, v), Field \ {"inode"})
  BY UpdateIs DEF PutRecords, PutInode

LEMMA BlockWritten ==
  ASSUME NEW img, Typed(img), NEW b \in Block, NEW r, BlockOK(r),
         NEW new, new = PutBlock(img, b, r)
  PROVE  BlockPut(img, new, b, r)
  <1> DEFINE v == [img.records EXCEPT ![b] = r]
  <1>1. img \in Image /\ img.records \in [Block -> Written] /\ r \in Written
    BY TypedIs DEF Typed, BlockOK
  <1>2. v \in [Block -> Written]
    BY <1>1
  <1>3. new = PutRecords(img, v)
    BY DEF PutBlock
  <1>4. \A c \in Block : v[c] = IF c = b THEN r ELSE img.records[c]
    BY <1>1
  <1> HIDE DEF v
  <1>5. Same(img, new, Field \ {"records"}) /\ new.records = v
    BY <1>1, <1>2, <1>3, PutIs, ZenonT(30)
  <1>6. new \in Image /\ new.pointers = img.pointers /\ new.inode = img.inode
    BY <1>5 DEF Same, Field
  <1>7. Typed(new)
    BY <1>4, <1>5, <1>6 DEF Typed
  <1> QED
    BY <1>4, <1>5, <1>7 DEF BlockPut

LEMMA EnterIs ==
  ASSUME NEW img, NEW d, NEW e, NEW record
  PROVE  Enter(img, d, e, record) =
           [img EXCEPT !.records[img.inode[d].direct[e[1]]] =
              Fill(img.records[img.inode[d].direct[e[1]]], e[2], record)]
  BY DEF Enter, Fill

LEMMA RecordEntered ==
  ASSUME NEW img, Typed(img), NEW d \in Inode, NEW e, NEW record,
         NEW b \in Block, b = img.inode[d].direct[e[1]],
         NEW r, r = Fill(img.records[b], e[2], record), BlockOK(r),
         NEW new, new = Enter(img, d, e, record)
  PROVE  BlockPut(img, new, b, r)
  <1>1. new = [img EXCEPT !.records[b] = r]
    BY EnterIs, ZenonT(30)
  <1>2. new = PutBlock(img, b, r)
    BY <1>1 DEF Typed, Image, PutRecords, PutBlock
  <1> QED
    BY <1>2, BlockWritten, Zenon

LEMMA RecordChanged ==
  ASSUME NEW img, Typed(img), NEW d \in Inode, NEW e, NEW record,
         NEW b \in Block, b = img.inode[d].direct[e[1]],
         NEW r, r = [img.records[b] EXCEPT ![e[2]] = record], BlockOK(r),
         NEW new, new = Change(img, d, e, record)
  PROVE  BlockPut(img, new, b, r)
  <1>1. new = [img EXCEPT !.records[b] = r]
    BY ZenonT(30) DEF Change
  <1>2. new = PutBlock(img, b, r)
    BY <1>1 DEF Typed, Image, PutRecords, PutBlock
  <1> QED
    BY <1>2, BlockWritten, ZenonT(30)

PutInodeBitmap(img, v) == [img EXCEPT !.inode_bitmap = v]

PutBlockBitmap(img, v) == [img EXCEPT !.block_bitmap = v]

LEMMA PutBitmapIs ==
  ASSUME NEW img \in Image
  PROVE  /\ \A v \in SUBSET Inode :
              /\ PutInodeBitmap(img, v).inode_bitmap = v
              /\ Same(img, PutInodeBitmap(img, v), Field \ {"inode_bitmap"})
         /\ \A v \in SUBSET Block :
              /\ PutBlockBitmap(img, v).block_bitmap = v
              /\ Same(img, PutBlockBitmap(img, v), Field \ {"block_bitmap"})
  BY UpdateIs DEF PutInodeBitmap, PutBlockBitmap

LEMMA InodeSet ==
  ASSUME NEW img \in Image, NEW i \in Inode
  PROVE  LET new == set_inode_in_use(img, i)
         IN /\ Same(img, new, Field \ {"sb", "gd", "inode_bitmap"}) /\ Counts(img, new, -1, 0)
            /\ new.inode_bitmap = img.inode_bitmap \cup {i}
  <1> DEFINE one == AddFree(img, -1, 0)
             new == set_inode_in_use(img, i)
  <1>1. Counts(img, one, -1, 0) /\ Same(img, one, Field \ {"sb", "gd"})
    BY AddFreeIs
  <1>2. one \in Image /\ one.inode_bitmap \cup {i} \in SUBSET Inode
    BY <1>1 DEF Same, Image
  <1>3. new = PutInodeBitmap(one, one.inode_bitmap \cup {i})
    BY DEF set_inode_in_use, PutInodeBitmap
  <1> HIDE DEF one, new
  <1>4. new.inode_bitmap = one.inode_bitmap \cup {i} /\ Same(one, new, Field \ {"inode_bitmap"})
    <2> DEFINE v == one.inode_bitmap \cup {i}
    <2>1. v \in SUBSET Inode /\ new = PutInodeBitmap(one, v)
      BY <1>2, <1>3
    <2> HIDE DEF v
    <2>2. new.inode_bitmap = v /\ Same(one, new, Field \ {"inode_bitmap"})
      BY <1>2, <2>1, PutBitmapIs, Zenon
    <2> QED
      BY <2>2 DEF v
  <1>5. Same(img, new, Field \ {"sb", "gd", "inode_bitmap"})
    BY <1>1, <1>4 DEF Same, Field
  <1>6. Counts(img, new, -1, 0) /\ one.inode_bitmap = img.inode_bitmap
    BY <1>1, <1>4 DEF Same, Field, Counts
  <1> QED
    BY <1>4, <1>5, <1>6 DEF new

LEMMA BlocksSet ==
  ASSUME NEW img \in Image, NEW bs \in SUBSET Block
  PROVE  LET new == set_blocks_in_use(img, bs)
         IN /\ Same(img, new, Field \ {"sb", "gd", "block_bitmap"})
            /\ Counts(img, new, 0, -Cardinality(bs))
            /\ new.block_bitmap = img.block_bitmap \cup bs
  <1> DEFINE one == AddFree(img, 0, -Cardinality(bs))
             new == set_blocks_in_use(img, bs)
  <1>0. -Cardinality(bs) \in Int
    BY NumbersFinite
  <1>1. Counts(img, one, 0, -Cardinality(bs)) /\ Same(img, one, Field \ {"sb", "gd"})
    BY <1>0, AddFreeIs
  <1>2. one \in Image /\ one.block_bitmap \cup bs \in SUBSET Block
    BY <1>1 DEF Same, Image
  <1>3. new = PutBlockBitmap(one, one.block_bitmap \cup bs)
    BY DEF set_blocks_in_use, PutBlockBitmap
  <1> HIDE DEF one, new
  <1>4. new.block_bitmap = one.block_bitmap \cup bs /\ Same(one, new, Field \ {"block_bitmap"})
    <2> DEFINE v == one.block_bitmap \cup bs
    <2>1. v \in SUBSET Block /\ new = PutBlockBitmap(one, v)
      BY <1>2, <1>3
    <2> HIDE DEF v
    <2>2. new.block_bitmap = v /\ Same(one, new, Field \ {"block_bitmap"})
      BY <1>2, <2>1, PutBitmapIs, Zenon
    <2> QED
      BY <2>2 DEF v
  <1>5. Same(img, new, Field \ {"sb", "gd", "block_bitmap"})
    BY <1>1, <1>4 DEF Same, Field
  <1>6. Counts(img, new, 0, -Cardinality(bs)) /\ one.block_bitmap = img.block_bitmap
    BY <1>1, <1>4 DEF Same, Field, Counts
  <1> QED
    BY <1>4, <1>5, <1>6 DEF new

LEMMA FilePut ==
  ASSUME NEW img, Typed(img), NEW fs \in [Inode -> InodeRecord], \A i \in Inode : FileOK(fs[i]),
         NEW new, new = PutInode(img, fs)
  PROVE  Typed(new) /\ Same(img, new, Field \ {"inode"}) /\ new.inode = fs
  <1>1. img \in Image
    BY DEF Typed
  <1>2. Same(img, new, Field \ {"inode"}) /\ new.inode = fs
    BY <1>1, PutIs
  <1>3. new \in Image /\ new.records = img.records /\ new.pointers = img.pointers
    BY <1>2 DEF Same, Field
  <1>4. Typed(new)
    BY <1>2, <1>3 DEF Typed
  <1> QED
    BY <1>2, <1>4

Fresh(type) == [mode |-> type, links |-> 0, dtime |-> FALSE, direct |-> <<>>, indirect |-> 0]

LEMMA FreshIs ==
  ASSUME NEW type \in Type
  PROVE  Fresh(type) \in InodeRecord /\ FileOK(Fresh(type)) /\ Fresh(type).direct = <<>>
         /\ Fresh(type).indirect = 0 /\ Fresh(type).links = 0 /\ Fresh(type).mode = type
         /\ ~Fresh(type).dtime
  <1>1. <<>> \in Seq(Block) /\ Len(<<>>) = 0 /\ 0 <= Direct
    BY SizeAssumption
  <1>2. Fresh(type) \in InodeRecord
    BY <1>1 DEF Fresh, InodeRecord, Mode
  <1>3. Fresh(type).direct = <<>> /\ Fresh(type).indirect = 0 /\ Fresh(type).links = 0
        /\ Fresh(type).mode = type /\ ~Fresh(type).dtime
    BY DEF Fresh
  <1>4. FileOK(Fresh(type))
    BY <1>1, <1>3 DEF FileOK, Once
  <1> QED
    BY <1>2, <1>3, <1>4

LEMMA InodeAllocated ==
  ASSUME NEW img, Typed(img), FreeInodes(img) # {}, NEW type \in Type
  PROVE  LET i == NextInode(img)
             new == allocate_inode(img, type)
         IN /\ i \in Inode \ img.inode_bitmap
            /\ Typed(new) /\ Counts(img, new, -1, 0)
            /\ Same(img, new, {"block_bitmap", "records", "pointers", "text"})
            /\ new.inode_bitmap = img.inode_bitmap \cup {i}
            /\ new.inode = [img.inode EXCEPT ![i] = Fresh(type)]
  <1> DEFINE i == NextInode(img)
             one == set_inode_in_use(img, i)
             new == allocate_inode(img, type)
             fs == [img.inode EXCEPT ![i] = Fresh(type)]
  <1>1. i \in Inode \ img.inode_bitmap /\ img \in Image
    BY NextInodeIs DEF Typed
  <1> HIDE DEF i
  <1>2. /\ Same(img, one, Field \ {"sb", "gd", "inode_bitmap"}) /\ Counts(img, one, -1, 0)
        /\ one.inode_bitmap = img.inode_bitmap \cup {i}
    BY <1>1, InodeSet
  <1>3. new = [one EXCEPT !.inode = [one.inode EXCEPT ![i] = Fresh(type)]]
    BY DEF allocate_inode, i, Fresh
  <1> HIDE DEF one, new
  <1>4. one \in Image /\ one.inode = img.inode /\ one.records = img.records /\ one.pointers = img.pointers
        /\ one.block_bitmap = img.block_bitmap /\ one.text = img.text
    BY <1>2 DEF Same, Field
  <1>5. Typed(one)
    BY <1>4 DEF Typed
  <1>6. fs \in [Inode -> InodeRecord] /\ \A j \in Inode : FileOK(fs[j])
    BY FreshIs, TypedIs DEF Typed
  <1> HIDE DEF fs
  <1>7. Typed(new) /\ Same(one, new, Field \ {"inode"}) /\ new.inode = fs
    <2>1. new = PutInode(one, fs)
      BY <1>3, <1>4 DEF fs, PutInode
    <2> QED
      BY <1>5, <1>6, <2>1, FilePut
  <1>8. Same(img, new, {"block_bitmap", "records", "pointers", "text"})
    BY <1>4, <1>7 DEF Same, Field
  <1>9. Counts(img, new, -1, 0) /\ new.inode_bitmap = img.inode_bitmap \cup {i}
    BY <1>2, <1>7 DEF Same, Field, Counts
  <1> QED
    BY <1>1, <1>7, <1>8, <1>9 DEF new, i, fs

(* An inode with another count of links, or another mark of its deletion.  *)
FileWith(f, links, dtime) ==
  [mode |-> f.mode, links |-> links, dtime |-> dtime, direct |-> f.direct, indirect |-> f.indirect]

LinksPut(img, new, i, links, dtime) ==
  /\ Typed(new) /\ Same(img, new, Field \ {"inode"})
  /\ \A j \in Inode \ {i} : new.inode[j] = img.inode[j]
  /\ new.inode[i].mode = img.inode[i].mode /\ new.inode[i].links = links /\ new.inode[i].dtime = dtime
  /\ new.inode[i].direct = img.inode[i].direct /\ new.inode[i].indirect = img.inode[i].indirect

LEMMA FileWithIs ==
  ASSUME NEW f \in InodeRecord, FileOK(f), NEW links \in Nat, NEW dtime \in BOOLEAN
  PROVE  FileWith(f, links, dtime) \in InodeRecord /\ FileOK(FileWith(f, links, dtime))
  <1>1. FileWith(f, links, dtime) \in InodeRecord
    BY InodeIs DEF InodeRecord, FileWith
  <1>2. FileWith(f, links, dtime).direct = f.direct /\ FileWith(f, links, dtime).indirect = f.indirect
    BY DEF FileWith
  <1> QED
    BY <1>1, <1>2 DEF FileOK

LEMMA InodePut ==
  ASSUME NEW img, Typed(img), NEW i \in Inode, NEW links \in Nat, NEW dtime \in BOOLEAN,
         NEW new, new = PutFile(img, i, FileWith(img.inode[i], links, dtime))
  PROVE  LinksPut(img, new, i, links, dtime)
  <1> DEFINE f == FileWith(img.inode[i], links, dtime)
             fs == [img.inode EXCEPT ![i] = f]
  <1>1. img.inode \in [Inode -> InodeRecord] /\ img.inode[i] \in InodeRecord /\ FileOK(img.inode[i])
    BY TypedIs DEF Typed
  <1>2. f \in InodeRecord /\ FileOK(f)
    BY <1>1, FileWithIs
  <1>3. f.mode = img.inode[i].mode /\ f.links = links /\ f.dtime = dtime
        /\ f.direct = img.inode[i].direct /\ f.indirect = img.inode[i].indirect
    BY DEF FileWith
  <1>7. new = PutInode(img, fs)
    BY DEF PutFile
  <1> HIDE DEF f
  <1>5. fs \in [Inode -> InodeRecord] /\ \A j \in Inode : fs[j] = IF j = i THEN f ELSE img.inode[j]
    BY <1>1, <1>2
  <1> HIDE DEF fs
  <1>6. \A j \in Inode : FileOK(fs[j])
    BY <1>2, <1>5 DEF Typed
  <1>8. Typed(new) /\ Same(img, new, Field \ {"inode"}) /\ new.inode = fs
    BY <1>5, <1>6, <1>7, FilePut
  <1> QED
    BY <1>3, <1>5, <1>8 DEF LinksPut

(* i gets a link, and before it gets that is taken when it was free.        *)
Taken(img, new, i, type) ==
  /\ Typed(new) /\ Same(img, new, {"block_bitmap", "pointers", "text"})
  /\ new.inode_bitmap = img.inode_bitmap \cup {i}
  /\ Counts(img, new, IF i \in img.inode_bitmap THEN 0 ELSE -1, 0)
  /\ \A j \in Inode \ {i} : new.inode[j] = img.inode[j]
  /\ LET f == IF i \in img.inode_bitmap THEN img.inode[i] ELSE Fresh(type)
     IN /\ new.inode[i].mode = f.mode /\ new.inode[i].links = f.links + 1 /\ new.inode[i].dtime = f.dtime
        /\ new.inode[i].direct = f.direct /\ new.inode[i].indirect = f.indirect

LinkedOnce(img, i) == [img EXCEPT !.inode[i].links = @ + 1]

LEMMA InodeLinked ==
  ASSUME NEW img, Typed(img), NEW i \in Inode, NEW new, new = LinkedOnce(img, i)
  PROVE  LinksPut(img, new, i, img.inode[i].links + 1, img.inode[i].dtime)
  <1> DEFINE links == img.inode[i].links + 1
             dtime == img.inode[i].dtime
             f == FileWith(img.inode[i], links, dtime)
  <1>1. img.inode \in [Inode -> InodeRecord] /\ img.inode[i] \in InodeRecord /\ img \in Image
    BY TypedIs DEF Typed
  <1>2. links \in Nat /\ dtime \in BOOLEAN
    BY <1>1, InodeIs
  <1>3. [img.inode[i] EXCEPT !.links = links] = f
    BY <1>1 DEF InodeRecord, FileWith
  <1>4. new = [img EXCEPT !.inode = [img.inode EXCEPT ![i] = [img.inode[i] EXCEPT !.links = links]]]
    BY <1>1 DEF Image, LinkedOnce
  <1>5. new = PutFile(img, i, f)
    BY <1>3, <1>4 DEF PutInode, PutFile
  <1> HIDE DEF links, dtime
  <1>6. LinksPut(img, new, i, links, dtime)
    BY <1>2, <1>5, InodePut
  <1> QED
    BY <1>6 DEF links, dtime

LEMMA InodeFilled ==
  ASSUME NEW img, Typed(img), NEW link \in img.inode_bitmap \cup {0}, NEW type \in Type,
         link # 0 \/ FreeInodes(img) # {},
         NEW i, i = IF link = 0 THEN NextInode(img) ELSE link,
         NEW filled, filled = IF link = 0 THEN allocate_inode(img, type) ELSE img,
         NEW new, new = LinkedOnce(filled, i)
  PROVE  /\ Taken(img, new, i, type) /\ new.records = img.records /\ i \in Inode
         /\ link = 0 <=> i \notin img.inode_bitmap
  <1>1. img \in Image /\ img.inode_bitmap \subseteq Inode /\ img.inode \in [Inode -> InodeRecord]
    BY TypedIs DEF Typed
  <1>2. CASE link = 0
    <2>1. /\ i \in Inode \ img.inode_bitmap
          /\ Typed(filled) /\ Counts(img, filled, -1, 0)
          /\ Same(img, filled, {"block_bitmap", "records", "pointers", "text"})
          /\ filled.inode_bitmap = img.inode_bitmap \cup {i}
          /\ filled.inode = [img.inode EXCEPT ![i] = Fresh(type)]
      BY <1>2, InodeAllocated
    <2>2. filled.inode[i] = Fresh(type) /\ \A j \in Inode \ {i} : filled.inode[j] = img.inode[j]
      BY <1>1, <2>1
    <2>3. LinksPut(filled, new, i, filled.inode[i].links + 1, filled.inode[i].dtime)
      BY <2>1, InodeLinked
    <2>4. new.records = img.records /\ Same(img, new, {"block_bitmap", "pointers", "text"})
          /\ new.inode_bitmap = img.inode_bitmap \cup {i} /\ Counts(img, new, -1, 0)
      BY <2>1, <2>3 DEF Same, Field, Counts, LinksPut
    <2>5. Taken(img, new, i, type)
      BY <2>1, <2>2, <2>3, <2>4 DEF Taken, LinksPut
    <2> QED
      BY <1>2, <2>1, <2>4, <2>5
  <1>3. CASE link # 0
    <2>1. i = link /\ i \in Inode /\ i \in img.inode_bitmap /\ filled = img
      BY <1>1, <1>3
    <2>3. LinksPut(img, new, i, img.inode[i].links + 1, img.inode[i].dtime)
      BY <2>1, InodeLinked
    <2>6. new.sb = img.sb /\ new.gd = img.gd /\ new.records = img.records
          /\ new.inode_bitmap = img.inode_bitmap
          /\ Same(img, new, {"block_bitmap", "pointers", "text"})
      BY <2>3 DEF Same, Field, LinksPut
    <2>7. Counts(img, new, 0, 0)
      BY <1>1, <2>6 DEF Counts, Image
    <2>4. new.inode_bitmap = img.inode_bitmap \cup {i}
      BY <2>1, <2>6
    <2>5. Taken(img, new, i, type)
      BY <2>1, <2>3, <2>4, <2>6, <2>7 DEF Taken, LinksPut
    <2> QED
      BY <1>3, <2>1, <2>5, <2>6
  <1> QED
    BY <1>2, <1>3
-----------------------------------------------------------------------------
(* No two directory blocks are the same one, and all are in use.           *)
SlotBlock(img, s) == img.inode[s[1]].direct[s[2]]

LEMMA SlotsApart ==
  ASSUME NEW img, Typed(img), BlocksOK(img), NEW s \in Slots(img)
  PROVE  /\ SlotBlock(img, s) \in img.block_bitmap
         /\ \A u \in Slots(img) : u # s => SlotBlock(img, u) # SlotBlock(img, s)
  <1>1. \A u \in Slots(img) : /\ u[1] \in img.inode_bitmap /\ u[1] \in Inode /\ u = <<u[1], u[2]>>
                              /\ u[2] \in 1 .. Len(img.inode[u[1]].direct)
                              /\ SlotBlock(img, u) \in DataBlocks(img, u[1])
    <2>1. TAKE u \in Slots(img)
    <2>2. /\ u[1] \in img.inode_bitmap /\ u[1] \in Inode /\ u = <<u[1], u[2]>>
          /\ u[2] \in 1 .. Len(img.inode[u[1]].direct)
      BY SlotIs, TypedIs
    <2>3. SlotBlock(img, u) \in ToSet(img.inode[u[1]].direct)
      <3>1. img.inode[u[1]].direct \in Seq(Block)
        BY <2>2, TypedIs, InodeIs
      <3> QED
        BY <2>2, <3>1 DEF SlotBlock, ToSet
    <2> QED
      BY <2>2, <2>3 DEF DataBlocks
  <1>2. SlotBlock(img, s) \in img.block_bitmap
    BY <1>1 DEF BlocksOK
  <1>3. ASSUME NEW u \in Slots(img), u # s, SlotBlock(img, u) = SlotBlock(img, s)
        PROVE  FALSE
    <2>1. u[1] = s[1]
      BY <1>1, <1>3 DEF BlocksOK
    <2>2. u[2] = s[2]
      <3>1. Once(img.inode[s[1]].direct)
        BY <1>1 DEF Typed, FileOK
      <3>2. u[2] \in 1 .. Len(img.inode[s[1]].direct) /\ s[2] \in 1 .. Len(img.inode[s[1]].direct)
        BY <1>1, <2>1
      <3>3. img.inode[s[1]].direct[u[2]] = img.inode[s[1]].direct[s[2]]
        BY <1>3, <2>1 DEF SlotBlock
      <3> QED
        BY <3>1, <3>2, <3>3 DEF Once
    <2> QED
      BY <1>1, <1>3, <2>1, <2>2
  <1> QED
    BY <1>2, <1>3

(* The record the checker begins at is one of the names of the root.       *)
LEMMA RootIs ==
  ASSUME NEW img, Typed(img), DirsOK(img), Root \in UsedDirectories(img)
  PROVE  RootOK(img) <=> /\ Place(<<Root, 1>>, 0) \in LiveRecords(img)
                         /\ IsRoot(Entry(img, Place(<<Root, 1>>, 0)))
  <1> DEFINE s == <<Root, 1>>
             r == img.records[img.inode[Root].direct[1]]
  <1>1. s[1] = Root /\ s[2] = 1 /\ Content(img, s) = r
    BY DEF Content
  <1>2. Root \in Inode /\ img.inode[Root].direct \in Seq(Block)
    BY NumbersFinite, TypedIs, InodeIs
  <1>3. s \in Slots(img) <=> img.inode[Root].direct # <<>>
    <2>1. s \in UsedDirectories(img) \X Nat
      OBVIOUS
    <2>2. img.inode[Root].direct # <<>> <=> 1 \in 1 .. Len(img.inode[Root].direct)
      BY <1>2
    <2> QED
      BY <1>1, <2>1, <2>2 DEF Slots
  <1> HIDE DEF s
  <1>4. ASSUME Place(s, 0) \in LiveRecords(img), IsRoot(Entry(img, Place(s, 0)))
        PROVE  RootOK(img)
    <2>1. PICK u \in Slots(img) : \E w \in Live(Content(img, u)) : Place(s, 0) = Place(u, w)
      BY <1>4, PlaceIs
    <2>2. PICK w \in Live(Content(img, u)) : Place(s, 0) = Place(u, w)
      BY <2>1
    <2>3. s = u /\ w = 0
      <3>1. Place(s, 0)[1] = s[1] /\ Place(s, 0)[2] = <<s[2], 0>>
        BY DEF Place
      <3>2. Place(u, w)[1] = u[1] /\ Place(u, w)[2] = <<u[2], w>>
        BY DEF Place
      <3>3. u = <<u[1], u[2]>>
        BY SlotIs
      <3> QED
        BY <1>1, <2>2, <3>1, <3>2, <3>3 DEF s
    <2>4. s \in Slots(img) /\ 0 \in Live(r)
      BY <1>1, <2>1, <2>2, <2>3
    <2>5. Entry(img, Place(s, 0)) = r[0]
      BY <1>1, <2>4, PlaceIs
    <2>6. DirBlock(r)
      BY <1>1, <2>4 DEF DirsOK
    <2>7. 0 \in DOMAIN r
      BY <2>4, <2>6, DirBlockWords
    <2> QED
      BY <1>3, <1>4, <2>4, <2>5, <2>7 DEF RootOK
  <1>5. ASSUME RootOK(img)
        PROVE  Place(s, 0) \in LiveRecords(img) /\ IsRoot(Entry(img, Place(s, 0)))
    <2>1. s \in Slots(img)
      BY <1>3, <1>5 DEF RootOK
    <2>2. DirBlock(r)
      BY <1>1, <2>1 DEF DirsOK
    <2>3. 0 \in Walk(r) /\ r[0].inode # 0 /\ IsRoot(r[0])
      <3>1. 0 \in Walk(r)
        BY <2>2 DEF DirBlock, Chain
      <3>2. IsRoot(r[0])
        BY <1>5 DEF RootOK
      <3>3. r[0].inode # 0
        BY <3>2 DEF IsRoot, Root
      <3> QED
        BY ONLY <3>1, <3>2, <3>3
    <2>4. 0 \in Live(r)
      BY <2>2, <2>3, DirBlockWords
    <2>5. Place(s, 0) \in LiveRecords(img) /\ Entry(img, Place(s, 0)) = r[0]
      <3> HIDE DEF r
      <3>1. 0 \in Live(Content(img, s))
        BY <1>1, <2>4
      <3>2. Place(s, 0) \in LiveRecords(img) /\ Entry(img, Place(s, 0)) = Content(img, s)[0]
        BY ONLY Typed(img), <2>1, <3>1, PlaceIs
      <3> QED
        BY <1>1, <3>2
    <2> QED
      BY <2>3, <2>5
  <1> QED
    BY <1>4, <1>5 DEF s

(* A file that gets its first link is a directory without blocks, or none. *)
LEMMA TakenIs ==
  ASSUME NEW img, Typed(img), Accounted(img), NEW i \in Inode, NEW type \in Type,
         NEW new, Taken(img, new, i, type)
  PROVE  /\ Accounted(new)
         /\ UsedDirectories(new) = UsedDirectories(img) \cup
              (IF i \notin img.inode_bitmap /\ type = "dir" THEN {i} ELSE {})
         /\ Slots(new) = Slots(img)
         /\ \A s \in Slots(img) : SlotBlock(new, s) = SlotBlock(img, s)
         /\ (\A d \in UsedDirectories(img) : img.inode[d].indirect = 0) =>
              \A d \in UsedDirectories(new) : new.inode[d].indirect = 0
         /\ \A j \in img.inode_bitmap : /\ new.inode[j].mode = img.inode[j].mode
                                        /\ j # i => new.inode[j].links = img.inode[j].links
                                        /\ new.inode[j].dtime = img.inode[j].dtime
         /\ i \in img.inode_bitmap \/ ~new.inode[i].dtime
         /\ new.inode[i].links = IF i \in img.inode_bitmap THEN img.inode[i].links + 1 ELSE 1
         /\ i \notin img.inode_bitmap => (IsDir(new, i) <=> type = "dir")
  <1>1. /\ Typed(new) /\ new.block_bitmap = img.block_bitmap /\ new.pointers = img.pointers
        /\ new.inode_bitmap = img.inode_bitmap \cup {i}
        /\ Counts(img, new, IF i \in img.inode_bitmap THEN 0 ELSE -1, 0)
        /\ \A j \in Inode \ {i} : new.inode[j] = img.inode[j]
    BY DEF Taken, Same
  <1>2. ASSUME i \in img.inode_bitmap
        PROVE  /\ new.inode[i].mode = img.inode[i].mode /\ new.inode[i].links = img.inode[i].links + 1
               /\ new.inode[i].dtime = img.inode[i].dtime
               /\ new.inode[i].direct = img.inode[i].direct
               /\ new.inode[i].indirect = img.inode[i].indirect
    BY <1>2 DEF Taken
  <1>3. ASSUME i \notin img.inode_bitmap
        PROVE  /\ new.inode[i].mode = type /\ new.inode[i].links = 1 /\ ~new.inode[i].dtime
               /\ new.inode[i].direct = <<>> /\ new.inode[i].indirect = 0
    <2>1. /\ new.inode[i].mode = Fresh(type).mode /\ new.inode[i].links = Fresh(type).links + 1
          /\ new.inode[i].direct = Fresh(type).direct /\ new.inode[i].indirect = Fresh(type).indirect
          /\ new.inode[i].dtime = Fresh(type).dtime
      BY <1>3 DEF Taken
    <2> QED
      BY <2>1, FreshIs
  <1>4. img.inode_bitmap \subseteq Inode /\ img.block_bitmap \subseteq Block
    BY TypedIs
  <1>5. \A j \in img.inode_bitmap :
          /\ new.inode[j].mode = img.inode[j].mode
          /\ new.inode[j].direct = img.inode[j].direct /\ new.inode[j].indirect = img.inode[j].indirect
          /\ j # i => new.inode[j].links = img.inode[j].links
          /\ new.inode[j].dtime = img.inode[j].dtime
    BY <1>1, <1>2, <1>4
  <1>6. UsedDirectories(new) = UsedDirectories(img) \cup
          (IF i \notin img.inode_bitmap /\ type = "dir" THEN {i} ELSE {})
    <2>1. \A j \in img.inode_bitmap : IsDir(new, j) <=> IsDir(img, j)
      BY <1>5 DEF IsDir
    <2>2. i \notin img.inode_bitmap => (IsDir(new, i) <=> type = "dir")
      BY <1>3 DEF IsDir
    <2> QED
      BY <1>1, <2>1, <2>2 DEF UsedDirectories
  <1>7. i \notin img.inode_bitmap => Len(new.inode[i].direct) = 0 /\ 1 .. 0 = {}
    BY <1>3
  <1>8. UsedDirectories(img) \subseteq img.inode_bitmap
    BY DEF UsedDirectories
  <1>9. Slots(new) = Slots(img)
    <2>1. \A s : s \in Slots(new) => s \in Slots(img)
      <3>1. TAKE s
      <3>2. HAVE s \in Slots(new)
      <3>3. s \in UsedDirectories(new) \X Nat /\ s[1] \in UsedDirectories(new)
            /\ s[2] \in 1 .. Len(new.inode[s[1]].direct)
        BY <3>2 DEF Slots
      <3>4. s[1] \in UsedDirectories(img)
        <4>1. CASE s[1] \notin UsedDirectories(img)
          <5>1. s[1] = i /\ i \notin img.inode_bitmap
            BY <1>6, <3>3, <4>1
          <5> QED
            BY <1>7, <3>3, <5>1
        <4> QED
          BY <4>1
      <3>5. s[2] \in 1 .. Len(img.inode[s[1]].direct)
        BY <1>5, <1>8, <3>3, <3>4
      <3> QED
        BY <3>3, <3>4, <3>5 DEF Slots
    <2>2. \A s : s \in Slots(img) => s \in Slots(new)
      <3>1. TAKE s
      <3>2. HAVE s \in Slots(img)
      <3>3. s \in UsedDirectories(img) \X Nat /\ s[1] \in UsedDirectories(img)
            /\ s[2] \in 1 .. Len(img.inode[s[1]].direct)
        BY <3>2 DEF Slots
      <3>4. s[1] \in UsedDirectories(new) /\ s[2] \in 1 .. Len(new.inode[s[1]].direct)
        BY <1>5, <1>6, <1>8, <3>3
      <3> QED
        BY <3>3, <3>4 DEF Slots
    <2> QED
      BY <2>1, <2>2
  <1>10. \A s \in Slots(img) : SlotBlock(new, s) = SlotBlock(img, s)
    <2>1. \A s \in Slots(img) : s[1] \in img.inode_bitmap
      BY <1>8 DEF Slots
    <2> QED
      BY <1>5, <2>1 DEF SlotBlock
  <1>11. (\A d \in UsedDirectories(img) : img.inode[d].indirect = 0) =>
           \A d \in UsedDirectories(new) : new.inode[d].indirect = 0
    BY <1>3, <1>5, <1>6, <1>8
  <1>12. FreeOK(new)
    BY <1>1 DEF Accounted, FreeOK, IsDir
  <1>13. \A j \in img.inode_bitmap : DataBlocks(new, j) = DataBlocks(img, j)
    BY <1>1, <1>5 DEF DataBlocks
  <1>14. BlocksOK(new)
    <2>1. CASE i \in img.inode_bitmap
      <3>1. new.inode_bitmap = img.inode_bitmap
        BY <1>1, <2>1
      <3> QED
        BY <1>1, <1>13, <3>1 DEF Accounted, BlocksOK
    <2>2. CASE i \notin img.inode_bitmap
      <3>1. DataBlocks(new, i) = {}
        <4>1. ToSet(<<>>) = {}
          BY DEF ToSet
        <4> QED
          BY <1>3, <2>2, <4>1 DEF DataBlocks
      <3> QED
        BY <1>1, <1>13, <2>2, <3>1 DEF Accounted, BlocksOK
    <2> QED
      BY <2>1, <2>2
  <1>15. CountersOf(new)
    <2>1. Cardinality(FreeBlocks(new)) = Cardinality(FreeBlocks(img)) /\ FreeBlocks(img) \in SUBSET Block
      BY <1>1 DEF FreeBlocks
    <2>2. Cardinality(FreeBlocks(new)) = Cardinality(FreeBlocks(img)) + 0
      BY <2>1, NumbersFinite
    <2>3. CASE i \in img.inode_bitmap
      <3>1. FreeInodes(new) = FreeInodes(img) /\ FreeInodes(img) \in SUBSET Inode
        BY <1>1, <2>3 DEF FreeInodes
      <3>2. Cardinality(FreeInodes(new)) = Cardinality(FreeInodes(img)) + 0
        BY <3>1, NumbersFinite
      <3>3. Counts(img, new, 0, 0)
        BY <1>1, <2>3
      <3> QED
        BY <2>2, <3>2, <3>3, CountersFollow DEF Accounted
    <2>4. CASE i \notin img.inode_bitmap
      <3>2. Cardinality(FreeInodes(new)) = Cardinality(FreeInodes(img)) + -1
        BY <1>1, <2>4, InodeTaken
      <3>3. Counts(img, new, -1, 0)
        BY <1>1, <2>4
      <3> QED
        BY <2>2, <3>2, <3>3, CountersFollow DEF Accounted
    <2> QED
      BY <2>3, <2>4
  <1>16. new.inode[i].links = IF i \in img.inode_bitmap THEN img.inode[i].links + 1 ELSE 1
    BY <1>2, <1>3
  <1>17. i \notin img.inode_bitmap => (IsDir(new, i) <=> type = "dir")
    BY <1>3 DEF IsDir
  <1>18. Accounted(new)
    BY <1>12, <1>14, <1>15 DEF Accounted
  <1> QED
    BY <1>3, <1>5, <1>6, <1>9, <1>10, <1>11, <1>16, <1>17, <1>18

(* mid is img with, perhaps, the block s more in a directory.              *)
Longer(img, mid, s) ==
  /\ Typed(mid) /\ Accounted(mid)
  /\ mid.inode_bitmap = img.inode_bitmap /\ mid.gd.used_dirs = img.gd.used_dirs
  /\ \A j \in Inode : /\ mid.inode[j].mode = img.inode[j].mode /\ mid.inode[j].links = img.inode[j].links
                      /\ mid.inode[j].dtime = img.inode[j].dtime
  /\ \A d \in UsedDirectories(img) : mid.inode[d].indirect = 0
  /\ s \in Slots(mid) /\ Slots(mid) = Slots(img) \cup {s}
  /\ \A u \in Slots(img) : SlotBlock(mid, u) = SlotBlock(img, u)
  /\ \A u \in Slots(img) : u # s => mid.records[SlotBlock(img, u)] = img.records[SlotBlock(img, u)]

(* A file gets a link, and that block one record that names it.            *)
LEMMA NewName ==
  ASSUME NEW img, Typed(img), Sane(img), NEW mid, NEW s, Longer(img, mid, s),
         NEW i \in Inode, NEW type \in Type, NEW new, Taken(mid, new, i, type),
         \A c \in Block : c # SlotBlock(mid, s) => new.records[c] = mid.records[c],
         NEW w, NEW record, record.inode = i, record.type = "dir" <=> IsDir(new, i),
         DirBlock(Content(new, s)), w \notin OldLive(img, s),
         Live(Content(new, s)) = OldLive(img, s) \cup {w},
         SameEntry(Content(new, s)[w], record),
         \A v \in OldLive(img, s) : SameEntry(Content(new, s)[v], Content(img, s)[v]),
         \A v \in Gone(Content(new, s)) : v \in OldGone(img, s) /\ Content(new, s)[v].name = Content(img, s)[v].name,
         Foremost(img, Place(s, w), record.name)
  PROVE  /\ Typed(new) /\ Sane(new)
         /\ UsedDirectories(new) = UsedDirectories(img) \cup
              (IF i \notin img.inode_bitmap /\ type = "dir" THEN {i} ELSE {})
         /\ NameAdded(img, new, s[1], record.name, i)
  <1>1. Typed(mid) /\ Accounted(mid) /\ Typed(new)
    BY DEF Longer, Taken
  <1>2. UsedDirectories(mid) = UsedDirectories(img)
    BY <1>1, TypedIs DEF UsedDirectories, IsDir, Longer
  <1>3. /\ Accounted(new)
        /\ UsedDirectories(new) = UsedDirectories(img) \cup
              (IF i \notin img.inode_bitmap /\ type = "dir" THEN {i} ELSE {})
        /\ Slots(new) = Slots(mid)
        /\ \A u \in Slots(mid) : SlotBlock(new, u) = SlotBlock(mid, u)
        /\ \A d \in UsedDirectories(new) : new.inode[d].indirect = 0
        /\ \A j \in mid.inode_bitmap : /\ new.inode[j].mode = mid.inode[j].mode
                                       /\ j # i => new.inode[j].links = mid.inode[j].links
                                       /\ new.inode[j].dtime = mid.inode[j].dtime
        /\ i \in mid.inode_bitmap \/ ~new.inode[i].dtime
        /\ new.inode[i].links = IF i \in mid.inode_bitmap THEN mid.inode[i].links + 1 ELSE 1
    <2>1. mid.inode_bitmap = img.inode_bitmap /\ \A d \in UsedDirectories(mid) : mid.inode[d].indirect = 0
      BY <1>2 DEF Longer
    <2> QED
      BY <1>1, <1>2, <2>1, TakenIs
  <1>4. \A u \in Slots(new) : Content(new, u) = new.records[SlotBlock(new, u)]
    BY ZenonT(30) DEF Content, SlotBlock
  <1>5. \A u \in Slots(img) : Content(img, u) = img.records[SlotBlock(img, u)]
    BY Zenon DEF Content, SlotBlock
  <1>6. \A u \in Slots(img) : u # s => Content(new, u) = Content(img, u)
    <2>1. TAKE u \in Slots(img)
    <2>2. HAVE u # s
    <2>3. u \in Slots(mid) /\ s \in Slots(mid) /\ SlotBlock(mid, u) = SlotBlock(img, u)
          /\ mid.records[SlotBlock(img, u)] = img.records[SlotBlock(img, u)]
      BY <2>2 DEF Longer
    <2>4. SlotBlock(mid, u) # SlotBlock(mid, s) /\ SlotBlock(mid, u) \in Block
      BY <1>1, <2>2, <2>3, SlotsApart, TypedIs DEF Accounted
    <2>5. new.records[SlotBlock(mid, u)] = mid.records[SlotBlock(mid, u)]
      BY <2>4
    <2> QED
      BY <1>3, <1>4, <1>5, <2>3, <2>5
  <1>7. s \in Slots(new) /\ Slots(new) = Slots(img) \cup {s}
    BY <1>3 DEF Longer
  <1>8. GainsName(img, new, Place(s, w), record)
    BY <1>1, <1>6, <1>7, NameGained
  <1>9. NamesOK(new) /\ LinksOK(new)
    <2>1. new.inode_bitmap = img.inode_bitmap \cup {i} /\ mid.inode_bitmap = img.inode_bitmap
      BY DEF Longer, Taken
    <2>2. img.inode_bitmap \subseteq Inode
      BY TypedIs
    <2>3. \A j \in img.inode_bitmap :
            /\ new.inode[j].mode = img.inode[j].mode
            /\ j # i => new.inode[j].links = img.inode[j].links
            /\ new.inode[j].dtime = img.inode[j].dtime
      BY <1>3, <2>1, <2>2 DEF Longer
    <2>4. new.inode[i].links = IF i \in img.inode_bitmap THEN img.inode[i].links + 1 ELSE 1
      BY <1>3, <2>1 DEF Longer
    <2>5. NamesOK(img) /\ LinksOK(img)
      BY DEF Sane
    <2> QED
      BY <1>1, <1>3, <1>8, <2>1, <2>3, <2>4, <2>5, LinkCounted
  <1>10. DirsOK(new)
    <2>1. \A u \in Slots(img) : DirBlock(Content(img, u))
      BY DEF Sane, DirsOK
    <2> QED
      BY <1>3, <1>6, <1>7, <2>1 DEF DirsOK
  <1>11. Root \in UsedDirectories(img) /\ Root \in UsedDirectories(new)
    BY <1>3 DEF Sane, UsedDirectories
  <1>12. RootOK(new)
    <2>1. Place(<<Root, 1>>, 0) \in LiveRecords(img) /\ IsRoot(Entry(img, Place(<<Root, 1>>, 0)))
      BY <1>11, RootIs DEF Sane
    <2>2. Place(<<Root, 1>>, 0) \in LiveRecords(new) /\ IsRoot(Entry(new, Place(<<Root, 1>>, 0)))
      BY <1>8, <2>1 DEF GainsName, SameEntry, IsRoot
    <2> QED
      BY <1>1, <1>10, <1>11, <2>2, RootIs
  <1>13. Root \in new.inode_bitmap /\ IsDir(new, Root)
    BY <1>11 DEF UsedDirectories
  <1>14. NameAdded(img, new, s[1], record.name, i)
    <2>1. Place(s, w)[1] = s[1]
      BY DEF Place
    <2> QED
      BY <1>8, <2>1, NamedMore
  <1> QED
    BY <1>1, <1>3, <1>9, <1>10, <1>12, <1>13, <1>14 DEF Sane

(* init_dir_entry                                                          *)
EntryFor(i, rec_len, n, type) == [inode |-> i, rec_len |-> rec_len, name |-> n, type |-> type]

LEMMA EntryForIs ==
  ASSUME NEW i \in Inode, NEW rec_len \in 0 .. Words, NEW n \in Name \cup {".", ".."}, NEW type \in Type
  PROVE  /\ EntryFor(i, rec_len, n, type) \in Record
         /\ EntryFor(i, rec_len, n, type).inode = i /\ EntryFor(i, rec_len, n, type).inode # 0
         /\ EntryFor(i, rec_len, n, type).rec_len = rec_len
         /\ EntryFor(i, rec_len, n, type).name = n /\ EntryFor(i, rec_len, n, type).name # "/"
         /\ EntryFor(i, rec_len, n, type).type = type
  <1>1. EntryFor(i, rec_len, n, type) \in Record
    BY Zenon DEF EntryFor, Record
  <1>2. n # "/" /\ i # 0
    BY NameAssumption, NumbersFinite, Zenon
  <1> QED
    BY <1>1, <1>2 DEF EntryFor

Gives(img, link, exit) ==
  exit = IF link = 0 /\ FreeInodes(img) = {} THEN "ENOMEM" ELSE "0"

Keeps(img, out) == out.exit = "ENOMEM" => out.image = img

Linked(img, link) == IF link = 0 THEN NextInode(img) ELSE link

MadeIn(img, new, b, x, link, rec_len, n, type) ==
  LET i == Linked(img, link)
  IN /\ Taken(img, new, i, type) /\ i \in Inode
     /\ link = 0 <=> i \notin img.inode_bitmap
     /\ new.records[b] = Fill(img.records[b], x, EntryFor(i, rec_len, n, type))
     /\ \A c \in Block : c # b => new.records[c] = img.records[c]

LEMMA EntryMade ==
  ASSUME NEW img, Typed(img), NEW d \in img.inode_bitmap, NEW e,
         e[1] \in 1 .. Len(img.inode[d].direct), NEW link \in img.inode_bitmap \cup {0},
         NEW rec_len \in 0 .. Words, NEW n \in Name \cup {".", ".."}, NEW type \in Type,
         NEW b, b = img.inode[d].direct[e[1]],
         \A i \in Inode : BlockOK(Fill(img.records[b], e[2], EntryFor(i, rec_len, n, type))),
         NEW out, out = init_dir_entry(img, d, e, link, rec_len, n, type)
  PROVE  /\ Gives(img, link, out.exit)
         /\ Keeps(img, out)
         /\ out.exit = "0" => MadeIn(img, out.image, b, e[2], link, rec_len, n, type)
  <1>1. CASE link = 0 /\ FreeInodes(img) = {}
    <2>1. out = [image |-> img, exit |-> "ENOMEM"]
      BY <1>1 DEF init_dir_entry, Ends
    <2> QED
      BY <1>1, <2>1 DEF Gives, Keeps
  <1>2. CASE ~(link = 0 /\ FreeInodes(img) = {})
    <2> DEFINE i == Linked(img, link)
               filled == IF link = 0 THEN allocate_inode(img, type) ELSE img
               one == LinkedOnce(filled, i)
               record == EntryFor(i, rec_len, n, type)
               new == Enter(one, d, e, record)
               r == Fill(img.records[b], e[2], record)
    <2>1. out = [image |-> new, exit |-> "0"]
      BY <1>2 DEF init_dir_entry, Ends, Linked, LinkedOnce, EntryFor
    <2>2. /\ Taken(img, one, i, type) /\ one.records = img.records /\ i \in Inode
          /\ link = 0 <=> i \notin img.inode_bitmap
      BY <1>2, InodeFilled DEF Linked
    <2> HIDE DEF one, i, filled
    <2>3. d \in Inode /\ one.inode[d].direct = img.inode[d].direct
      <3>1. d \in Inode
        BY TypedIs
      <3> QED
        BY <2>2, <3>1 DEF Taken
    <2>4. b \in Block
      BY <2>3, TypedIs, InodeIs
    <2>5. BlockOK(r)
      BY <2>2
    <2>6. Typed(one)
      BY <2>2 DEF Taken
    <2> HIDE DEF new, record
    <2>7. BlockPut(one, new, b, r)
      <3>1. b = one.inode[d].direct[e[1]] /\ r = Fill(one.records[b], e[2], record)
        BY <2>2, <2>3
      <3> HIDE DEF r
      <3> QED
        BY <2>3, <2>4, <2>5, <2>6, <3>1, RecordEntered, Zenon DEF new
    <2>8. Taken(img, new, i, type)
      BY <2>2, <2>7 DEF Taken, BlockPut, Same, Field, Counts
    <2>9. new.records[b] = r /\ \A c \in Block : c # b => new.records[c] = img.records[c]
      BY <2>2, <2>4, <2>7 DEF BlockPut
    <2>10. out.image = new /\ out.exit = "0" /\ Gives(img, link, "0")
      BY <1>2, <2>1 DEF Gives
    <2> QED
      BY <2>2, <2>8, <2>9, <2>10 DEF i, record, MadeIn, Keeps
  <1> QED
    BY <1>1, <1>2

(* What a name that was made leaves: an image as sane as before.           *)
Created(img, new, link, type, d, n) ==
  LET i == Linked(img, link)
  IN /\ Typed(new) /\ Sane(new) /\ i \in Inode /\ i \in new.inode_bitmap
     /\ new.gd.used_dirs = img.gd.used_dirs
     /\ UsedDirectories(new) = UsedDirectories(img) \cup
          (IF link = 0 /\ type = "dir" THEN {i} ELSE {})
     /\ link = 0 => /\ i \notin img.inode_bitmap /\ new.inode[i].mode = type
                    /\ new.inode[i].direct = <<>> /\ new.inode[i].indirect = 0
     /\ NameAdded(img, new, d, n, i)

Fits(img, s, r, w, record) ==
  /\ DirBlock(r) /\ w \notin OldLive(img, s) /\ Live(r) = OldLive(img, s) \cup {w}
  /\ SameEntry(r[w], record)
  /\ \A v \in OldLive(img, s) : SameEntry(r[v], Content(img, s)[v])
  /\ \A v \in Gone(r) : v \in OldGone(img, s) /\ r[v].name = Content(img, s)[v].name

LEMMA EntryAdded ==
  ASSUME NEW img, Typed(img), Sane(img), NEW mid, NEW s, Longer(img, mid, s),
         NEW d, d = s[1], NEW e, e[1] = s[2],
         NEW link \in img.inode_bitmap \cup {0}, NEW rec_len \in 0 .. Words,
         NEW n \in Name \cup {".", ".."}, NEW type \in Type,
         link # 0 => (type = "dir" <=> IsDir(img, link)),
         \A i \in Inode :
           Fits(img, s, Fill(mid.records[SlotBlock(mid, s)], e[2], EntryFor(i, rec_len, n, type)),
                e[2], EntryFor(i, rec_len, n, type)),
         Foremost(img, Place(s, e[2]), n),
         NEW out, out = init_dir_entry(mid, d, e, link, rec_len, n, type)
  PROVE  /\ Gives(img, link, out.exit)
         /\ Keeps(mid, out)
         /\ out.exit = "0" => Created(img, out.image, link, type, d, n)
  <1> DEFINE b == SlotBlock(mid, s)
             new == out.image
             i == Linked(img, link)
             record == EntryFor(i, rec_len, n, type)
             r == Fill(mid.records[b], e[2], record)
  <1>1. Typed(mid) /\ Accounted(mid) /\ mid.inode_bitmap = img.inode_bitmap /\ s \in Slots(mid)
        /\ mid.gd.used_dirs = img.gd.used_dirs
    BY DEF Longer
  <1>2. FreeInodes(mid) = FreeInodes(img)
    BY <1>1 DEF FreeInodes
  <1>3. Linked(mid, link) = i /\ \A exit : Gives(mid, link, exit) <=> Gives(img, link, exit)
    BY <1>2 DEF Linked, NextInode, Gives
  <1>4. d \in mid.inode_bitmap /\ e[1] \in 1 .. Len(mid.inode[d].direct) /\ b = mid.inode[d].direct[e[1]]
        /\ b \in Block
    BY <1>1, SlotIs, TypedIs DEF SlotBlock
  <1>5. \A j \in Inode : BlockOK(Fill(mid.records[b], e[2], EntryFor(j, rec_len, n, type)))
    BY DEF Fits, DirBlock
  <1> HIDE DEF b, i
  <1>6. /\ Gives(mid, link, out.exit)
        /\ Keeps(mid, out)
        /\ out.exit = "0" => MadeIn(mid, new, b, e[2], link, rec_len, n, type)
    <2>1. link \in mid.inode_bitmap \cup {0}
      BY <1>1
    <2> HIDE DEF r, record
    <2> QED
      BY <1>1, <1>4, <1>5, <2>1, EntryMade
  <1> HIDE DEF new
  <1>7. ASSUME out.exit = "0"
        PROVE  Created(img, new, link, type, d, n)
    <2>1. /\ Taken(mid, new, i, type) /\ i \in Inode
          /\ link = 0 <=> i \notin mid.inode_bitmap
          /\ new.records[b] = r
          /\ \A c \in Block : c # b => new.records[c] = mid.records[c]
      BY <1>3, <1>6, <1>7 DEF MadeIn
    <2>2. record.inode = i /\ record.type = type /\ record.name = n
      BY <2>1, EntryForIs
    <2>3. Fits(img, s, r, e[2], record)
      BY <2>1 DEF b
    <2>4. /\ i \notin mid.inode_bitmap => (IsDir(new, i) <=> type = "dir")
          /\ i \in mid.inode_bitmap => new.inode[i].mode = mid.inode[i].mode
          /\ SlotBlock(new, s) = b
      BY <1>1, <2>1, TakenIs DEF b
    <2>5. record.type = "dir" <=> IsDir(new, i)
      <3>1. CASE link = 0
        BY <2>1, <2>2, <2>4, <3>1
      <3>2. CASE link # 0
        <4>1. i = link /\ link \in img.inode_bitmap
          BY <3>2 DEF i, Linked
        <4>2. new.inode[i].mode = img.inode[i].mode
          BY <1>1, <2>1, <2>4, <4>1 DEF Longer
        <4> QED
          BY <2>2, <3>2, <4>1, <4>2 DEF IsDir
      <3> QED
        BY <3>1, <3>2
    <2>6. Content(new, s) = r
      BY <2>1, <2>4 DEF Content, SlotBlock
    <2> HIDE DEF r, record
    <2>7. /\ Typed(new) /\ Sane(new)
          /\ UsedDirectories(new) = UsedDirectories(img) \cup
               (IF i \notin img.inode_bitmap /\ type = "dir" THEN {i} ELSE {})
          /\ NameAdded(img, new, d, n, i)
      BY <2>1, <2>2, <2>3, <2>5, <2>6, NewName DEF b, Fits
    <2>8. new.gd.used_dirs = img.gd.used_dirs /\ new.inode_bitmap = img.inode_bitmap \cup {i}
      BY <1>1, <2>1 DEF Taken, Counts
    <2>9. link = 0 => /\ i \notin img.inode_bitmap /\ new.inode[i].mode = type
                      /\ new.inode[i].direct = <<>> /\ new.inode[i].indirect = 0
      <3>1. HAVE link = 0
      <3>2. i \notin img.inode_bitmap /\ i \notin mid.inode_bitmap
        BY <1>1, <2>1, <3>1
      <3>3. /\ new.inode[i].mode = Fresh(type).mode
            /\ new.inode[i].direct = Fresh(type).direct /\ new.inode[i].indirect = Fresh(type).indirect
        BY <2>1, <3>2 DEF Taken
      <3> QED
        BY <3>2, <3>3, FreshIs
    <2> QED
      BY <1>1, <2>1, <2>7, <2>8, <2>9 DEF Created, i
  <1> QED
    BY <1>3, <1>6, <1>7 DEF new

LEMMA LongerAlready ==
  ASSUME NEW img, Typed(img), Sane(img), NEW s \in Slots(img)
  PROVE  Longer(img, img, s)
  BY DEF Longer, Sane, DirsOK

(* Another record in a block is not another block.                         *)
LEMMA LongerRecord ==
  ASSUME NEW img, Typed(img), Sane(img), NEW s \in Slots(img),
         NEW mid, NEW r, BlockPut(img, mid, SlotBlock(img, s), r)
  PROVE  Longer(img, mid, s) /\ SlotBlock(mid, s) = SlotBlock(img, s)
  <1>1. /\ Typed(mid) /\ mid.inode_bitmap = img.inode_bitmap /\ mid.block_bitmap = img.block_bitmap
        /\ mid.inode = img.inode /\ mid.pointers = img.pointers /\ mid.sb = img.sb /\ mid.gd = img.gd
    BY DEF BlockPut, Same, Field
  <1>2. UsedDirectories(mid) = UsedDirectories(img) /\ Slots(mid) = Slots(img)
    BY <1>1 DEF UsedDirectories, IsDir, Slots
  <1>3. \A u : SlotBlock(mid, u) = SlotBlock(img, u)
    BY <1>1 DEF SlotBlock
  <1>4. Accounted(mid)
    <2>1. FreeOK(mid) /\ CountersOf(mid)
      BY <1>1 DEF Sane, Accounted, FreeOK, CountersOf, FreeInodes, FreeBlocks, IsDir
    <2>2. \A i \in Inode : DataBlocks(mid, i) = DataBlocks(img, i)
      BY <1>1 DEF DataBlocks
    <2>3. BlocksOK(mid)
      BY <1>1, <2>2, TypedIs DEF Sane, Accounted, BlocksOK
    <2> QED
      BY <2>1, <2>3 DEF Accounted
  <1>5. \A u \in Slots(img) : u # s => mid.records[SlotBlock(img, u)] = img.records[SlotBlock(img, u)]
    <2>1. \A u \in Slots(img) : u # s => SlotBlock(img, u) # SlotBlock(img, s) /\ SlotBlock(img, u) \in Block
      BY SlotsApart, TypedIs DEF Sane, Accounted
    <2> QED
      BY <2>1 DEF BlockPut
  <1>6. \A d \in UsedDirectories(img) : mid.inode[d].indirect = 0
    BY <1>1 DEF Sane, DirsOK
  <1> QED
    BY <1>1, <1>2, <1>3, <1>4, <1>5, <1>6 DEF Longer

LEMMA AddsFits ==
  ASSUME NEW img, NEW s \in Slots(img), NEW r, NEW w, NEW record, Adds(Content(img, s), r, w, record)
  PROVE  Fits(img, s, r, w, record)
  BY DEF Adds, Fits, OldLive, OldGone, GoneFrom

(* init_dir_entry fails with the image as it was, or makes the name.       *)
InitOK(img, mid, out, link, type, d, n) ==
  /\ Gives(img, link, out.exit) /\ Keeps(mid, out)
  /\ out.exit = "0" => Created(img, out.image, link, type, d, n)

(* and so does create_dir_entry, but for the exit that comes too late.     *)
MadeOK(img, out, link, type, d, n) ==
  /\ Typed(out.image) /\ out.exit \in {"0", "EEXIST", "ENOMEM", "half"}
  /\ out.exit \in {"EEXIST", "ENOMEM"} => out.image = img
  /\ out.exit = "0" => Created(img, out.image, link, type, d, n)

LEMMA HalfIs ==
  ASSUME NEW img, NEW d, NEW e, NEW link, NEW rec_len, NEW n, NEW type,
         NEW o, o = init_dir_entry(img, d, e, link, rec_len, n, type)
  PROVE  /\ Half(o).image = o.image
         /\ Half(o).exit = IF o.exit = "ENOMEM" THEN "half" ELSE o.exit
  <1>1. \E m, x : o = [image |-> m, exit |-> x]
    BY DEF init_dir_entry, Ends
  <1>2. PICK m : \E x : o = [image |-> m, exit |-> x]
    BY <1>1
  <1>3. PICK x : o = [image |-> m, exit |-> x]
    BY <1>2
  <1> QED
    BY <1>3 DEF Half

LEMMA InsertedInPlace ==
  ASSUME NEW img, Typed(img), Sane(img), NEW d \in UsedDirectories(img), NEW e \in Places(img, d),
         NEW link \in img.inode_bitmap \cup {0}, NEW n \in Name \cup {".", ".."}, NEW type \in Type,
         link # 0 => (type = "dir" <=> IsDir(img, link)),
         HasRoom(RecordAt(img, d, e), n), RecordAt(img, d, e).inode = 0, Foremost(img, <<d, e>>, n),
         NEW out, out = InsertBeside(img, d, e, link, n, type)
  PROVE  MadeOK(img, out, link, type, d, n)
  <1> DEFINE s == <<d, e[1]>>
             r == Content(img, s)
             w == e[2]
             record == RecordAt(img, d, e)
  <1>1. s \in Slots(img) /\ w \in Walk(r) /\ e = <<e[1], w>> /\ s[1] = d /\ s[2] = e[1]
    BY PlacesAre
  <1>2. DirBlock(r)
    BY <1>1 DEF Sane, DirsOK
  <1>3. record = r[w]
    <2>1. record = WordAt(r, w)
      BY <1>1, PlacesAre
    <2> QED
      BY <1>1, <1>2, <2>1, DirBlockWords DEF WordAt
  <1>4. r[w] \in Record /\ r[w].rec_len \in 0 .. Words /\ r[w].inode = 0
        /\ actual_len(n) <= r[w].rec_len
    BY <1>1, <1>2, <1>3, DirBlockWords, RecordIs, Zenon DEF HasRoom
  <1>5. out = init_dir_entry(img, d, e, link, r[w].rec_len, n, type)
    BY <1>3 DEF InsertBeside
  <1> HIDE DEF record, s, w
  <1>6. ASSUME NEW i \in Inode
        PROVE  LET new == EntryFor(i, r[w].rec_len, n, type)
               IN Fits(img, s, Fill(img.records[SlotBlock(img, s)], w, new), w, new)
    <2> DEFINE new == EntryFor(i, r[w].rec_len, n, type)
    <2>1. new \in Record /\ new.name = n /\ new.name # "/" /\ new.inode # 0 /\ new.rec_len = r[w].rec_len
      <3> DEFINE rec_len == r[w].rec_len
      <3>1. rec_len \in 0 .. Words
        BY <1>4
      <3> HIDE DEF rec_len
      <3>2. LET one == EntryFor(i, rec_len, n, type)
            IN one \in Record /\ one.name = n /\ one.name # "/" /\ one.inode # 0 /\ one.rec_len = rec_len
        BY <3>1, EntryForIs
      <3> QED
        BY <3>2 DEF rec_len
    <2> HIDE DEF new
    <2>2. Adds(r, Fill(r, w, new), w, new)
      BY <1>1, <1>2, <1>4, <2>1, FillAdds
    <2>3. r = img.records[SlotBlock(img, s)]
      BY DEF Content, SlotBlock
    <2> QED
      BY <1>1, <2>2, <2>3, AddsFits DEF new
  <1>7. Longer(img, img, s)
    BY <1>1, LongerAlready
  <1>8. w = e[2] /\ Foremost(img, Place(s, e[2]), n)
    <2>1. Place(s, e[2]) = <<d, e>>
      BY <1>1 DEF Place, w
    <2> QED
      BY <2>1 DEF w
  <1>9. InitOK(img, img, out, link, type, d, n)
    <2> HIDE DEF r
    <2> QED
      BY <1>1, <1>4, <1>5, <1>6, <1>7, <1>8, EntryAdded DEF InitOK
  <1> QED
    BY <1>9 DEF InitOK, MadeOK, Keeps, Gives, Created

LEMMA InsertedBehind ==
  ASSUME NEW img, Typed(img), Sane(img), NEW d \in UsedDirectories(img), NEW e \in Places(img, d),
         NEW link \in img.inode_bitmap \cup {0}, NEW n \in Name \cup {".", ".."}, NEW type \in Type,
         link # 0 => (type = "dir" <=> IsDir(img, link)),
         HasRoom(RecordAt(img, d, e), n), RecordAt(img, d, e).inode # 0,
         Foremost(img, <<d, <<e[1], e[2] + actual_len(RecordAt(img, d, e).name)>>>>, n),
         NEW out, out = InsertBeside(img, d, e, link, n, type)
  PROVE  MadeOK(img, out, link, type, d, n)
  <1> DEFINE s == <<d, e[1]>>
             r == Content(img, s)
             w == e[2]
             record == RecordAt(img, d, e)
             kept == actual_len(r[w].name)
             rec_len == r[w].rec_len - kept
             short == [r EXCEPT ![w] = [r[w] EXCEPT !.rec_len = kept]]
             mid == Change(img, d, e, [record EXCEPT !.rec_len = kept])
             at == <<e[1], w + kept>>
             o == init_dir_entry(mid, d, at, link, rec_len, n, type)
  <1>1. s \in Slots(img) /\ w \in Walk(r) /\ e = <<e[1], w>> /\ s[1] = d /\ s[2] = e[1]
    BY PlacesAre
  <1>2. DirBlock(r)
    BY <1>1 DEF Sane, DirsOK
  <1>3. record = r[w]
    <2>1. record = WordAt(r, w)
      BY <1>1, PlacesAre
    <2> QED
      BY <1>1, <1>2, <2>1, DirBlockWords DEF WordAt
  <1>4. /\ r[w] \in Record /\ r[w].rec_len \in 3 .. Words /\ kept \in 3 .. 4 /\ actual_len(n) \in 3 .. 4
        /\ actual_len(n) <= rec_len /\ w + kept <= w + r[w].rec_len /\ w \in 0 .. Words - 1
    <2>1. actual_len(n) <= record.rec_len - actual_len(record.name)
      BY DEF HasRoom
    <2> QED
      BY <1>1, <1>2, <1>3, <2>1, DirBlockWords, LengthIs
  <1>5. rec_len \in 0 .. Words
    BY <1>4, WordsNat
  <1>6. out = Half(o)
    BY <1>3 DEF InsertBeside
  <1>7. SlotBlock(img, s) = img.inode[d].direct[e[1]] /\ SlotBlock(img, s) \in Block
        /\ r = img.records[SlotBlock(img, s)] /\ d \in Inode
    BY <1>1, SlotIs DEF SlotBlock, Content
  <1>8. BlockOK(short) /\ short = [img.records[SlotBlock(img, s)] EXCEPT ![e[2]] = [record EXCEPT !.rec_len = kept]]
    <2>1. LET new == EntryFor(Root, rec_len, n, type)
          IN new \in Record /\ new.name = n /\ new.name # "/" /\ new.inode # 0 /\ new.rec_len = rec_len
      BY <1>5, EntryForIs, NumbersFinite
    <2>2. BlockOK(short)
      <3> HIDE DEF r, w
      <3> QED
        BY <1>1, <1>2, <1>4, <2>1, SplitAdds
    <2> QED
      BY <1>3, <1>7, <2>2
  <1> HIDE DEF s, short, record, mid
  <1>9. BlockPut(img, mid, SlotBlock(img, s), short)
    BY <1>7, <1>8, RecordChanged, Zenon DEF mid
  <1>10. Longer(img, mid, s) /\ SlotBlock(mid, s) = SlotBlock(img, s)
    BY <1>1, <1>9, LongerRecord
  <1>11. mid.records[SlotBlock(mid, s)] = short /\ Typed(mid)
    BY <1>7, <1>9, <1>10 DEF BlockPut
  <1>12. at[1] = s[2] /\ at[2] = w + kept /\ Foremost(img, Place(s, at[2]), n)
    <2>1. Place(s, at[2]) = <<d, <<e[1], e[2] + actual_len(RecordAt(img, d, e).name)>>>>
      BY <1>1, <1>3 DEF Place, record
    <2> HIDE DEF at
    <2> QED
      BY <1>1, <2>1 DEF at
  <1> HIDE DEF w, kept, at, r
  <1>13. ASSUME NEW i \in Inode
         PROVE  LET new == EntryFor(i, rec_len, n, type)
                IN Fits(img, s, Fill(mid.records[SlotBlock(mid, s)], at[2], new), at[2], new)
    <2> DEFINE new == EntryFor(i, rec_len, n, type)
    <2>1. new \in Record /\ new.name = n /\ new.name # "/" /\ new.inode # 0 /\ new.rec_len = rec_len
      <3> HIDE DEF rec_len
      <3> QED
        BY <1>5, EntryForIs
    <2> HIDE DEF new
    <2>2. Adds(r, Fill(short, w + kept, new), w + kept, new)
      BY <1>1, <1>2, <1>4, <2>1, SplitAdds DEF short, kept
    <2> QED
      BY <1>1, <1>11, <1>12, <2>2, AddsFits DEF new, r
  <1> HIDE DEF rec_len, o
  <1>14. InitOK(img, mid, o, link, type, d, n)
    BY <1>1, <1>5, <1>10, <1>12, <1>13, EntryAdded DEF InitOK, o
  <1>15. /\ out.image = o.image
         /\ out.exit = IF o.exit = "ENOMEM" THEN "half" ELSE o.exit
    BY <1>6, HalfIs DEF o
  <1> QED
    BY <1>11, <1>14, <1>15 DEF InitOK, MadeOK, Keeps, Gives, Created
-----------------------------------------------------------------------------
(* A file that is there gets blocks that were free.                        *)
LEMMA EmptyOK ==
  BlockOK(<<>>) /\ \A b \in Block : PointersOK(b, <<>>) /\ <<>> \in Seq(Block) /\ <<>> \in Written
  <1>1. 0 .. 0 - 1 = {} /\ DOMAIN <<>> = {} /\ 0 \in 0 .. Words
    BY WordsNat
  <1>2. <<>> \in [0 .. 0 - 1 -> Record]
    BY <1>1
  <1>3. <<>> \in Written
    BY <1>1, <1>2, WrittenIs
  <1>4. Len(<<>>) = 0 /\ 0 <= Pointers
    BY SizeAssumption
  <1> QED
    BY <1>1, <1>3, <1>4 DEF BlockOK, PointersOK, Once

PutPointers(img, v) == [img EXCEPT !.pointers = v]

PutText(img, v) == [img EXCEPT !.text = v]

LEMMA PutMoreIs ==
  ASSUME NEW img \in Image
  PROVE  /\ \A v \in [Block -> Seq(Block)] :
              /\ PutPointers(img, v).pointers = v
              /\ Same(img, PutPointers(img, v), Field \ {"pointers"})
         /\ \A v \in SUBSET Block :
              /\ PutText(img, v).text = v
              /\ Same(img, PutText(img, v), Field \ {"text"})
  BY UpdateIs DEF PutPointers, PutText

Allocated(img, new, bs) ==
  /\ Typed(new) /\ Same(img, new, {"inode_bitmap", "inode"})
  /\ Counts(img, new, 0, -Cardinality(bs)) /\ new.block_bitmap = img.block_bitmap \cup bs
  /\ \A b \in Block : /\ new.records[b] = IF b \in bs THEN <<>> ELSE img.records[b]
                      /\ new.pointers[b] = IF b \in bs THEN <<>> ELSE img.pointers[b]

LEMMA BlocksAllocated ==
  ASSUME NEW img, Typed(img), NEW bs \in SUBSET Block, NEW new, new = allocate_blocks(img, bs)
  PROVE  Allocated(img, new, bs)
  <1> DEFINE one == set_blocks_in_use(img, bs)
             records == [b \in Block |-> IF b \in bs THEN <<>> ELSE one.records[b]]
             pointers == [b \in Block |-> IF b \in bs THEN <<>> ELSE one.pointers[b]]
             two == PutRecords(one, records)
             three == PutPointers(two, pointers)
  <1>1. img \in Image
    BY DEF Typed
  <1>2. /\ Same(img, one, Field \ {"sb", "gd", "block_bitmap"})
        /\ Counts(img, one, 0, -Cardinality(bs)) /\ one.block_bitmap = img.block_bitmap \cup bs
    BY <1>1, BlocksSet
  <1> HIDE DEF one
  <1>3. one \in Image /\ one.records = img.records /\ one.pointers = img.pointers /\ one.inode = img.inode
        /\ one.inode_bitmap = img.inode_bitmap
    BY <1>2 DEF Same, Field
  <1>4. one.records \in [Block -> Written] /\ one.pointers \in [Block -> Seq(Block)] /\ one.text \in SUBSET Block
    BY <1>3 DEF Image
  <1>5. records \in [Block -> Written] /\ pointers \in [Block -> Seq(Block)]
    BY <1>4, EmptyOK
  <1>6. \A b \in Block : /\ records[b] = IF b \in bs THEN <<>> ELSE img.records[b]
                         /\ pointers[b] = IF b \in bs THEN <<>> ELSE img.pointers[b]
    BY <1>3
  <1>7. new = PutText(three, one.text \ bs)
    BY <1>3 DEF allocate_blocks, PutRecords, PutPointers, PutText, Image, one
  <1> HIDE DEF records, pointers
  <1>8. two.records = records /\ Same(one, two, Field \ {"records"})
    BY <1>3, <1>5, PutIs
  <1> HIDE DEF two
  <1>9. three.pointers = pointers /\ Same(two, three, Field \ {"pointers"})
    BY <1>5, <1>8, PutMoreIs DEF Same
  <1> HIDE DEF three
  <1>10. Same(three, new, Field \ {"text"})
    <2>1. one.text \ bs \in SUBSET Block /\ three \in Image
      BY <1>4, <1>9 DEF Same
    <2> QED
      BY <1>7, <2>1, PutMoreIs
  <1>11. /\ new.records = records /\ new.pointers = pointers /\ new \in Image
         /\ new.inode = one.inode /\ new.inode_bitmap = one.inode_bitmap
         /\ new.block_bitmap = one.block_bitmap /\ new.sb = one.sb /\ new.gd = one.gd
    BY <1>8, <1>9, <1>10 DEF Same, Field
  <1>12. Typed(new)
    BY <1>3, <1>6, <1>11, EmptyOK DEF Typed
  <1> QED
    BY <1>2, <1>3, <1>6, <1>11, <1>12 DEF Allocated, Same, Counts

Grown(img, new, j, bs) ==
  /\ Typed(new) /\ new.inode_bitmap = img.inode_bitmap /\ new.block_bitmap = img.block_bitmap \cup bs
  /\ Counts(img, new, 0, -Cardinality(bs))
  /\ \A i \in Inode \ {j} : new.inode[i] = img.inode[i]
  /\ new.inode[j].mode = img.inode[j].mode /\ new.inode[j].links = img.inode[j].links
  /\ new.inode[j].dtime = img.inode[j].dtime
  /\ \A b \in Block \ bs : new.records[b] = img.records[b] /\ new.pointers[b] = img.pointers[b]
  /\ DataBlocks(new, j) = bs \cup DataBlocks(img, j)

LEMMA GrownIs ==
  ASSUME NEW img, Typed(img), Accounted(img), NEW j \in img.inode_bitmap,
         NEW bs \in SUBSET (Block \ img.block_bitmap), NEW new, Grown(img, new, j, bs)
  PROVE  Accounted(new) /\ UsedDirectories(new) = UsedDirectories(img)
  <1>1. img.inode_bitmap \subseteq Inode /\ new.inode_bitmap = img.inode_bitmap
        /\ new.block_bitmap = img.block_bitmap \cup bs
    BY TypedIs DEF Grown
  <1>2. \A i \in Inode : new.inode[i].mode = img.inode[i].mode
    BY DEF Grown
  <1>3. UsedDirectories(new) = UsedDirectories(img) /\ FreeOK(new)
    BY <1>1, <1>2 DEF UsedDirectories, IsDir, Accounted, FreeOK
  <1>4. CountersOf(new)
    <2>1. Cardinality(FreeBlocks(new)) = Cardinality(FreeBlocks(img)) + -Cardinality(bs)
      BY <1>1, BlocksTaken
    <2>2. FreeInodes(new) = FreeInodes(img) /\ FreeInodes(img) \in SUBSET Inode
      BY <1>1 DEF FreeInodes
    <2>3. Cardinality(FreeInodes(new)) = Cardinality(FreeInodes(img)) + 0
      BY <2>2, NumbersFinite
    <2> QED
      BY <2>1, <2>3, CountersFollow DEF Accounted, Grown
  <1>5. ASSUME NEW i \in img.inode_bitmap, i # j
        PROVE  DataBlocks(new, i) = DataBlocks(img, i)
    <2>1. new.inode[i] = img.inode[i]
      BY <1>1, <1>5 DEF Grown
    <2>2. CASE img.inode[i].indirect = 0
      BY <2>1, <2>2 DEF DataBlocks
    <2>3. CASE img.inode[i].indirect # 0
      <3>1. img.inode[i].indirect \in DataBlocks(img, i)
        BY <2>3 DEF DataBlocks
      <3>2. img.inode[i].indirect \in Block \ bs
        BY <3>1, TypedIs DEF Accounted, BlocksOK
      <3>3. new.pointers[img.inode[i].indirect] = img.pointers[img.inode[i].indirect]
        BY <3>2 DEF Grown
      <3> QED
        BY <2>1, <3>3 DEF DataBlocks
    <2> QED
      BY <2>2, <2>3
  <1>6. BlocksOK(new)
    <2>1. bs \cap img.block_bitmap = {} /\ new.inode_bitmap = img.inode_bitmap \cup {j}
      BY <1>1
    <2>2. DataBlocks(new, j) = bs \cup (IF j \in img.inode_bitmap THEN DataBlocks(img, j) ELSE {})
      BY DEF Grown
    <2> QED
      BY <1>1, <1>5, <2>1, <2>2, BlocksGrow DEF Accounted
  <1> QED
    BY <1>3, <1>4, <1>6 DEF Accounted

(* No directory is touched.                                                *)
LEMMA SaneKept ==
  ASSUME NEW img, Typed(img), Sane(img), NEW new, Typed(new), Accounted(new),
         new.inode_bitmap = img.inode_bitmap,
         \A i \in img.inode_bitmap : /\ new.inode[i].mode = img.inode[i].mode
                                     /\ new.inode[i].links = img.inode[i].links
                                     /\ new.inode[i].dtime => img.inode[i].dtime,
         \A d \in UsedDirectories(img) : /\ new.inode[d].direct = img.inode[d].direct
                                         /\ new.inode[d].indirect = img.inode[d].indirect,
         \A s \in Slots(img) : new.records[SlotBlock(img, s)] = img.records[SlotBlock(img, s)]
  PROVE  Sane(new) /\ UsedDirectories(new) = UsedDirectories(img) /\ SameNames(img, new)
  <1>1. UsedDirectories(new) = UsedDirectories(img)
    BY DEF UsedDirectories, IsDir
  <1>2. Slots(new) = Slots(img)
    BY <1>1 DEF Slots
  <1>3. \A s \in Slots(img) : Content(new, s) = Content(img, s)
    <2>1. \A s \in Slots(img) : s[1] \in UsedDirectories(img)
      BY SlotIs
    <2> QED
      BY <2>1 DEF Content, SlotBlock
  <1>4. /\ LiveRecords(new) = LiveRecords(img) /\ Named(new) = Named(img)
        /\ Ghosts(new) \subseteq Ghosts(img)
        /\ \A i : Pointing(new, i) = Pointing(img, i)
    BY <1>2, <1>3, NamesSame DEF GoneFrom
  <1>5. \A x \in LiveRecords(img) : Entry(new, x) = Entry(img, x)
    <2>1. TAKE x \in LiveRecords(img)
    <2>2. PICK s \in Slots(img) : \E w \in Live(Content(img, s)) : x = Place(s, w)
      BY PlaceIs
    <2>3. PICK w \in Live(Content(img, s)) : x = Place(s, w)
      BY <2>2
    <2>4. Entry(img, x) = Content(img, s)[w]
      BY <2>3, PlaceIs
    <2>5. Entry(new, x) = Content(new, s)[w]
      BY <1>2, <1>3, <2>3, PlaceIs
    <2> QED
      BY <1>3, <2>4, <2>5
  <1>6. NamesOK(new)
    <2>1. \A i \in img.inode_bitmap : IsDir(new, i) <=> IsDir(img, i)
      BY DEF IsDir
    <2> QED
      BY <1>4, <1>5, <2>1 DEF Sane, NamesOK, Entry
  <1>7. LinksOK(new)
    BY <1>4 DEF Sane, LinksOK
  <1>8. DirsOK(new)
    BY <1>1, <1>2, <1>3 DEF Sane, DirsOK
  <1>9. Root \in UsedDirectories(img)
    BY DEF Sane, UsedDirectories
  <1>10. RootOK(new)
    <2>1. Place(<<Root, 1>>, 0) \in LiveRecords(img) /\ IsRoot(Entry(img, Place(<<Root, 1>>, 0)))
      BY <1>9, RootIs DEF Sane
    <2> QED
      BY <1>1, <1>4, <1>5, <1>8, <1>9, <2>1, RootIs
  <1>11. Root \in new.inode_bitmap /\ IsDir(new, Root)
    BY <1>1, <1>9 DEF UsedDirectories
  <1>12. SameNames(img, new)
    BY <1>1, <1>4 DEF SameNames
  <1> QED
    BY <1>1, <1>6, <1>7, <1>8, <1>10, <1>11, <1>12 DEF Sane

LEMMA FileGrown ==
  ASSUME NEW img, Typed(img), Sane(img), NEW j \in img.inode_bitmap, ~IsDir(img, j),
         NEW bs \in SUBSET (Block \ img.block_bitmap), NEW new, Grown(img, new, j, bs)
  PROVE  /\ Typed(new) /\ Sane(new) /\ SameNames(img, new)
         /\ new.gd.used_dirs = img.gd.used_dirs
  <1>1. Typed(new) /\ Accounted(new) /\ new.inode_bitmap = img.inode_bitmap
        /\ new.gd.used_dirs = img.gd.used_dirs
    BY GrownIs DEF Sane, Grown, Counts
  <1>2. \A i \in img.inode_bitmap : /\ new.inode[i].mode = img.inode[i].mode
                                    /\ new.inode[i].links = img.inode[i].links
                                    /\ new.inode[i].dtime = img.inode[i].dtime
    BY TypedIs DEF Grown
  <1>3. \A d \in UsedDirectories(img) : new.inode[d] = img.inode[d]
    BY TypedIs DEF Grown, UsedDirectories
  <1>4. \A s \in Slots(img) : new.records[SlotBlock(img, s)] = img.records[SlotBlock(img, s)]
    <2>1. \A s \in Slots(img) : SlotBlock(img, s) \in Block \ bs
      BY SlotsApart, TypedIs DEF Sane, Accounted
    <2> QED
      BY <2>1 DEF Grown
  <1> QED
    BY <1>1, <1>2, <1>3, <1>4, SaneKept

FileHeld(f, direct, indirect) ==
  [mode |-> f.mode, links |-> f.links, dtime |-> f.dtime, direct |-> direct, indirect |-> indirect]

HeldPut(img, new, i, direct, indirect) ==
  /\ Typed(new) /\ Same(img, new, Field \ {"inode"})
  /\ \A j \in Inode \ {i} : new.inode[j] = img.inode[j]
  /\ new.inode[i].mode = img.inode[i].mode /\ new.inode[i].links = img.inode[i].links
  /\ new.inode[i].dtime = img.inode[i].dtime
  /\ new.inode[i].direct = direct /\ new.inode[i].indirect = indirect

HeldOK(direct, indirect) ==
  /\ direct \in Seq(Block) /\ indirect \in Block \cup {0}
  /\ Len(direct) <= Direct /\ Once(direct)
  /\ indirect # 0 => /\ Len(direct) = Direct
                     /\ \A k \in 1 .. Direct : direct[k] < indirect

LEMMA FileHeldPut ==
  ASSUME NEW img, Typed(img), NEW i \in Inode, NEW direct, NEW indirect, HeldOK(direct, indirect),
         NEW new, new = PutFile(img, i, FileHeld(img.inode[i], direct, indirect))
  PROVE  HeldPut(img, new, i, direct, indirect)
  <1> DEFINE f == FileHeld(img.inode[i], direct, indirect)
             fs == [img.inode EXCEPT ![i] = f]
  <1>1. img.inode \in [Inode -> InodeRecord] /\ img.inode[i] \in InodeRecord
    BY TypedIs
  <1>2. f \in InodeRecord
    BY <1>1, InodeIs DEF FileHeld, InodeRecord, HeldOK
  <1>3. f.mode = img.inode[i].mode /\ f.links = img.inode[i].links /\ f.dtime = img.inode[i].dtime
        /\ f.direct = direct /\ f.indirect = indirect
    BY DEF FileHeld
  <1>7. new = PutInode(img, fs)
    BY DEF PutFile
  <1> HIDE DEF f
  <1>4. FileOK(f)
    BY <1>3 DEF FileOK, HeldOK
  <1>5. fs \in [Inode -> InodeRecord] /\ \A j \in Inode : fs[j] = IF j = i THEN f ELSE img.inode[j]
    BY <1>1, <1>2
  <1> HIDE DEF fs
  <1>6. \A j \in Inode : FileOK(fs[j])
    BY <1>4, <1>5 DEF Typed
  <1>8. Typed(new) /\ Same(img, new, Field \ {"inode"}) /\ new.inode = fs
    BY <1>5, <1>6, <1>7, FilePut
  <1> QED
    BY <1>3, <1>5, <1>8 DEF HeldPut

LEMMA FunctionIsSeq ==
  ASSUME NEW S, NEW n \in Nat, NEW f \in [1 .. n -> S]
  PROVE  f \in Seq(S) /\ Len(f) = n /\ (\A k \in 1 .. n : f[k] \in S) /\ ToSet(f) = {f[k] : k \in 1 .. n}
  <1>1. f \in Seq(S)
    OBVIOUS
  <1>2. Len(f) = n
    OBVIOUS
  <1> QED
    BY <1>1, <1>2 DEF ToSet

LEMMA OneMore ==
  ASSUME NEW img, FreeBlocks(img) # {}
  PROVE  /\ 1 \in 0 .. Cardinality(FreeBlocks(img))
         /\ NextBlocks(img, 1) \in Seq(Block) /\ Len(NextBlocks(img, 1)) = 1
         /\ NextBlocks(img, 1)[1] \in Block \ img.block_bitmap
         /\ ToSet(NextBlocks(img, 1)) = {NextBlocks(img, 1)[1]}
  <1> DEFINE bs == NextBlocks(img, 1)
  <1>1. FreeBlocks(img) \in SUBSET Block
    BY DEF FreeBlocks
  <1>2. IsFiniteSet(FreeBlocks(img)) /\ Cardinality(FreeBlocks(img)) \in Nat
    BY <1>1, NumbersFinite
  <1>3. Cardinality(FreeBlocks(img)) # 0
    BY <1>2, FS_EmptySet
  <1>4. 1 \in 0 .. Cardinality(FreeBlocks(img))
    BY <1>2, <1>3
  <1>5. bs \in [1 .. 1 -> Block \ img.block_bitmap]
    BY <1>4, NextBlocksAre
  <1> HIDE DEF bs
  <1>6. bs \in Seq(Block \ img.block_bitmap) /\ Len(bs) = 1
        /\ bs[1] \in Block \ img.block_bitmap /\ ToSet(bs) = {bs[k] : k \in 1 .. 1}
    <2> DEFINE S == Block \ img.block_bitmap
               n == 1
    <2>1. bs \in [1 .. n -> S] /\ n \in Nat /\ 1 \in 1 .. n
      BY <1>5
    <2> HIDE DEF S, n
    <2>2. bs \in Seq(S) /\ Len(bs) = n /\ (\A k \in 1 .. n : bs[k] \in S) /\ ToSet(bs) = {bs[k] : k \in 1 .. n}
      BY ONLY <2>1, FunctionIsSeq
    <2>3. bs \in Seq(S) /\ Len(bs) = n /\ bs[1] \in S /\ ToSet(bs) = {bs[k] : k \in 1 .. n}
      BY ONLY <2>1, <2>2
    <2> QED
      BY <2>3 DEF S, n
  <1>7. ToSet(bs) = {bs[1]}
    BY <1>6
  <1>8. bs \in Seq(Block)
    BY <1>6, SeqMonotonic
  <1> QED
    BY <1>4, <1>6, <1>7, <1>8 DEF bs

LEMMA DirectAppended ==
  ASSUME NEW direct \in Seq(Block), Once(direct), Len(direct) < Direct,
         NEW bs \in Seq(Block), Len(bs) = 1, bs[1] \notin ToSet(direct)
  PROVE  LET more == direct \o bs
         IN /\ HeldOK(more, 0) /\ Len(more) = Len(direct) + 1 /\ more[Len(direct) + 1] = bs[1]
            /\ \A k \in 1 .. Len(direct) : more[k] = direct[k]
            /\ ToSet(more) = ToSet(direct) \cup {bs[1]}
  <1> DEFINE more == direct \o bs
             m == Len(direct)
  <1>1. m \in Nat /\ Direct \in Nat
    BY SizeAssumption, LenProperties
  <1>2. more \in Seq(Block) /\ Len(more) = m + 1 /\ more[m + 1] = bs[1]
        /\ \A k \in 1 .. m : more[k] = direct[k]
    <2>1. /\ more \in Seq(Block) /\ Len(more) = m + Len(bs)
          /\ \A k \in 1 .. m + Len(bs) : more[k] = IF k <= m THEN direct[k] ELSE bs[k - m]
      <3>1. /\ direct \o bs \in Seq(Block) /\ Len(direct \o bs) = Len(direct) + Len(bs)
            /\ \A k \in 1 .. Len(direct) + Len(bs) :
                 (direct \o bs)[k] = IF k <= Len(direct) THEN direct[k] ELSE bs[k - Len(direct)]
        BY ConcatProperties, Zenon
      <3> QED
        BY <3>1, Zenon DEF more, m
    <2> HIDE DEF more, m
    <2>2. /\ more \in Seq(Block) /\ Len(more) = m + 1
          /\ \A k \in 1 .. m + 1 : more[k] = IF k <= m THEN direct[k] ELSE bs[k - m]
      BY <2>1
    <2>3. more[m + 1] = bs[1]
      <3> DEFINE last == m + 1
      <3>1. last \in 1 .. m + 1 /\ ~(last <= m) /\ last - m = 1
        BY <1>1
      <3> HIDE DEF last
      <3>2. more[last] = IF last <= m THEN direct[last] ELSE bs[last - m]
        BY <2>2, <3>1
      <3>3. more[last] = bs[1]
        BY <3>1, <3>2
      <3> QED
        BY <3>3 DEF last
    <2>4. \A k \in 1 .. m : more[k] = direct[k]
      <3>1. TAKE k \in 1 .. m
      <3>2. k \in 1 .. m + 1 /\ k <= m
        BY <1>1
      <3>3. more[k] = IF k <= m THEN direct[k] ELSE bs[k - m]
        BY <2>2, <3>2
      <3> QED
        BY <3>2, <3>3
    <2> QED
      BY <2>2, <2>3, <2>4
  <1> HIDE DEF more
  <1>3. ToSet(more) = ToSet(direct) \cup {bs[1]}
    <2>1. ToSet(more) = {more[k] : k \in 1 .. m + 1}
      BY <1>2 DEF ToSet
    <2>2. ToSet(direct) = {direct[k] : k \in 1 .. m}
      BY DEF ToSet
    <2>3. 1 .. m + 1 = 1 .. m \cup {m + 1}
      BY <1>1
    <2> HIDE DEF m
    <2> QED
      BY <1>2, <2>1, <2>2, <2>3
  <1>4. Once(more)
    <2>1. \A k \in 1 .. m : direct[k] \in ToSet(direct)
      BY DEF ToSet
    <2>2. \A k, l \in 1 .. m : direct[k] = direct[l] => k = l
      BY DEF Once
    <2>3. \A k \in 1 .. m + 1 : k \in 1 .. m \/ k = m + 1
      BY <1>1
    <2> HIDE DEF m
    <2> QED
      BY <1>2, <2>1, <2>2, <2>3 DEF Once
  <1>5. Len(more) <= Direct
    BY <1>1, <1>2
  <1> QED
    BY <1>2, <1>3, <1>4, <1>5 DEF more, HeldOK

WithNewBlock(img, d) ==
  [allocate_blocks(img, ToSet(NextBlocks(img, 1))) EXCEPT !.inode[d].direct = @ \o NextBlocks(img, 1)]

LEMMA DirectoryGrown ==
  ASSUME NEW img, Typed(img), Sane(img), NEW d \in UsedDirectories(img), FreeBlocks(img) # {},
         Len(img.inode[d].direct) # Direct, NEW mid, mid = WithNewBlock(img, d),
         NEW k, k = Len(img.inode[d].direct) + 1
  PROVE  /\ Longer(img, mid, <<d, k>>) /\ <<d, k>> \notin Slots(img)
         /\ mid.records[SlotBlock(mid, <<d, k>>)] = <<>> /\ Len(mid.inode[d].direct) = k
  <1> DEFINE bs == NextBlocks(img, 1)
             b == bs[1]
             one == allocate_blocks(img, ToSet(bs))
             direct == img.inode[d].direct
             more == direct \o bs
             s == <<d, k>>
  <1>1. /\ bs \in Seq(Block) /\ Len(bs) = 1 /\ b \in Block \ img.block_bitmap /\ ToSet(bs) = {b}
    BY OneMore
  <1>2. d \in Inode /\ d \in img.inode_bitmap /\ direct \in Seq(Block) /\ Len(direct) \in Nat
        /\ img.inode[d].indirect = 0
    <2>1. d \in Inode /\ d \in img.inode_bitmap
      BY TypedIs
    <2> QED
      BY <2>1, TypedIs, InodeIs DEF Sane, DirsOK
  <1> HIDE DEF bs, b
  <1>3. Allocated(img, one, {b})
    BY <1>1, BlocksAllocated
  <1>4. Typed(one) /\ one.inode = img.inode /\ one \in Image
    BY <1>3 DEF Allocated, Same
  <1>5. ToSet(direct) \subseteq img.block_bitmap
    BY <1>2 DEF DataBlocks, Sane, Accounted, BlocksOK
  <1>6. Once(direct) /\ Len(direct) < Direct
    BY <1>2, SizeAssumption DEF Typed, FileOK
  <1> HIDE DEF direct
  <1>7. /\ HeldOK(more, 0) /\ Len(more) = Len(direct) + 1 /\ more[Len(direct) + 1] = b
        /\ \A l \in 1 .. Len(direct) : more[l] = direct[l]
        /\ ToSet(more) = ToSet(direct) \cup {b}
    BY <1>1, <1>2, <1>5, <1>6, DirectAppended DEF b
  <1> HIDE DEF one, more
  <1>8. mid = PutFile(one, d, FileHeld(one.inode[d], more, 0))
    <2>1. mid = [one EXCEPT !.inode[d].direct = @ \o bs]
      BY DEF WithNewBlock, one, bs
    <2>2. one.inode \in [Inode -> InodeRecord] /\ one.inode[d] \in InodeRecord
      BY <1>2, <1>4, TypedIs
    <2>3. one.inode[d].indirect = 0 /\ one.inode[d].direct = direct
      BY <1>2, <1>4 DEF direct
    <2>4. [one.inode[d] EXCEPT !.direct = more] = FileHeld(one.inode[d], more, 0)
      BY <2>2, <2>3 DEF InodeRecord, FileHeld
    <2>5. mid = [one EXCEPT !.inode = [one.inode EXCEPT ![d] = [one.inode[d] EXCEPT !.direct = more]]]
      BY <1>4, <2>1, <2>2, <2>3 DEF Image, more
    <2> QED
      BY <2>4, <2>5 DEF PutFile, PutInode
  <1>9. HeldPut(one, mid, d, more, 0)
    BY <1>2, <1>4, <1>7, <1>8, FileHeldPut
  <1>10. /\ Typed(mid) /\ mid.inode_bitmap = img.inode_bitmap /\ mid.block_bitmap = img.block_bitmap \cup {b}
         /\ mid.records = one.records /\ mid.pointers = one.pointers /\ mid.gd = one.gd /\ mid.sb = one.sb
         /\ \A j \in Inode \ {d} : mid.inode[j] = img.inode[j]
         /\ mid.inode[d].mode = img.inode[d].mode /\ mid.inode[d].links = img.inode[d].links
         /\ mid.inode[d].dtime = img.inode[d].dtime /\ mid.inode[d].direct = more /\ mid.inode[d].indirect = 0
    BY <1>3, <1>4, <1>9 DEF HeldPut, Same, Field, Allocated
  <1>11. Counts(img, mid, 0, -Cardinality({b}))
    BY <1>3, <1>10 DEF Allocated, Counts
  <1>12. \A c \in Block \ {b} : mid.records[c] = img.records[c] /\ mid.pointers[c] = img.pointers[c]
    BY <1>3, <1>10 DEF Allocated
  <1>13. DataBlocks(mid, d) = {b} \cup DataBlocks(img, d)
    BY <1>2, <1>7, <1>10 DEF DataBlocks, direct
  <1>14. Grown(img, mid, d, {b})
    BY <1>10, <1>11, <1>12, <1>13 DEF Grown
  <1>15. Accounted(mid) /\ UsedDirectories(mid) = UsedDirectories(img)
    BY <1>1, <1>2, <1>14, GrownIs DEF Sane
  <1>16. s \in UsedDirectories(img) \X Nat /\ s[1] = d /\ s[2] = k /\ k \in Nat /\ k = Len(direct) + 1
    BY <1>2 DEF direct
  <1>17. s \notin Slots(img)
    BY <1>2, <1>16 DEF Slots, direct
  <1>18. s \in Slots(mid)
    BY <1>7, <1>10, <1>15, <1>16 DEF Slots
  <1>19. Slots(mid) = Slots(img) \cup {s}
    <2>1. ASSUME NEW u \in Slots(img)
          PROVE  u \in Slots(mid)
      <3>1. u \in UsedDirectories(img) \X Nat /\ u[1] \in Inode /\ u[2] \in 1 .. Len(img.inode[u[1]].direct)
        BY SlotIs DEF Slots
      <3>2. u[2] \in 1 .. Len(mid.inode[u[1]].direct)
        <4>1. CASE u[1] = d
          BY <1>2, <1>7, <1>10, <3>1, <4>1 DEF direct
        <4>2. CASE u[1] # d
          BY <1>10, <3>1, <4>2
        <4> QED
          BY <4>1, <4>2
      <3> QED
        BY <1>15, <3>1, <3>2 DEF Slots
    <2>2. ASSUME NEW u \in Slots(mid), u # s
          PROVE  u \in Slots(img)
      <3>1. u \in UsedDirectories(img) \X Nat /\ u[1] \in Inode /\ u[2] \in 1 .. Len(mid.inode[u[1]].direct)
            /\ u = <<u[1], u[2]>>
        BY <1>10, <1>15, SlotIs DEF Slots
      <3>2. u[2] \in 1 .. Len(img.inode[u[1]].direct)
        <4>1. CASE u[1] = d
          <5>1. u[2] # k /\ u[2] \in 1 .. Len(direct) + 1
            BY <1>7, <1>10, <2>2, <3>1, <4>1
          <5> QED
            BY <1>2, <1>16, <4>1, <5>1 DEF direct
        <4>2. CASE u[1] # d
          BY <1>10, <3>1, <4>2
        <4> QED
          BY <4>1, <4>2
      <3> QED
        BY <3>1, <3>2 DEF Slots
    <2> QED
      BY <1>18, <2>1, <2>2
  <1>20. ASSUME NEW u \in Slots(img)
         PROVE  SlotBlock(mid, u) = SlotBlock(img, u)
    <2>1. u[1] \in Inode /\ u[2] \in 1 .. Len(img.inode[u[1]].direct)
      BY SlotIs
    <2>2. CASE u[1] = d
      <3>1. u[2] \in 1 .. Len(direct)
        BY <2>1, <2>2 DEF direct
      <3>2. more[u[2]] = direct[u[2]]
        BY <1>7, <3>1
      <3>3. mid.inode[u[1]].direct = more /\ img.inode[u[1]].direct = direct
        BY <1>10, <2>2 DEF direct
      <3> QED
        BY ONLY <3>2, <3>3 DEF SlotBlock
    <2>3. CASE u[1] # d
      BY <1>10, <2>1, <2>3 DEF SlotBlock
    <2> QED
      BY <2>2, <2>3
  <1>21. \A u \in Slots(img) : mid.records[SlotBlock(img, u)] = img.records[SlotBlock(img, u)]
    <2>1. \A u \in Slots(img) : SlotBlock(img, u) \in Block \ {b}
      BY <1>1, SlotsApart, TypedIs DEF Sane, Accounted
    <2> QED
      BY <1>12, <2>1
  <1>22. \A j \in Inode : /\ mid.inode[j].mode = img.inode[j].mode /\ mid.inode[j].links = img.inode[j].links
                          /\ mid.inode[j].dtime = img.inode[j].dtime
    BY <1>10
  <1>23. \A c \in UsedDirectories(img) : mid.inode[c].indirect = 0
    BY <1>10, TypedIs DEF Sane, DirsOK
  <1>24. mid.gd.used_dirs = img.gd.used_dirs
    BY <1>11 DEF Counts
  <1>25. SlotBlock(mid, s) = b
    BY <1>7, <1>10, <1>16 DEF SlotBlock
  <1>26. mid.records[b] = <<>>
    BY <1>1, <1>3, <1>10 DEF Allocated
  <1>27. Longer(img, mid, s)
    BY <1>10, <1>15, <1>18, <1>19, <1>20, <1>21, <1>22, <1>23, <1>24 DEF Longer
  <1> QED
    BY <1>7, <1>10, <1>16, <1>17, <1>25, <1>26, <1>27

LEMMA InsertedInNewBlock ==
  ASSUME NEW img, Typed(img), Sane(img), NEW d \in UsedDirectories(img), FreeBlocks(img) # {},
         Len(img.inode[d].direct) # Direct,
         NEW link \in img.inode_bitmap \cup {0}, NEW n \in Name \cup {".", ".."}, NEW type \in Type,
         Foremost(img, <<d, <<Len(img.inode[d].direct) + 1, 0>>>>, n),
         link # 0 => (type = "dir" <=> IsDir(img, link)),
         NEW out, out = InsertInNewBlock(img, d, link, n, type)
  PROVE  MadeOK(img, out, link, type, d, n)
  <1> DEFINE mid == WithNewBlock(img, d)
             k == Len(img.inode[d].direct) + 1
             s == <<d, k>>
             at == <<k, 0>>
             o == init_dir_entry(mid, d, at, link, Words, n, type)
  <1>1. /\ Longer(img, mid, s) /\ s \notin Slots(img)
        /\ mid.records[SlotBlock(mid, s)] = <<>> /\ Len(mid.inode[d].direct) = k
    BY DirectoryGrown
  <1>2. out = Half(o)
    BY <1>1 DEF InsertInNewBlock, WithNewBlock
  <1>3. /\ s[1] = d /\ at[1] = s[2] /\ at[2] = 0 /\ Words \in 0 .. Words
        /\ Foremost(img, Place(s, at[2]), n)
    BY WordsNat DEF Place
  <1> HIDE DEF mid, k, s, at, o
  <1>4. ASSUME NEW i \in Inode
        PROVE  LET new == EntryFor(i, Words, n, type)
               IN Fits(img, s, Fill(mid.records[SlotBlock(mid, s)], at[2], new), at[2], new)
    <2> DEFINE new == EntryFor(i, Words, n, type)
               r == Fill(<<>>, 0, new)
    <2>1. new \in Record /\ new.name # "/" /\ new.inode # 0 /\ new.rec_len = Words
      <3>1. i \in Inode /\ Words \in 0 .. Words /\ n \in Name \cup {".", ".."} /\ type \in Type
        BY <1>3
      <3>2. /\ EntryFor(i, Words, n, type) \in Record /\ EntryFor(i, Words, n, type).name # "/"
            /\ EntryFor(i, Words, n, type).inode # 0 /\ EntryFor(i, Words, n, type).rec_len = Words
        <4> HIDE DEF new, r
        <4> QED
          BY ONLY <3>1, EntryForIs, SMTT(30)
      <3> QED
        BY ONLY <3>2
    <2> HIDE DEF new
    <2>2. DirBlock(r) /\ Live(r) = {0} /\ r[0] = new /\ Gone(r) = {}
      BY <2>1, NewAdds
    <2> HIDE DEF r
    <2>3. Fits(img, s, r, 0, new)
      BY <1>1, <2>2 DEF Fits, OldLive, SameEntry
    <2> QED
      BY <1>1, <1>3, <2>3 DEF new, r
  <1>5. InitOK(img, mid, o, link, type, d, n)
    BY <1>1, <1>3, <1>4, EntryAdded DEF InitOK, o
  <1>6. /\ out.image = o.image
        /\ out.exit = IF o.exit = "ENOMEM" THEN "half" ELSE o.exit
    BY <1>2, HalfIs DEF o
  <1> QED
    BY <1>1, <1>5, <1>6 DEF InitOK, MadeOK, Keeps, Gives, Created, Longer

(* A removed record lies behind one that has room for its name again,      *)
LEMMA GhostRoom ==
  ASSUME NEW img, Typed(img), Sane(img), NEW g \in Ghosts(img)
  PROVE  LET d == g[1][1]
             k == g[1][2][1]
         IN /\ <<d, k>> \in Slots(img)
            /\ \E o \in Walk(Content(img, <<d, k>>)) :
                 /\ HasRoom(RecordAt(img, d, <<k, o>>), g[2]) /\ o \in Nat /\ g[1][2][2] \in Nat
                 /\ Behind(Content(img, <<d, k>>), o) <= g[1][2][2]
  <1>1. PICK s \in Slots(img) :
          g \in {<<Place(s, w), Content(img, s)[w].name>> : w \in Gone(Content(img, s))}
    BY DEF Ghosts
  <1> DEFINE r == Content(img, s)
  <1>2. PICK v \in Gone(r) : g = <<Place(s, v), r[v].name>>
    BY <1>1
  <1>3. g[1][1] = s[1] /\ g[1][2][1] = s[2] /\ g[1][2][2] = v /\ g[2] = r[v].name
    BY <1>2 DEF Place
  <1>4. s = <<s[1], s[2]>> /\ s[1] \in UsedDirectories(img)
    BY SlotIs
  <1>5. DirBlock(r)
    BY DEF Sane, DirsOK
  <1>6. PICK o \in Walk(r) : o < v /\ Behind(r, o) <= v /\ Behind(r, v) <= o + r[o].rec_len
    BY <1>5, GapHolds
  <1>7. RecordAt(img, s[1], <<s[2], o>>) = r[o]
    <2>1. RecordAt(img, s[1], <<s[2], o>>) = WordAt(r, o)
      BY <1>4, PlacesAre
    <2> QED
      BY <1>5, <2>1, DirBlockWords DEF WordAt
  <1>8. o \in 0 .. Words - 1 /\ v \in 0 .. Words - 1 /\ r[o].rec_len \in 3 .. Words
    BY <1>5, DirBlockWords, BlockDomain DEF DirBlock, BlockOK, Gone
  <1>9. HasRoom(r[o], r[v].name)
    <2>1. actual_len(r[o].name) \in 3 .. 4 /\ actual_len(r[v].name) \in 3 .. 4
      BY LengthIs
    <2>2. actual_len(r[v].name) <= r[o].rec_len - actual_len(r[o].name)
      BY <1>6, <1>8, <2>1, WordsNat DEF Behind
    <2>3. actual_len(r[v].name) <= r[o].rec_len
      BY <1>8, <2>1, <2>2, WordsNat
    <2> QED
      BY <2>2, <2>3 DEF HasRoom
  <1>10. o \in Nat /\ v \in Nat
    BY <1>8, WordsNat
  <1> HIDE DEF r
  <1> QED
    BY <1>3, <1>4, <1>6, <1>7, <1>9, <1>10 DEF r

(* so none of a name lies before the first room for it.                    *)
LEMMA RoomForemost ==
  ASSUME NEW img, Typed(img), Sane(img), NEW d \in UsedDirectories(img), NEW n,
         NEW e \in Places(img, d),
         \A o \in Places(img, d) : HasRoom(RecordAt(img, d, o), n) => Sooner(e, o)
  PROVE  /\ Foremost(img, <<d, e>>, n)
         /\ Foremost(img, <<d, <<e[1], e[2] + actual_len(RecordAt(img, d, e).name)>>>>, n)
  <1> DEFINE s == <<d, e[1]>>
             r == Content(img, s)
             w == e[2]
  <1>1. s \in Slots(img) /\ w \in Walk(r) /\ e = <<e[1], w>> /\ e[1] \in Nat /\ w \in Nat
    BY PlacesAre
  <1>2. DirBlock(r)
    BY <1>1 DEF Sane, DirsOK
  <1>3. RecordAt(img, d, e) = r[w]
    <2>1. RecordAt(img, d, e) = WordAt(r, w)
      BY <1>1, PlacesAre
    <2> QED
      BY <1>1, <1>2, <2>1, DirBlockWords DEF WordAt
  <1> HIDE DEF s, r, w
  <1>4. ASSUME NEW g \in Ghosts(img), g[1][1] = d, g[2] = n
        PROVE  /\ Sooner(e, g[1][2])
               /\ Sooner(<<e[1], e[2] + actual_len(RecordAt(img, d, e).name)>>, g[1][2])
    <2> DEFINE k == g[1][2][1]
               v == g[1][2][2]
               q == Content(img, <<d, k>>)
    <2>1. PICK o \in Walk(q) : /\ HasRoom(RecordAt(img, d, <<k, o>>), n) /\ o \in Nat /\ v \in Nat
                               /\ Behind(q, o) <= v
      BY <1>4, GhostRoom
    <2>2. <<d, k>> \in Slots(img)
      BY <1>4, GhostRoom
    <2>3. <<k, o>> \in Places(img, d)
      BY <2>2, PlacesAre
    <2>4. Sooner(e, <<k, o>>)
      BY <2>1, <2>3
    <2>5. Behind(q, o) \in o + 3 .. o + 4
      BY <2>1, LengthIs DEF Behind
    <2>6. k \in Nat
      BY <2>3, PlacesAre
    <2>7. CASE e[1] < k
      BY <2>7 DEF Sooner
    <2>8. CASE e[1] = k /\ w <= o
      <3>1. q = r
        BY <2>8 DEF r, s
      <3>2. Behind(r, w) <= v
        <4>1. CASE w = o
          BY <2>1, <3>1, <4>1
        <4>2. CASE w < o
          <5>1. Header(r, w) /\ Header(r, o) /\ BlockOK(r)
            BY <1>1, <1>2, <2>1, <3>1 DEF DirBlock, Chain
          <5>2. Behind(r, w) <= o
            BY <4>2, <5>1, HeaderBefore
          <5>3. Behind(r, w) \in w + 3 .. w + 4
            BY <1>1, LengthIs DEF Behind
          <5> QED
            BY <1>1, <2>1, <2>5, <5>2, <5>3
        <4> QED
          BY <1>1, <2>1, <2>8, <4>1, <4>2
      <3>3. w + actual_len(r[w].name) <= v /\ actual_len(r[w].name) \in 3 .. 4
        BY <3>2, LengthIs DEF Behind
      <3>4. w <= v
        BY <1>1, <2>1, <3>3
      <3> QED
        BY <1>3, <2>8, <3>3, <3>4 DEF Sooner, w
    <2> QED
      BY <2>4, <2>7, <2>8 DEF Sooner, w
  <1> QED
    BY <1>4 DEF Foremost

(* create_dir_entry                                                        *)
LEMMA NameMade ==
  ASSUME NEW img, Typed(img), Sane(img), NEW d \in UsedDirectories(img),
         NEW link \in img.inode_bitmap \cup {0}, NEW n \in Name \cup {".", ".."}, NEW type \in Type,
         link # 0 => (type = "dir" <=> IsDir(img, link)),
         NEW out, out = create_dir_entry(img, d, link, n, type)
  PROVE  MadeOK(img, out, link, type, d, n) /\ (out.exit = "0" => Absent(img, d, n))
  <1> DEFINE room == {e \in Places(img, d) : HasRoom(RecordAt(img, d, e), n)}
  <1>1. CASE find_entry(img, d, n) # {}
    <2>1. out = [image |-> img, exit |-> "EEXIST"]
      BY <1>1 DEF create_dir_entry, Ends
    <2> QED
      BY <2>1 DEF MadeOK
  <1>2. CASE find_entry(img, d, n) = {} /\ room # {}
    <2> DEFINE e == First(room)
    <2>1. out = InsertBeside(img, d, e, link, n, type)
      BY <1>2 DEF create_dir_entry
    <2>2. e \in room /\ \A o \in room : Sooner(e, o)
      <3>1. room \subseteq Nat \X Nat
        BY PlacesAre
      <3> HIDE DEF room
      <3> QED
        BY <1>2, <3>1, FirstIs
    <2>3. /\ e \in Places(img, d) /\ HasRoom(RecordAt(img, d, e), n)
          /\ \A o \in Places(img, d) : HasRoom(RecordAt(img, d, o), n) => Sooner(e, o)
      BY <2>2
    <2> HIDE DEF e
    <2>4. /\ Foremost(img, <<d, e>>, n)
          /\ Foremost(img, <<d, <<e[1], e[2] + actual_len(RecordAt(img, d, e).name)>>>>, n)
      BY <2>3, RoomForemost
    <2>5. MadeOK(img, out, link, type, d, n)
      BY <2>1, <2>3, <2>4, InsertedInPlace, InsertedBehind
    <2> QED
      BY <1>2, <2>5, AbsentIs
  <1>3. CASE /\ find_entry(img, d, n) = {} /\ room = {}
             /\ Len(img.inode[d].direct) = Direct \/ FreeBlocks(img) = {}
    <2>1. out = [image |-> img, exit |-> "ENOMEM"]
      BY <1>3 DEF create_dir_entry, Ends
    <2> QED
      BY <2>1 DEF MadeOK
  <1>4. CASE /\ find_entry(img, d, n) = {} /\ room = {}
             /\ ~(Len(img.inode[d].direct) = Direct \/ FreeBlocks(img) = {})
    <2>1. out = InsertInNewBlock(img, d, link, n, type)
      BY <1>4 DEF create_dir_entry
    <2>2. Foremost(img, <<d, <<Len(img.inode[d].direct) + 1, 0>>>>, n)
      <3>1. ASSUME NEW g \in Ghosts(img), g[1][1] = d, g[2] = n
            PROVE  FALSE
        <4> DEFINE k == g[1][2][1]
        <4>1. PICK o \in Walk(Content(img, <<d, k>>)) : HasRoom(RecordAt(img, d, <<k, o>>), n)
          BY <3>1, GhostRoom
        <4>2. <<d, k>> \in Slots(img)
          BY <3>1, GhostRoom
        <4>3. <<k, o>> \in Places(img, d)
          BY <4>2, PlacesAre
        <4> QED
          BY <1>4, <4>1, <4>3
      <3> QED
        BY <3>1 DEF Foremost
    <2>3. MadeOK(img, out, link, type, d, n)
      BY <1>4, <2>1, <2>2, InsertedInNewBlock
    <2> QED
      BY <1>4, <2>3, AbsentIs
  <1> QED
    BY <1>1, <1>2, <1>3, <1>4
-----------------------------------------------------------------------------
(* The tools that make names.                                              *)
DirsCounted(img) == img.gd.used_dirs = Cardinality(UsedDirectories(img))

WholeImage(img) == Typed(img) /\ Sane(img) /\ DirsCounted(img)

ToolOK(out) ==
  /\ Typed(out.image)
  /\ out.exit \notin {"half", "undefined"} => WholeImage(out.image)

(* A tool enters one name, or removes one; the directory that mkdir makes  *)
(* names itself and the one above it.                                      *)
EntersOne(img, new, d, n, i) ==
  /\ Absent(img, d, n) /\ NameAdded(img, new, d, n, i)
  /\ i \notin UsedDirectories(img) /\ UsedDirectories(new) = UsedDirectories(img)

RemovesOne(img, new, d, n, i) ==
  /\ NameTaken(img, new, d, n, i)
  /\ i \notin UsedDirectories(img) /\ UsedDirectories(new) = UsedDirectories(img)

OwnNames(S, d, i) ==
  S # {} => \E y, z : y[1] = i /\ z[1] = i /\ S = {<<y, ".", i>>, <<z, "..", d>>}

MakesOne(img, new, d, n, i) ==
  /\ Absent(img, d, n) /\ i \notin img.inode_bitmap
  /\ UsedDirectories(new) = UsedDirectories(img) \cup {i}
  /\ \E x, S : /\ x[1] = d /\ OwnNames(S, d, i) /\ Foremost(new, x, n)
               /\ Named(new) = Named(img) \cup {<<x, n, i>>} \cup S
  /\ Ghosts(new) \subseteq Ghosts(img)

Changes(img, new) ==
  \/ SameNames(img, new)
  \/ \E d \in UsedDirectories(img), n \in Given : \E i :
       EntersOne(img, new, d, n, i) \/ RemovesOne(img, new, d, n, i) \/ MakesOne(img, new, d, n, i)

ToolDoes(img, out) ==
  ToolOK(out) /\ (out.exit \notin {"half", "undefined"} => Changes(img, out.image))

LEMMA NothingDone ==
  ASSUME NEW img, WholeImage(img), NEW out, out.image = img
  PROVE  ToolDoes(img, out)
  BY DEF ToolDoes, ToolOK, Changes, SameNames, WholeImage

LEMMA MadeWhole ==
  ASSUME NEW img, WholeImage(img), NEW out, NEW link, NEW type, NEW d, NEW n,
         MadeOK(img, out, link, type, d, n),
         link # 0 \/ type # "dir"
  PROVE  ToolOK(out)
  <1>1. CASE out.exit = "0"
    <2>1. Created(img, out.image, link, type, d, n)
      BY <1>1 DEF MadeOK
    <2>2. UsedDirectories(out.image) = UsedDirectories(img)
      BY <2>1 DEF Created
    <2> QED
      BY <2>1, <2>2 DEF ToolOK, WholeImage, DirsCounted, Created
  <1>2. CASE out.exit \in {"EEXIST", "ENOMEM"}
    BY <1>2 DEF MadeOK, ToolOK, WholeImage
  <1>3. CASE out.exit = "half"
    BY <1>3 DEF MadeOK, ToolOK
  <1> QED
    BY <1>1, <1>2, <1>3 DEF MadeOK

LEMMA MadeEnters ==
  ASSUME NEW img, WholeImage(img), NEW out, NEW link, NEW type, NEW d \in UsedDirectories(img), NEW n \in Given,
         MadeOK(img, out, link, type, d, n), out.exit = "0" => Absent(img, d, n),
         type # "dir", link # 0 => ~IsDir(img, link), out.exit = "0"
  PROVE  EntersOne(img, out.image, d, n, Linked(img, link))
  <1>1. Created(img, out.image, link, type, d, n)
    BY DEF MadeOK
  <1>2. UsedDirectories(out.image) = UsedDirectories(img) /\ NameAdded(img, out.image, d, n, Linked(img, link))
    BY <1>1 DEF Created
  <1>3. Linked(img, link) \notin UsedDirectories(img)
    <2>1. CASE link = 0
      BY <1>1, <2>1 DEF Created, UsedDirectories
    <2>2. CASE link # 0
      BY <2>2 DEF Linked, UsedDirectories
    <2> QED
      BY <2>1, <2>2
  <1> QED
    BY <1>2, <1>3 DEF EntersOne

LEMMA MadeDoes ==
  ASSUME NEW img, WholeImage(img), NEW out, NEW link, NEW type, NEW d \in UsedDirectories(img), NEW n \in Given,
         MadeOK(img, out, link, type, d, n), out.exit = "0" => Absent(img, d, n),
         type # "dir", link # 0 => ~IsDir(img, link)
  PROVE  ToolDoes(img, out)
  <1>1. ToolOK(out)
    BY MadeWhole
  <1>2. CASE out.exit = "0"
    BY <1>1, <1>2, MadeEnters DEF ToolDoes, Changes
  <1>3. CASE out.exit # "0"
    BY <1>1, <1>3 DEF ToolDoes, Changes, SameNames, MadeOK
  <1> QED
    BY <1>2, <1>3

LEMMA LnWhole ==
  ASSUME NEW img, WholeImage(img), NEW c \in UsedDirectories(img), NEW e \in LiveEntries(img, c),
         NEW d \in UsedDirectories(img), NEW n \in Given,
         NEW out, out = ln(img, RecordAt(img, c, e), d, n)
  PROVE  ToolDoes(img, out)
  <1> DEFINE source == RecordAt(img, c, e)
  <1>1. <<c, e>> \in LiveRecords(img)
    BY DEF LiveRecords
  <1>2. source.inode \in img.inode_bitmap /\ (source.type = "dir" <=> IsDir(img, source.inode))
    <2>1. \A x \in LiveRecords(img) :
            /\ RecordAt(img, x[1], x[2]).inode \in img.inode_bitmap
            /\ RecordAt(img, x[1], x[2]).type = "dir" <=> IsDir(img, RecordAt(img, x[1], x[2]).inode)
      BY DEF WholeImage, Sane, NamesOK
    <2>2. <<c, e>>[1] = c /\ <<c, e>>[2] = e
      OBVIOUS
    <2> QED
      BY <1>1, <2>1, <2>2
  <1>3. source.inode # 0
    BY DEF LiveEntries
  <1> HIDE DEF source
  <1>4. CASE source.type = "dir"
    <2>1. out = [image |-> img, exit |-> "EISDIR"]
      BY <1>4 DEF ln, Ends, source
    <2> QED
      BY <2>1, NothingDone
  <1>5. CASE source.type # "dir"
    <2>1. out = create_dir_entry(img, d, source.inode, n, "reg")
      BY <1>5 DEF ln, source
    <2> DEFINE link == source.inode
    <2>2. link \in img.inode_bitmap \cup {0} /\ "reg" \in Type /\ n \in Name \cup {".", ".."}
          /\ (link # 0 => ("reg" = "dir" <=> IsDir(img, link)))
      BY <1>2, <1>5 DEF Type, Given
    <2>3. out = create_dir_entry(img, d, link, n, "reg") /\ link # 0
      BY <1>3, <2>1
    <2> HIDE DEF link
    <2>4. MadeOK(img, out, link, "reg", d, n) /\ (out.exit = "0" => Absent(img, d, n))
      BY <2>2, <2>3, NameMade DEF WholeImage
    <2> QED
      BY <2>2, <2>4, MadeDoes
  <1> QED
    BY <1>4, <1>5

(* used_dirs counts the directory that was made.                           *)
PutGroup(img, v) == [img EXCEPT !.gd = v]

OneMoreDirectory(img) == [img EXCEPT !.gd.used_dirs = @ + 1]

LEMMA PutGroupIs ==
  ASSUME NEW img \in Image, NEW v \in [free_inodes : Int, free_blocks : Int, used_dirs : Int],
         NEW new, new = PutGroup(img, v)
  PROVE  new.gd = v /\ Same(img, new, Field \ {"gd"})
  BY UpdateIs DEF PutGroup

LEMMA DirectoryMore ==
  ASSUME NEW m \in Image, NEW new, new = OneMoreDirectory(m)
  PROVE  /\ Same(m, new, Field \ {"gd"}) /\ new.gd.used_dirs = m.gd.used_dirs + 1
         /\ new.gd.free_inodes = m.gd.free_inodes /\ new.gd.free_blocks = m.gd.free_blocks
  <1> DEFINE gd == [free_inodes |-> m.gd.free_inodes, free_blocks |-> m.gd.free_blocks,
                    used_dirs |-> m.gd.used_dirs + 1]
  <1>1. m.gd \in [free_inodes : Int, free_blocks : Int, used_dirs : Int]
    BY DEF Image
  <1>2. gd \in [free_inodes : Int, free_blocks : Int, used_dirs : Int]
    BY <1>1
  <1>3. new = PutGroup(m, gd)
    <2>1. [m.gd EXCEPT !.used_dirs = m.gd.used_dirs + 1] = gd
      BY <1>1
    <2>2. new = [m EXCEPT !.gd = [m.gd EXCEPT !.used_dirs = m.gd.used_dirs + 1]]
      BY DEF OneMoreDirectory, Image
    <2> QED
      BY <2>1, <2>2 DEF PutGroup
  <1>4. gd.free_inodes = m.gd.free_inodes /\ gd.free_blocks = m.gd.free_blocks
        /\ gd.used_dirs = m.gd.used_dirs + 1
    OBVIOUS
  <1> HIDE DEF gd
  <1> QED
    BY <1>2, <1>3, <1>4, PutGroupIs

LEMMA DirectoryCounted ==
  ASSUME NEW img, WholeImage(img), NEW m, NEW d, NEW n, Created(img, m, 0, "dir", d, n),
         NEW new, new = OneMoreDirectory(m)
  PROVE  WholeImage(new) /\ UsedDirectories(new) = UsedDirectories(img) \cup {NextInode(img)}
         /\ new.inode_bitmap = m.inode_bitmap /\ SameNames(m, new)
  <1> DEFINE i == NextInode(img)
  <1>1. /\ Typed(m) /\ Sane(m) /\ m.gd.used_dirs = img.gd.used_dirs
        /\ UsedDirectories(m) = UsedDirectories(img) \cup {i} /\ i \notin img.inode_bitmap
    BY DEF Created, Linked
  <1> HIDE DEF i
  <1>2. m \in Image
    BY <1>1 DEF Typed
  <1>6. /\ Same(m, new, Field \ {"gd"}) /\ new.gd.used_dirs = m.gd.used_dirs + 1
        /\ new.gd.free_inodes = m.gd.free_inodes /\ new.gd.free_blocks = m.gd.free_blocks
    BY <1>2, DirectoryMore
  <1>7. /\ new \in Image /\ new.inode_bitmap = m.inode_bitmap /\ new.block_bitmap = m.block_bitmap
        /\ new.inode = m.inode /\ new.records = m.records /\ new.pointers = m.pointers /\ new.sb = m.sb
    BY <1>6 DEF Same, Field
  <1>8. Typed(new)
    BY <1>1, <1>7 DEF Typed
  <1>9. Accounted(new)
    <2>1. FreeOK(new)
      BY <1>1, <1>7 DEF Sane, Accounted, FreeOK, IsDir
    <2>2. CountersOf(new)
      BY <1>1, <1>6, <1>7, CountersAre DEF Sane, Accounted, FreeInodes, FreeBlocks
    <2>3. \A j : DataBlocks(new, j) = DataBlocks(m, j)
      BY <1>7 DEF DataBlocks
    <2>4. BlocksOK(new)
      BY <1>1, <1>7, <2>3 DEF Sane, Accounted, BlocksOK
    <2> QED
      BY <2>1, <2>2, <2>4 DEF Accounted
  <1>10. Sane(new) /\ UsedDirectories(new) = UsedDirectories(m) /\ SameNames(m, new)
    BY <1>1, <1>7, <1>8, <1>9, SaneKept
  <1>11. Cardinality(UsedDirectories(m)) = Cardinality(UsedDirectories(img)) + 1
    <2>1. UsedDirectories(img) \in SUBSET Inode /\ i \notin UsedDirectories(img)
      BY <1>1, TypedIs DEF UsedDirectories, WholeImage
    <2>2. IsFiniteSet(UsedDirectories(img))
      BY <2>1, NumbersFinite
    <2> QED
      BY <1>1, <2>1, <2>2, FS_AddElement
  <1>12. DirsCounted(new)
    BY <1>1, <1>6, <1>10, <1>11 DEF WholeImage, DirsCounted
  <1> QED
    BY <1>1, <1>7, <1>8, <1>10, <1>12 DEF WholeImage, i

LEMMA NamedUsed ==
  ASSUME NEW img, NEW t \in Named(img)
  PROVE  t[1][1] \in UsedDirectories(img)
  BY DEF Named, LiveRecords

(* The block that is taken for a directory's own name has room for the one *)
(* of the directory above.                                                 *)
LEMMA RoomForParent ==
  ASSUME NEW img, Typed(img), Sane(img), NEW i \in UsedDirectories(img),
         NEW y \in LiveRecords(img), y[1] = i,
         \A t \in Named(img) : t[1][1] = i => t = <<y, ".", i>>,
         NEW d, d # 0, NEW out, out = create_dir_entry(img, i, d, "..", "dir")
  PROVE  out.exit = "0"
  <1> DEFINE s == <<i, y[2][1]>>
             r == Content(img, s)
             room == {e \in Places(img, i) : HasRoom(RecordAt(img, i, e), "..")}
  <1>1. \A x \in LiveRecords(img) : x[1] = i => x = y /\ Entry(img, x).name = "."
    <2> TAKE x \in LiveRecords(img)
    <2> HAVE x[1] = i
    <2>1. <<x, Entry(img, x).name, Entry(img, x).inode>> \in Named(img)
      BY DEF Named
    <2> QED
      BY <2>1
  <1>2. s \in Slots(img) /\ y[2][2] \in Live(r)
    BY LiveIs
  <1>3. DirBlock(r)
    BY <1>2 DEF Sane, DirsOK
  <1>4. \A w \in Walk(r) : <<s[2], w>> \in Places(img, i) /\ RecordAt(img, i, <<s[2], w>>) = r[w]
    <2> TAKE w \in Walk(r)
    <2>1. <<s[2], w>> \in Places(img, i) /\ RecordAt(img, i, <<s[2], w>>) = WordAt(r, w)
      BY <1>2, PlacesAre
    <2> QED
      BY <1>3, <2>1, DirBlockWords DEF WordAt
  <1>5. \A w \in Live(r) : Place(s, w) = y /\ r[w].name = "."
    <2> TAKE w \in Live(r)
    <2> HIDE DEF r
    <2>1. Place(s, w) \in LiveRecords(img) /\ Entry(img, Place(s, w)) = r[w]
      BY <1>2, PlaceIs DEF r
    <2>2. Place(s, w)[1] = i
      BY DEF Place
    <2> QED
      BY <1>1, <2>1, <2>2
  <1> HIDE DEF s, r
  <1>6. \A v, w \in Live(r) : v = w
    BY <1>5 DEF Place
  <1>7. actual_len(".") = 3 /\ actual_len("..") = 3
    BY NameAssumption, Zenon DEF actual_len
  <1>8. \E w \in Walk(r) : HasRoom(r[w], "..")
    <2>1. 0 \in Walk(r) /\ \A w \in Walk(r) : w + r[w].rec_len \in Walk(r) \cup {Words}
      BY <1>3 DEF DirBlock, Chain
    <2>2. \A w \in Walk(r) : r[w].rec_len \in 3 .. Words /\ (w \in Live(r) <=> r[w].inode # 0)
      BY <1>3, DirBlockWords
    <2>3. ASSUME NEW w \in Walk(r), w \notin Live(r) PROVE HasRoom(r[w], "..")
      BY <1>7, <2>2, <2>3 DEF HasRoom
    <2>4. CASE 0 \in Live(r)
      <3>1. r[0].name = "." /\ r[0].rec_len \in 3 .. Words /\ r[0].inode # 0
        BY <1>5, <2>1, <2>2, <2>4
      <3>2. CASE r[0].rec_len >= 6
        BY <1>7, <2>1, <3>1, <3>2 DEF HasRoom
      <3>3. CASE r[0].rec_len < 6
        <4>1. r[0].rec_len \in Walk(r) /\ r[0].rec_len # 0
          BY <2>1, <3>1, <3>3, SizeAssumption
        <4> QED
          BY <1>6, <2>3, <2>4, <4>1
      <3> QED
        BY <3>1, <3>2, <3>3, SizeAssumption
    <2> QED
      BY <2>1, <2>3, <2>4
  <1>9. room # {}
    BY <1>4, <1>8
  <1>10. find_entry(img, i, "..") = {}
    <2> SUFFICES ASSUME NEW e \in LiveEntries(img, i), RecordAt(img, i, e).name = ".." PROVE FALSE
      BY DEF find_entry
    <2>1. <<i, e>> \in LiveRecords(img) /\ Entry(img, <<i, e>>).name = ".."
      BY DEF LiveRecords, Entry
    <2> QED
      BY <1>1, <2>1
  <1>11. out = InsertBeside(img, i, First(room), d, "..", "dir")
    BY <1>9, <1>10 DEF create_dir_entry
  <1>12. \A m, e, rec_len : init_dir_entry(m, i, e, d, rec_len, "..", "dir").exit = "0"
    BY DEF init_dir_entry, Ends
  <1> HIDE DEF room
  <1> QED
    BY <1>11, <1>12, HalfIs DEF InsertBeside

LEMMA MkdirWhole ==
  ASSUME NEW img, WholeImage(img), NEW d \in UsedDirectories(img), NEW n \in Given,
         NEW out, out = mkdir(img, d, n)
  PROVE  ToolDoes(img, out)
  <1> DEFINE i == NextInode(img)
             made == create_dir_entry(img, d, 0, n, "dir")
             m == OneMoreDirectory(made.image)
             self == create_dir_entry(m, i, i, ".", "dir")
             parent == create_dir_entry(self.image, i, d, "..", "dir")
  <1>1. MadeOK(img, made, 0, "dir", d, n) /\ (made.exit = "0" => Absent(img, d, n))
    <2>1. 0 \in img.inode_bitmap \cup {0} /\ n \in Name \cup {".", ".."} /\ "dir" \in Type
      BY DEF Type, Given
    <2> QED
      BY <2>1, NameMade DEF WholeImage
  <1>2. out = IF made.exit # "0" THEN made
              ELSE IF self.exit # "0" THEN self ELSE parent
    BY DEF mkdir, Then, Ends, OneMoreDirectory
  <1>3. CASE made.exit # "0"
    BY <1>1, <1>2, <1>3 DEF MadeOK, ToolDoes, ToolOK, WholeImage, Changes, SameNames
  <1>4. CASE made.exit = "0"
    <2>1. Created(img, made.image, 0, "dir", d, n)
      BY <1>1, <1>4 DEF MadeOK
    <2> HIDE DEF made
    <2>2. WholeImage(m) /\ UsedDirectories(m) = UsedDirectories(img) \cup {i}
          /\ m.inode_bitmap = made.image.inode_bitmap /\ SameNames(made.image, m)
      BY <2>1, DirectoryCounted
    <2>8. PICK x : x[1] = d /\ Named(m) = Named(img) \cup {<<x, n, i>>} /\ Foremost(made.image, x, n)
      BY <2>1, <2>2 DEF Created, Linked, NameAdded, SameNames
    <2>11. Ghosts(m) \subseteq Ghosts(made.image) /\ Ghosts(made.image) \subseteq Ghosts(img)
      BY <2>1, <2>2 DEF Created, NameAdded, SameNames
    <2>9. i \notin img.inode_bitmap /\ Absent(img, d, n)
      BY <1>1, <1>4, <2>1 DEF Created, Linked
    <2>10. ASSUME NEW new, WholeImage(new), UsedDirectories(new) = UsedDirectories(m),
                  NEW S, OwnNames(S, d, i), Named(new) = Named(m) \cup S, Ghosts(new) \subseteq Ghosts(m)
           PROVE  Changes(img, new)
      <3>2. Foremost(new, x, n) /\ Ghosts(new) \subseteq Ghosts(img)
        BY <2>8, <2>10, <2>11 DEF Foremost
      <3>1. MakesOne(img, new, d, n, i)
        BY <2>2, <2>8, <2>9, <2>10, <3>2 DEF MakesOne
      <3> QED
        BY <3>1 DEF Changes
    <2>3. i \in UsedDirectories(m) /\ d \in UsedDirectories(m) /\ i # 0 /\ d # 0
          /\ i \in m.inode_bitmap /\ IsDir(m, i)
      <3>1. i \in UsedDirectories(m) /\ d \in UsedDirectories(m)
        BY <2>2
      <3>2. UsedDirectories(m) \subseteq Inode
        BY <2>2, TypedIs DEF WholeImage
      <3> QED
        BY <3>1, <3>2, NumbersFinite DEF UsedDirectories
    <2> HIDE DEF m, i
    <2>4. MadeOK(m, self, i, "dir", i, ".")
      <3>1. i \in m.inode_bitmap \cup {0} /\ "." \in Name \cup {".", ".."} /\ "dir" \in Type
            /\ (i # 0 => ("dir" = "dir" <=> IsDir(m, i)))
        BY <2>3 DEF Type
      <3> QED
        BY <2>2, <2>3, <3>1, NameMade DEF WholeImage
    <2>5. ToolOK(self)
      BY <2>2, <2>3, <2>4, MadeWhole
    <2>6. CASE self.exit # "0"
      <3>1. self.exit \notin {"half", "undefined"} => self.image = m
        BY <2>4, <2>6 DEF MadeOK
      <3>2. OwnNames({}, d, i) /\ Named(m) = Named(m) \cup {}
        BY DEF OwnNames
      <3>3. Changes(img, m)
        BY <2>2, <2>10, <3>2
      <3> QED
        BY <1>2, <1>4, <2>5, <2>6, <3>1, <3>3 DEF ToolDoes
    <2>7. CASE self.exit = "0"
      <3>1. Created(m, self.image, i, "dir", i, ".") /\ WholeImage(self.image)
        BY <2>4, <2>5, <2>7 DEF MadeOK, ToolOK
      <3>2. UsedDirectories(self.image) = UsedDirectories(m)
        BY <2>3, <3>1 DEF Created
      <3>5. PICK y : y[1] = i /\ Named(self.image) = Named(m) \cup {<<y, ".", i>>}
        BY <2>3, <3>1 DEF Created, Linked, NameAdded
      <3>8. Ghosts(self.image) \subseteq Ghosts(m)
        BY <3>1 DEF Created, NameAdded
      <3> HIDE DEF self
      <3>3. MadeOK(self.image, parent, d, "dir", i, "..")
        <4>1. d \in self.image.inode_bitmap \cup {0} /\ ".." \in Name \cup {".", ".."} /\ "dir" \in Type
              /\ (d # 0 => ("dir" = "dir" <=> IsDir(self.image, d)))
              /\ i \in UsedDirectories(self.image)
          BY <2>3, <3>2 DEF Type, UsedDirectories
        <4> QED
          BY <3>1, <4>1, NameMade DEF WholeImage
      <3>4. ToolOK(parent)
        BY <2>3, <3>1, <3>3, MadeWhole
      <3>6. parent.exit = "0"
        <4>1. ASSUME NEW t \in Named(m) PROVE t[1][1] # i
          <5>1. \A u \in Named(img) : u[1][1] \in img.inode_bitmap
            BY NamedUsed DEF UsedDirectories
          <5>2. d \in img.inode_bitmap
            BY DEF UsedDirectories
          <5> QED
            BY <2>8, <2>9, <5>1, <5>2
        <4>2. \A t \in Named(self.image) : t[1][1] = i => t = <<y, ".", i>>
          BY <3>5, <4>1
        <4>3. y \in LiveRecords(self.image)
          <5>1. <<y, ".", i>> \in Named(self.image)
            BY <3>5
          <5>2. PICK x1 \in LiveRecords(self.image) :
                  <<y, ".", i>> = <<x1, Entry(self.image, x1).name, Entry(self.image, x1).inode>>
            BY <5>1 DEF Named
          <5> QED
            BY <5>2
        <4>4. i \in UsedDirectories(self.image) /\ Typed(self.image) /\ Sane(self.image)
          BY <2>3, <3>1, <3>2 DEF WholeImage
        <4> QED
          BY <2>3, <3>5, <4>2, <4>3, <4>4, RoomForParent
      <3>7. CASE parent.exit = "0"
        <4>1. Created(self.image, parent.image, d, "dir", i, "..") /\ WholeImage(parent.image)
          BY <3>3, <3>4, <3>7 DEF MadeOK, ToolOK
        <4>2. UsedDirectories(parent.image) = UsedDirectories(m)
          BY <2>3, <3>2, <4>1 DEF Created
        <4>3. PICK z : z[1] = i /\ Named(parent.image) = Named(self.image) \cup {<<z, "..", d>>}
          BY <2>3, <4>1 DEF Created, Linked, NameAdded
        <4>4. OwnNames({<<y, ".", i>>, <<z, "..", d>>}, d, i)
          BY <3>5, <4>3 DEF OwnNames
        <4>5. Named(parent.image) = Named(m) \cup {<<y, ".", i>>, <<z, "..", d>>}
          BY <3>5, <4>3
        <4>7. Ghosts(parent.image) \subseteq Ghosts(m)
          BY <3>8, <4>1 DEF Created, NameAdded
        <4>6. Changes(img, parent.image)
          BY <2>10, <4>1, <4>2, <4>4, <4>5, <4>7
        <4> QED
          BY <1>2, <1>4, <2>7, <3>4, <4>6 DEF ToolDoes
      <3> QED
        BY <3>6, <3>7
    <2> QED
      BY <2>6, <2>7
  <1> QED
    BY <1>3, <1>4

-----------------------------------------------------------------------------
(* The data of a new file: the blocks come in ascending order, the first   *)
(* ones are direct, the next is the indirect one, the rest its pointers.   *)
Ascending(s) == \A k, l \in 1 .. Len(s) : k < l => s[k] < s[l]

Slice(s, a, z, t) ==
  /\ t \in Seq(Block) /\ Len(t) = z - a + 1
  /\ \A k \in 1 .. Len(t) : t[k] = s[a + k - 1] /\ a + k - 1 \in a .. z

LEMMA SliceIs ==
  ASSUME NEW s \in Seq(Block), NEW a \in Nat \ {0}, NEW z \in Nat, z <= Len(s), a <= z + 1,
         NEW t, t = SubSeq(s, a, z)
  PROVE  Slice(s, a, z, t)
  <1>1. Len(s) \in Nat /\ \A k \in 1 .. Len(s) : s[k] \in Block
    BY LenProperties, ElementOfSeq
  <1>2. \A k \in a .. z : s[k] \in Block
    BY <1>1
  <1>3. /\ SubSeq(s, a, z) \in Seq(Block)
        /\ Len(SubSeq(s, a, z)) = (IF a <= z THEN z - a + 1 ELSE 0)
        /\ \A k \in 1 .. z - a + 1 : SubSeq(s, a, z)[k] = s[a + k - 1]
    BY <1>2, SubSeqProperties
  <1>4. /\ t \in Seq(Block) /\ Len(t) = (IF a <= z THEN z - a + 1 ELSE 0)
        /\ \A k \in 1 .. z - a + 1 : t[k] = s[a + k - 1]
    BY <1>3, Zenon
  <1>5. Len(t) = z - a + 1
    BY <1>4
  <1>6. ASSUME NEW k \in 1 .. Len(t)
        PROVE  t[k] = s[a + k - 1] /\ a + k - 1 \in a .. z
    BY <1>4, <1>5
  <1> QED
    BY <1>4, <1>5, <1>6 DEF Slice

LEMMA SliceOnce ==
  ASSUME NEW s \in Seq(Block), Ascending(s), NEW a \in Nat \ {0}, NEW z \in Nat, z <= Len(s),
         NEW t, Slice(s, a, z, t)
  PROVE  Once(t) /\ ToSet(t) = {s[k] : k \in a .. z}
  <1>1. Len(s) \in Nat /\ \A k \in 1 .. Len(s) : s[k] \in Nat
    <2>1. \A k \in 1 .. Len(s) : s[k] \in Block
      BY ElementOfSeq
    <2> QED
      BY <2>1, BlockAssumption, LenProperties
  <1>2. Len(t) = z - a + 1 /\ Len(t) \in Nat
        /\ \A k \in 1 .. Len(t) : t[k] = s[a + k - 1] /\ a + k - 1 \in a .. z
    BY LenProperties DEF Slice
  <1>3. ASSUME NEW k \in 1 .. Len(t), NEW l \in 1 .. Len(t), k # l
        PROVE  t[k] # t[l]
    <2> DEFINE p == a + k - 1
               q == a + l - 1
    <2>1. p \in 1 .. Len(s) /\ q \in 1 .. Len(s) /\ t[k] = s[p] /\ t[l] = s[q]
      BY <1>1, <1>2
    <2>2. p < q \/ q < p
      BY <1>3
    <2> HIDE DEF p, q
    <2>3. s[p] \in Nat /\ s[q] \in Nat /\ (s[p] < s[q] \/ s[q] < s[p])
      BY <1>1, <2>1, <2>2 DEF Ascending
    <2> QED
      BY <2>1, <2>3
  <1>4. ToSet(t) = {t[k] : k \in 1 .. Len(t)}
    BY DEF Slice, ToSet
  <1>5. ASSUME NEW k \in a .. z
        PROVE  \E l \in 1 .. Len(t) : s[k] = t[l]
    <2> DEFINE l == k - a + 1
    <2>1. l \in 1 .. Len(t) /\ a + l - 1 = k
      BY <1>2
    <2> HIDE DEF l
    <2>2. t[l] = s[a + l - 1]
      BY <1>2, <2>1
    <2> QED
      BY <2>1, <2>2
  <1>6. \A k \in 1 .. Len(t) : \E l \in a .. z : t[k] = s[l]
    BY <1>2
  <1>7. ToSet(t) = {s[k] : k \in a .. z}
    <2>1. ASSUME NEW k \in 1 .. Len(t) PROVE t[k] \in {s[l] : l \in a .. z}
      BY ONLY <1>6, <2>1
    <2>2. ASSUME NEW k \in a .. z PROVE s[k] \in {t[l] : l \in 1 .. Len(t)}
      BY ONLY <1>5, <2>2
    <2> QED
      BY ONLY <1>4, <2>1, <2>2
  <1> QED
    BY <1>3, <1>7 DEF Once

PartsOK(bs, direct, indirect, rest) ==
  /\ HeldOK(direct, indirect)
  /\ indirect # 0 => rest \in Seq(Block) /\ PointersOK(indirect, rest)
  /\ bs = ToSet(direct) \cup (IF indirect = 0 THEN {} ELSE {indirect} \cup ToSet(rest))

LEMMA FewBlocksParted ==
  ASSUME NEW s \in Seq(Block), Ascending(s), NEW a \in Nat \ {0}, a <= Len(s) + 1,
         Len(s) < a + Direct, NEW direct, Slice(s, a, Len(s), direct), NEW rest
  PROVE  PartsOK({s[k] : k \in a .. Len(s)}, direct, 0, rest)
  <1>1. Len(s) \in Nat /\ Direct \in Nat
    BY LenProperties, SizeAssumption
  <1>2. Once(direct) /\ ToSet(direct) = {s[k] : k \in a .. Len(s)}
    BY <1>1, SliceOnce
  <1>3. Len(direct) <= Direct
    BY <1>1 DEF Slice
  <1> QED
    BY <1>2, <1>3 DEF PartsOK, HeldOK, Slice

LEMMA ManyBlocksParted ==
  ASSUME NEW s \in Seq(Block), Ascending(s), NEW a \in Nat \ {0}, NEW x, x = a + Direct,
         NEW m, m = Len(s), x <= m, m <= x + Pointers,
         NEW direct, Slice(s, a, x - 1, direct),
         NEW rest, Slice(s, x + 1, m, rest)
  PROVE  PartsOK({s[k] : k \in a .. m}, direct, s[x], rest)
  <1>1. m \in Nat /\ Direct \in Nat \ {0} /\ Pointers \in Nat \ {0} /\ x \in Nat \ {0} /\ a < x
    BY LenProperties, SizeAssumption
  <1>2. \A k \in 1 .. m : s[k] \in Block /\ s[k] \in Nat \ {0}
    <2>1. \A k \in 1 .. m : s[k] \in Block
      BY ElementOfSeq
    <2> QED
      BY <2>1, BlockAssumption
  <1>3. /\ direct \in Seq(Block) /\ Len(direct) = Direct
        /\ \A k \in 1 .. Direct : direct[k] = s[a + k - 1] /\ a + k - 1 \in a .. x - 1
    BY <1>1 DEF Slice
  <1>4. /\ rest \in Seq(Block) /\ Len(rest) = m - x
        /\ \A k \in 1 .. Len(rest) : rest[k] = s[x + 1 + k - 1] /\ x + 1 + k - 1 \in x + 1 .. m
    BY <1>1 DEF Slice
  <1>5. Once(direct) /\ ToSet(direct) = {s[k] : k \in a .. x - 1}
    <2>1. x - 1 \in Nat /\ x - 1 <= Len(s)
      BY <1>1
    <2> QED
      BY <2>1, SliceOnce
  <1>6. Once(rest) /\ ToSet(rest) = {s[k] : k \in x + 1 .. m}
    <2>1. x + 1 \in Nat \ {0} /\ m <= Len(s)
      BY <1>1
    <2> QED
      BY <1>1, <2>1, SliceOnce
  <1>7. x \in 1 .. m
    BY <1>1
  <1>8. ASSUME NEW k \in 1 .. Direct
        PROVE  direct[k] < s[x]
    <2> DEFINE l == a + k - 1
    <2>1. direct[k] = s[l] /\ l \in a .. x - 1
      BY <1>3
    <2> HIDE DEF l
    <2>2. l \in 1 .. m /\ l < x
      BY <1>1, <2>1
    <2> QED
      BY <1>7, <2>1, <2>2 DEF Ascending
  <1>9. ASSUME NEW k \in 1 .. Len(rest)
        PROVE  rest[k] > s[x]
    <2> DEFINE l == x + 1 + k - 1
    <2>1. rest[k] = s[l] /\ l \in x + 1 .. m
      BY <1>4
    <2> HIDE DEF l
    <2>2. l \in 1 .. m /\ x < l
      BY <1>1, <2>1
    <2>3. s[x] < s[l] /\ s[x] \in Nat /\ s[l] \in Nat
      BY <1>2, <1>7, <2>2 DEF Ascending
    <2> QED
      BY <2>1, <2>3
  <1>10. Len(rest) <= Pointers
    BY <1>1, <1>4
  <1>11. HeldOK(direct, s[x])
    BY <1>1, <1>2, <1>3, <1>5, <1>7, <1>8 DEF HeldOK
  <1>12. PointersOK(s[x], rest)
    BY <1>6, <1>9, <1>10 DEF PointersOK
  <1>13. a .. m = a .. x - 1 \cup {x} \cup x + 1 .. m
    BY <1>1, <1>7
  <1>14. {s[k] : k \in a .. m} = ToSet(direct) \cup ({s[x]} \cup ToSet(rest))
    BY <1>5, <1>6, <1>13
  <1> QED
    BY <1>2, <1>4, <1>7, <1>11, <1>12, <1>14 DEF PartsOK

(* A file without blocks is given some.                                    *)
Empty(img, i) == i \in img.inode_bitmap /\ ~IsDir(img, i)
                 /\ img.inode[i].direct = <<>> /\ img.inode[i].indirect = 0

PutParts(img, i, direct, indirect, text) ==
  PutText(PutFile(img, i, FileHeld(img.inode[i], direct, indirect)), text)

PutPointersOf(img, b, s) == PutPointers(img, [img.pointers EXCEPT ![b] = s])

PartsPut(img, new, i, direct, indirect) ==
  /\ Typed(new) /\ Same(img, new, Field \ {"inode", "text"})
  /\ \A j \in Inode \ {i} : new.inode[j] = img.inode[j]
  /\ new.inode[i].mode = img.inode[i].mode /\ new.inode[i].links = img.inode[i].links
  /\ new.inode[i].dtime = img.inode[i].dtime
  /\ new.inode[i].direct = direct /\ new.inode[i].indirect = indirect

LEMMA PartsPutIs ==
  ASSUME NEW img, Typed(img), NEW i \in Inode, NEW direct, NEW indirect, HeldOK(direct, indirect),
         NEW text \in SUBSET Block, NEW new, new = PutParts(img, i, direct, indirect, text)
  PROVE  PartsPut(img, new, i, direct, indirect)
  <1> DEFINE held == PutFile(img, i, FileHeld(img.inode[i], direct, indirect))
  <1>1. HeldPut(img, held, i, direct, indirect)
    BY FileHeldPut
  <1>2. new = PutText(held, text)
    BY DEF PutParts
  <1> HIDE DEF held
  <1>3. held \in Image /\ Typed(held)
    BY <1>1 DEF HeldPut, Same
  <1>4. Same(held, new, Field \ {"text"})
    BY <1>2, <1>3, PutMoreIs
  <1>5. Typed(new)
    BY <1>3, <1>4 DEF Typed, Same, Field
  <1> QED
    BY <1>1, <1>4, <1>5 DEF PartsPut, HeldPut, Same, Field

PointersPut(img, new, b, s) ==
  /\ Typed(new) /\ Same(img, new, Field \ {"pointers"})
  /\ \A c \in Block : new.pointers[c] = IF c = b THEN s ELSE img.pointers[c]

LEMMA PointersPutIs ==
  ASSUME NEW img, Typed(img), NEW b \in Block, NEW s \in Seq(Block), PointersOK(b, s),
         NEW new, new = PutPointersOf(img, b, s)
  PROVE  PointersPut(img, new, b, s)
  <1> DEFINE ps == [img.pointers EXCEPT ![b] = s]
  <1>1. img.pointers \in [Block -> Seq(Block)]
    BY TypedIs
  <1>2. ps \in [Block -> Seq(Block)] /\ \A c \in Block : ps[c] = IF c = b THEN s ELSE img.pointers[c]
    BY <1>1
  <1>3. new = PutPointers(img, ps)
    BY DEF PutPointersOf
  <1> HIDE DEF ps
  <1>4. new.pointers = ps /\ Same(img, new, Field \ {"pointers"})
    BY <1>2, <1>3, PutMoreIs DEF Typed
  <1>5. \A c \in Block : PointersOK(c, new.pointers[c])
    BY <1>2, <1>4 DEF Typed
  <1>6. Typed(new)
    BY <1>4, <1>5 DEF Typed, Same, Field
  <1> QED
    BY <1>2, <1>4, <1>6 DEF PointersPut

LEMMA DataHeld ==
  ASSUME NEW img, Typed(img), NEW i, Empty(img, i),
         NEW bs \in SUBSET (Block \ img.block_bitmap),
         NEW direct, NEW indirect, NEW rest, PartsOK(bs, direct, indirect, rest),
         NEW one, one = allocate_blocks(img, bs),
         NEW text \in SUBSET Block, NEW held, held = PutParts(one, i, direct, indirect, text),
         NEW new, new = IF indirect = 0 THEN held ELSE PutPointersOf(held, indirect, rest)
  PROVE  Grown(img, new, i, bs)
  <1>1. i \in Inode /\ i \in img.inode_bitmap /\ bs \in SUBSET Block
    BY TypedIs DEF Empty
  <1>2. Allocated(img, one, bs)
    BY <1>1, BlocksAllocated
  <1>3. HeldOK(direct, indirect) /\ (indirect # 0 => rest \in Seq(Block) /\ PointersOK(indirect, rest))
    BY DEF PartsOK
  <1>4. PartsPut(one, held, i, direct, indirect)
    BY <1>1, <1>2, <1>3, PartsPutIs DEF Allocated
  <1>5. /\ Typed(held) /\ held.inode_bitmap = img.inode_bitmap
        /\ held.block_bitmap = img.block_bitmap \cup bs
        /\ held.records = one.records /\ held.pointers = one.pointers /\ held.gd = one.gd /\ held.sb = one.sb
        /\ \A j \in Inode \ {i} : held.inode[j] = img.inode[j]
        /\ held.inode[i].mode = img.inode[i].mode /\ held.inode[i].links = img.inode[i].links
        /\ held.inode[i].direct = direct /\ held.inode[i].indirect = indirect
        /\ held.inode[i].dtime = img.inode[i].dtime
    BY <1>2, <1>4 DEF PartsPut, Same, Field, Allocated
  <1>6. /\ Typed(new) /\ Same(held, new, Field \ {"pointers"})
        /\ \A c \in Block : new.pointers[c] = IF indirect # 0 /\ c = indirect THEN rest ELSE held.pointers[c]
    <2>1. CASE indirect = 0
      <3>1. new = held /\ held \in Image
        BY <1>5, <2>1 DEF Typed
      <3> QED
        BY <1>5, <2>1, <3>1 DEF Same
    <2>2. CASE indirect # 0
      <3>1. indirect \in Block
        BY <1>3, <2>2 DEF HeldOK
      <3>2. PointersPut(held, new, indirect, rest)
        BY <1>3, <1>5, <2>2, <3>1, PointersPutIs
      <3> QED
        BY <2>2, <3>2 DEF PointersPut
    <2> QED
      BY <2>1, <2>2
  <1>7. /\ new.inode_bitmap = held.inode_bitmap /\ new.block_bitmap = held.block_bitmap
        /\ new.records = held.records /\ new.inode = held.inode /\ new.gd = held.gd /\ new.sb = held.sb
    BY <1>6 DEF Same, Field
  <1>8. Counts(img, new, 0, -Cardinality(bs))
    BY <1>2, <1>5, <1>7 DEF Allocated, Counts
  <1>9. indirect # 0 => indirect \in bs
    BY DEF PartsOK
  <1>10. \A b \in Block \ bs : new.records[b] = img.records[b] /\ new.pointers[b] = img.pointers[b]
    BY <1>2, <1>5, <1>6, <1>7, <1>9 DEF Allocated
  <1>11. ToSet(<<>>) = {}
    BY DEF ToSet
  <1>12. DataBlocks(img, i) = {}
    BY <1>11 DEF DataBlocks, Empty
  <1>13. indirect # 0 => indirect \in Block /\ new.pointers[indirect] = rest
    BY <1>3, <1>6 DEF HeldOK
  <1>14. DataBlocks(new, i) = bs
    <2>1. new.inode[i].direct = direct /\ new.inode[i].indirect = indirect
      BY <1>5, <1>7
    <2>2. CASE indirect = 0
      BY <2>1, <2>2 DEF DataBlocks, PartsOK
    <2>3. CASE indirect # 0
      BY <1>13, <2>1, <2>3 DEF DataBlocks, PartsOK
    <2> QED
      BY <2>2, <2>3
  <1> QED
    BY <1>5, <1>6, <1>7, <1>8, <1>10, <1>12, <1>14 DEF Grown

WithParts(img, i, direct, indirect, text) ==
  [img EXCEPT !.inode[i].direct = direct, !.inode[i].indirect = indirect, !.text = @ \cup text]

WithDirect(img, i, direct, text) ==
  [img EXCEPT !.inode[i].direct = direct, !.text = @ \cup text]

LEMMA FileHeldIs ==
  ASSUME NEW f \in InodeRecord, NEW direct, NEW indirect
  PROVE  [[f EXCEPT !.direct = direct] EXCEPT !.indirect = indirect] = FileHeld(f, direct, indirect)
  <1> DEFINE h == [f EXCEPT !.direct = direct]
  <1>1. h = FileHeld(f, direct, f.indirect)
    BY DEF InodeRecord, FileHeld
  <1> HIDE DEF h
  <1>2. [h EXCEPT !.indirect = indirect] = FileHeld(f, direct, indirect)
    BY <1>1 DEF FileHeld
  <1> QED
    BY <1>2 DEF h

LEMMA PartsAre ==
  ASSUME NEW img \in Image, NEW i \in Inode, NEW direct, NEW indirect, NEW text,
         NEW new, new = WithParts(img, i, direct, indirect, text)
  PROVE  new = PutParts(img, i, direct, indirect, img.text \cup text)
  <1> DEFINE f == img.inode[i]
             g == FileHeld(f, direct, indirect)
             fs == [img.inode EXCEPT ![i] = g]
             a == [img EXCEPT !.inode[i].direct = direct]
             b == [a EXCEPT !.inode[i].indirect = indirect]
  <1>1. f \in InodeRecord /\ img.inode \in [Inode -> InodeRecord]
    BY DEF Image
  <1>2. [[f EXCEPT !.direct = direct] EXCEPT !.indirect = indirect] = g
    BY <1>1, FileHeldIs, Zenon
  <1>3. b = [img EXCEPT !.inode = fs]
    BY <1>1, <1>2 DEF Image
  <1>4. b.text = img.text
    BY <1>3 DEF Image
  <1>5. new = [b EXCEPT !.text = @ \cup text]
    BY DEF WithParts
  <1>6. b = PutFile(img, i, g)
    BY <1>3 DEF PutFile, PutInode
  <1> HIDE DEF b, g
  <1> QED
    BY <1>4, <1>5, <1>6 DEF PutParts, PutText, g, f

LEMMA DirectPartIs ==
  ASSUME NEW img \in Image, NEW i \in Inode, NEW direct, NEW text, img.inode[i].indirect = 0,
         NEW new, new = WithDirect(img, i, direct, text)
  PROVE  new = PutParts(img, i, direct, 0, img.text \cup text)
  <1> DEFINE f == img.inode[i]
             g == FileHeld(f, direct, 0)
             fs == [img.inode EXCEPT ![i] = g]
             b == [img EXCEPT !.inode[i].direct = direct]
  <1>1. f \in InodeRecord /\ img.inode \in [Inode -> InodeRecord]
    BY DEF Image
  <1>2. [f EXCEPT !.direct = direct] = g
    BY <1>1 DEF InodeRecord, FileHeld
  <1>3. b = [img EXCEPT !.inode = fs]
    BY <1>1, <1>2 DEF Image
  <1>4. b.text = img.text
    BY <1>3 DEF Image
  <1>5. new = [b EXCEPT !.text = @ \cup text]
    BY DEF WithDirect
  <1>6. b = PutFile(img, i, g)
    BY <1>3 DEF PutFile, PutInode
  <1> HIDE DEF b, g
  <1> QED
    BY <1>4, <1>5, <1>6 DEF PutParts, PutText, g, f

LEMMA BlocksInOrder ==
  ASSUME NEW img, NEW n \in 0 .. Cardinality(FreeBlocks(img)), NEW bs, bs = NextBlocks(img, n)
  PROVE  /\ bs \in Seq(Block) /\ Len(bs) = n /\ Ascending(bs)
         /\ ToSet(bs) = {bs[k] : k \in 1 .. n} /\ ToSet(bs) \in SUBSET (Block \ img.block_bitmap)
  <1> DEFINE S == Block \ img.block_bitmap
  <1>1. FreeBlocks(img) \in SUBSET Block
    BY DEF FreeBlocks
  <1>2. n \in Nat
    BY <1>1, NumbersFinite
  <1>3. bs \in [1 .. n -> S] /\ \A k, l \in 1 .. n : k < l => bs[k] < bs[l]
    BY NextBlocksAre
  <1>4. S \subseteq Block
    OBVIOUS
  <1> HIDE DEF S
  <1>5. bs \in Seq(S) /\ Len(bs) = n /\ (\A k \in 1 .. n : bs[k] \in S) /\ ToSet(bs) = {bs[k] : k \in 1 .. n}
    BY <1>2, <1>3, FunctionIsSeq
  <1>6. bs \in Seq(Block)
    BY <1>4, <1>5, SeqMonotonic
  <1>7. Ascending(bs)
    BY <1>3, <1>5 DEF Ascending
  <1>8. ToSet(bs) \in SUBSET S
    BY <1>5
  <1> QED
    BY <1>5, <1>6, <1>7, <1>8 DEF S

LEMMA GrownWhole ==
  ASSUME NEW img, WholeImage(img), NEW i, Empty(img, i), NEW bs \in SUBSET (Block \ img.block_bitmap),
         NEW new, Grown(img, new, i, bs)
  PROVE  WholeImage(new) /\ SameNames(img, new)
  <1>1. Typed(new) /\ Sane(new) /\ SameNames(img, new) /\ new.gd.used_dirs = img.gd.used_dirs
    BY FileGrown DEF WholeImage, Empty
  <1> QED
    BY <1>1 DEF WholeImage, DirsCounted, SameNames

LEMMA BsParted ==
  ASSUME NEW bs \in Seq(Block), Ascending(bs), Len(bs) <= Direct + Pointers + 1,
         NEW direct, direct = direct_blocks(bs),
         NEW indirect, indirect = IF Len(bs) > Direct THEN bs[Direct + 1] ELSE 0,
         NEW rest, rest = SubSeq(bs, Direct + 2, Len(bs))
  PROVE  PartsOK({bs[k] : k \in 1 .. Len(bs)}, direct, indirect, rest)
  <1> DEFINE m == Len(bs)
             x == 1 + Direct
             y == Smaller(Direct, m)
  <1>1. m \in Nat /\ Direct \in Nat \ {0} /\ Pointers \in Nat \ {0} /\ 1 \in Nat \ {0}
    BY LenProperties, SizeAssumption
  <1>2. direct = SubSeq(bs, 1, y)
    BY DEF direct_blocks
  <1>3. y = IF Direct < m THEN Direct ELSE m
    BY DEF Smaller
  <1> HIDE DEF m, y, x
  <1>4. CASE m < x
    <2>1. y = m /\ indirect = 0 /\ 1 <= m + 1 /\ m <= m
      BY <1>1, <1>3, <1>4 DEF m, x
    <2>2. direct = SubSeq(bs, 1, m)
      BY <1>2, <2>1
    <2>3. Slice(bs, 1, m, direct)
      BY <1>1, <2>1, <2>2, SliceIs DEF m
    <2> QED
      BY <1>1, <1>4, <2>1, <2>3, FewBlocksParted DEF m, x
  <1>5. CASE x <= m
    <2>1. y = x - 1 /\ x = 1 + Direct /\ indirect = bs[x] /\ x - 1 \in Nat /\ x - 1 <= m /\ 1 <= (x - 1) + 1
          /\ m <= x + Pointers /\ x + 1 \in Nat \ {0} /\ x + 1 = Direct + 2 /\ x + 1 <= m + 1 /\ m <= m
      BY <1>1, <1>3, <1>5 DEF m, x
    <2>2. direct = SubSeq(bs, 1, x - 1) /\ rest = SubSeq(bs, x + 1, m)
      BY <1>2, <2>1 DEF m
    <2>3. Slice(bs, 1, x - 1, direct)
      BY <1>1, <2>1, <2>2, SliceIs DEF m
    <2>4. Slice(bs, x + 1, m, rest)
      BY <1>1, <2>1, <2>2, SliceIs DEF m
    <2>5. m = Len(bs)
      BY DEF m
    <2>6. PartsOK({bs[k] : k \in 1 .. m}, direct, bs[x], rest)
      BY <1>1, <1>5, <2>1, <2>3, <2>4, <2>5, ManyBlocksParted
    <2> QED
      BY <2>1, <2>5, <2>6
  <1> QED
    BY <1>1, <1>4, <1>5 DEF x

LEMMA SourceCopied ==
  ASSUME NEW img, WholeImage(img), NEW i, Empty(img, i), NEW size \in Nat,
         NEW out, out = copy_sourcefile_data(img, i, size)
  PROVE  WholeImage(out.image) /\ SameNames(img, out.image)
  <1> DEFINE kept == Smaller(size, Direct + Pointers)
             wanted == IF kept > Direct THEN kept + 1 ELSE kept
             n == Smaller(wanted, Cardinality(FreeBlocks(img)))
             bs == NextBlocks(img, n)
             indirect == IF Len(bs) > Direct THEN bs[Direct + 1] ELSE 0
             direct == direct_blocks(bs)
             rest == SubSeq(bs, Direct + 2, Len(bs))
             one == allocate_blocks(img, ToSet(bs))
             more == ToSet(bs) \ {indirect}
             text == one.text \cup more
             held == WithParts(one, i, direct, indirect, more)
  <1>1. n \in 0 .. Cardinality(FreeBlocks(img)) /\ n <= Direct + Pointers + 1 /\ n \in Nat
    <2>1. FreeBlocks(img) \in SUBSET Block
      BY DEF FreeBlocks
    <2>2. Cardinality(FreeBlocks(img)) \in Nat
      BY <2>1, NumbersFinite
    <2> QED
      BY <2>2, SizeAssumption DEF Smaller
  <1>2. out.image = IF indirect = 0 THEN held ELSE [held EXCEPT !.pointers[indirect] = rest]
    BY DEF copy_sourcefile_data, Ends, WithParts
  <1> HIDE DEF n
  <1>3. /\ bs \in Seq(Block) /\ Len(bs) = n /\ Ascending(bs)
        /\ ToSet(bs) = {bs[k] : k \in 1 .. n} /\ ToSet(bs) \in SUBSET (Block \ img.block_bitmap)
    BY <1>1, BlocksInOrder
  <1> HIDE DEF bs
  <1>4. PartsOK(ToSet(bs), direct, indirect, rest)
    <2>1. PartsOK({bs[k] : k \in 1 .. Len(bs)}, direct, indirect, rest)
      BY <1>1, <1>3, BsParted
    <2> QED
      BY <1>3, <2>1
  <1> HIDE DEF direct, indirect, rest, more
  <1>5. Typed(img) /\ ToSet(bs) \in SUBSET Block
    BY <1>3 DEF WholeImage
  <1>6. Allocated(img, one, ToSet(bs))
    BY <1>5, BlocksAllocated
  <1>7. one = allocate_blocks(img, ToSet(bs)) /\ i \in Inode
    BY <1>5, TypedIs DEF Empty
  <1> HIDE DEF one
  <1>8. one \in Image /\ one.text \in SUBSET Block
    BY <1>6, TypedIs DEF Allocated, Same
  <1>9. text \in SUBSET Block
    BY <1>5, <1>8 DEF more
  <1>10. held = PutParts(one, i, direct, indirect, text)
    BY <1>7, <1>8, PartsAre
  <1> HIDE DEF text, held
  <1>11. out.image = IF indirect = 0 THEN held ELSE PutPointersOf(held, indirect, rest)
    BY <1>2 DEF PutPointersOf, PutPointers
  <1>12. Grown(img, out.image, i, ToSet(bs))
    BY <1>3, <1>4, <1>5, <1>7, <1>9, <1>10, <1>11, DataHeld
  <1> QED
    BY <1>3, <1>12, GrownWhole

LEMMA PathCopied ==
  ASSUME NEW img, WholeImage(img), NEW i, Empty(img, i),
         NEW out, out = copy_symlink_path(img, i)
  PROVE  WholeImage(out.image) /\ SameNames(img, out.image)
  <1> DEFINE bs == NextBlocks(img, 1)
             one == allocate_blocks(img, ToSet(bs))
             text == one.text \cup ToSet(bs)
             held == WithDirect(one, i, bs, ToSet(bs))
  <1>1. CASE FreeBlocks(img) = {}
    BY <1>1 DEF copy_symlink_path, Ends, SameNames
  <1>2. CASE FreeBlocks(img) # {}
    <2>1. out.image = held
      BY <1>2 DEF copy_symlink_path, Ends, WithDirect
    <2>2. /\ 1 \in 0 .. Cardinality(FreeBlocks(img))
          /\ Len(bs) = 1
      BY <1>2, OneMore
    <2>3. /\ bs \in Seq(Block) /\ Len(bs) = 1 /\ Ascending(bs)
          /\ ToSet(bs) = {bs[k] : k \in 1 .. 1} /\ ToSet(bs) \in SUBSET (Block \ img.block_bitmap)
      BY <2>2, BlocksInOrder
    <2> HIDE DEF bs
    <2>4. PartsOK(ToSet(bs), bs, 0, <<>>)
      <3>1. HeldOK(bs, 0)
        BY <2>3, SizeAssumption DEF HeldOK, Once
      <3> QED
        BY <3>1 DEF PartsOK
    <2>5. Typed(img) /\ ToSet(bs) \in SUBSET Block
      BY <2>3 DEF WholeImage
    <2>6. Allocated(img, one, ToSet(bs))
      BY <2>5, BlocksAllocated
    <2>7. one = allocate_blocks(img, ToSet(bs)) /\ i \in Inode
      BY <2>5, TypedIs DEF Empty
    <2> HIDE DEF one
    <2>8. one \in Image /\ one.text \in SUBSET Block /\ one.inode[i].indirect = 0
      BY <2>6, TypedIs DEF Allocated, Same, Empty
    <2>9. text \in SUBSET Block
      BY <2>5, <2>8
    <2>10. held = PutParts(one, i, bs, 0, text)
      BY <2>7, <2>8, DirectPartIs
    <2> HIDE DEF text, held
    <2>11. Grown(img, held, i, ToSet(bs))
      BY <2>3, <2>4, <2>5, <2>7, <2>9, <2>10, DataHeld
    <2> QED
      BY <2>1, <2>3, <2>11, GrownWhole
  <1> QED
    BY <1>1, <1>2

(* The file that was made is empty.                                        *)
LEMMA MadeEmpty ==
  ASSUME NEW img, WholeImage(img), NEW type \in {"reg", "symlink"},
         NEW out, NEW d, NEW n, MadeOK(img, out, 0, type, d, n), out.exit = "0"
  PROVE  WholeImage(out.image) /\ Empty(out.image, NextInode(img))
  <1>1. Created(img, out.image, 0, type, d, n)
    BY DEF MadeOK
  <1>2. WholeImage(out.image)
    BY MadeWhole DEF ToolOK
  <1> QED
    BY <1>1, <1>2 DEF Created, Linked, Empty, IsDir

LEMMA MadeFilled ==
  ASSUME NEW img, WholeImage(img), NEW type \in {"reg", "symlink"},
         NEW d \in UsedDirectories(img), NEW n \in Given,
         NEW out, MadeOK(img, out, 0, type, d, n), out.exit = "0" => Absent(img, d, n), out.exit = "0",
         NEW filled, WholeImage(filled.image), SameNames(out.image, filled.image)
  PROVE  ToolDoes(img, filled)
  <1>1. EntersOne(img, out.image, d, n, NextInode(img))
    BY MadeEnters DEF Linked
  <1>2. EntersOne(img, filled.image, d, n, NextInode(img))
    <2>1. PICK x : /\ x[1] = d /\ Named(out.image) = Named(img) \cup {<<x, n, NextInode(img)>>}
                   /\ Foremost(out.image, x, n)
      BY <1>1 DEF EntersOne, NameAdded
    <2>2. Ghosts(filled.image) \subseteq Ghosts(out.image) /\ Ghosts(out.image) \subseteq Ghosts(img)
      BY <1>1 DEF EntersOne, NameAdded, SameNames
    <2>3. Foremost(filled.image, x, n) /\ Ghosts(filled.image) \subseteq Ghosts(img)
      BY <2>1, <2>2 DEF Foremost
    <2>4. Named(filled.image) = Named(out.image)
      BY DEF SameNames
    <2>5. NameAdded(img, filled.image, d, n, NextInode(img))
      BY <2>1, <2>3, <2>4 DEF NameAdded
    <2> QED
      BY <1>1, <2>5 DEF EntersOne, SameNames
  <1> QED
    BY <1>2 DEF ToolDoes, ToolOK, Changes, WholeImage

LEMMA CpWhole ==
  ASSUME NEW img, WholeImage(img), NEW d \in UsedDirectories(img), NEW n \in Given, NEW size \in Nat,
         NEW out, out = cp(img, d, n, size)
  PROVE  ToolDoes(img, out)
  <1> DEFINE made == create_dir_entry(img, d, 0, n, "reg")
             copied == copy_sourcefile_data(made.image, NextInode(img), size)
  <1>1. MadeOK(img, made, 0, "reg", d, n) /\ (made.exit = "0" => Absent(img, d, n))
    <2>1. 0 \in img.inode_bitmap \cup {0} /\ n \in Name \cup {".", ".."} /\ "reg" \in Type
      BY DEF Type, Given
    <2> QED
      BY <2>1, NameMade DEF WholeImage
  <1>2. out = IF made.exit # "0" THEN made ELSE copied
    BY DEF cp, Then
  <1> HIDE DEF made
  <1>3. CASE made.exit # "0"
    <2>1. ToolDoes(img, made)
      BY <1>1, MadeDoes
    <2> QED
      BY <1>2, <1>3, <2>1
  <1>4. CASE made.exit = "0"
    <2>1. WholeImage(made.image) /\ Empty(made.image, NextInode(img))
      BY <1>1, <1>4, MadeEmpty
    <2>2. WholeImage(copied.image) /\ SameNames(made.image, copied.image)
      BY <2>1, SourceCopied
    <2> QED
      BY <1>1, <1>2, <1>4, <2>2, MadeFilled
  <1> QED
    BY <1>3, <1>4

LEMMA LnSymbolicWhole ==
  ASSUME NEW img, WholeImage(img), NEW d \in UsedDirectories(img), NEW n \in Given,
         NEW out, out = ln_s(img, d, n)
  PROVE  ToolDoes(img, out)
  <1> DEFINE made == create_dir_entry(img, d, 0, n, "symlink")
             copied == copy_symlink_path(made.image, NextInode(img))
  <1>1. MadeOK(img, made, 0, "symlink", d, n) /\ (made.exit = "0" => Absent(img, d, n))
    <2>1. 0 \in img.inode_bitmap \cup {0} /\ n \in Name \cup {".", ".."} /\ "symlink" \in Type
      BY DEF Type, Given
    <2> QED
      BY <2>1, NameMade DEF WholeImage
  <1>2. out = IF made.exit # "0" THEN made ELSE copied
    BY DEF ln_s, Then
  <1> HIDE DEF made
  <1>3. CASE made.exit # "0"
    <2>1. ToolDoes(img, made)
      BY <1>1, MadeDoes
    <2> QED
      BY <1>2, <1>3, <2>1
  <1>4. CASE made.exit = "0"
    <2>1. WholeImage(made.image) /\ Empty(made.image, NextInode(img))
      BY <1>1, <1>4, MadeEmpty
    <2>2. WholeImage(copied.image) /\ SameNames(made.image, copied.image)
      BY <2>1, PathCopied
    <2> QED
      BY <1>1, <1>2, <1>4, <2>2, MadeFilled
  <1> QED
    BY <1>3, <1>4
-----------------------------------------------------------------------------
(* rm.  A file loses a link, and with the last one its inode and blocks.   *)
UnlinkedOnce(img, i) == [img EXCEPT !.inode[i].links = @ - 1]

Buried(img, i) == [img EXCEPT !.inode[i].dtime = TRUE]

LEMMA InodeUnlinked ==
  ASSUME NEW img, Typed(img), NEW i \in Inode, img.inode[i].links > 0,
         NEW new, new = UnlinkedOnce(img, i)
  PROVE  LinksPut(img, new, i, img.inode[i].links - 1, img.inode[i].dtime)
  <1> DEFINE links == img.inode[i].links - 1
             dtime == img.inode[i].dtime
             f == FileWith(img.inode[i], links, dtime)
  <1>1. img.inode \in [Inode -> InodeRecord] /\ img.inode[i] \in InodeRecord /\ img \in Image
    BY TypedIs DEF Typed
  <1>2. links \in Nat /\ dtime \in BOOLEAN
    BY <1>1, InodeIs
  <1>3. [img.inode[i] EXCEPT !.links = links] = f
    BY <1>1 DEF InodeRecord, FileWith
  <1>4. new = [img EXCEPT !.inode = [img.inode EXCEPT ![i] = [img.inode[i] EXCEPT !.links = links]]]
    BY <1>1 DEF Image, UnlinkedOnce
  <1>5. new = PutFile(img, i, f)
    BY <1>3, <1>4 DEF PutInode, PutFile
  <1> HIDE DEF links, dtime
  <1>6. LinksPut(img, new, i, links, dtime)
    BY <1>2, <1>5, InodePut
  <1> QED
    BY <1>6 DEF links, dtime

LEMMA DtimePut ==
  ASSUME NEW f \in InodeRecord, NEW dtime
  PROVE  [f EXCEPT !.dtime = dtime] = FileWith(f, f.links, dtime)
  BY DEF InodeRecord, FileWith

LEMMA InodeBuried ==
  ASSUME NEW img, Typed(img), NEW i \in Inode, NEW new, new = Buried(img, i)
  PROVE  LinksPut(img, new, i, img.inode[i].links, TRUE)
  <1> DEFINE links == img.inode[i].links
             f == FileWith(img.inode[i], links, TRUE)
  <1>1. img.inode \in [Inode -> InodeRecord] /\ img.inode[i] \in InodeRecord /\ img \in Image
    BY TypedIs DEF Typed
  <1>2. links \in Nat
    BY <1>1, InodeIs
  <1>3. [img.inode[i] EXCEPT !.dtime = TRUE] = f
    BY <1>1, DtimePut, Zenon
  <1>4. new = [img EXCEPT !.inode = [img.inode EXCEPT ![i] = [img.inode[i] EXCEPT !.dtime = TRUE]]]
    BY <1>1 DEF Image, Buried
  <1>5. new = PutFile(img, i, f)
    BY <1>3, <1>4 DEF PutInode, PutFile
  <1> HIDE DEF links
  <1>6. LinksPut(img, new, i, links, TRUE)
    BY <1>2, <1>5, InodePut
  <1> QED
    BY <1>6 DEF links

LEMMA InodeReleased ==
  ASSUME NEW img \in Image, NEW i, NEW new, new = free_inode(img, i)
  PROVE  /\ Same(img, new, Field \ {"sb", "gd", "inode_bitmap"}) /\ Counts(img, new, 1, 0)
         /\ new.inode_bitmap = img.inode_bitmap \ {i}
  <1> DEFINE one == AddFree(img, 1, 0)
             left == one.inode_bitmap \ {i}
  <1>1. Counts(img, one, 1, 0) /\ Same(img, one, Field \ {"sb", "gd"})
    BY AddFreeIs
  <1>2. one \in Image /\ left \in SUBSET Inode
    BY <1>1 DEF Same, Image
  <1>3. new = PutInodeBitmap(one, left)
    BY DEF free_inode, PutInodeBitmap
  <1> HIDE DEF one, left
  <1>4. new.inode_bitmap = left /\ Same(one, new, Field \ {"inode_bitmap"})
    BY <1>2, <1>3, PutBitmapIs
  <1>5. Same(img, new, Field \ {"sb", "gd", "inode_bitmap"})
    BY <1>1, <1>4 DEF Same, Field
  <1>6. Counts(img, new, 1, 0) /\ one.inode_bitmap = img.inode_bitmap
    BY <1>1, <1>4 DEF Same, Field, Counts
  <1> QED
    BY <1>4, <1>5, <1>6 DEF left

LEMMA BlocksReleased ==
  ASSUME NEW img, Typed(img), NEW i \in Inode, NEW new, new = free_data_blocks(img, i)
  PROVE  /\ Same(img, new, Field \ {"sb", "gd", "block_bitmap"})
         /\ Counts(img, new, 0, Cardinality(DataBlocks(img, i)))
         /\ new.block_bitmap = img.block_bitmap \ DataBlocks(img, i)
  <1> DEFINE bs == DataBlocks(img, i)
             one == AddFree(img, 0, Cardinality(bs))
             left == one.block_bitmap \ bs
  <1>0. Cardinality(bs) \in Int /\ img \in Image
    BY BlocksTyped DEF Typed
  <1>3. new = PutBlockBitmap(one, left)
    BY DEF free_data_blocks, PutBlockBitmap
  <1> HIDE DEF bs
  <1>1. Counts(img, one, 0, Cardinality(bs)) /\ Same(img, one, Field \ {"sb", "gd"})
    BY <1>0, AddFreeIs
  <1>2. one \in Image /\ left \in SUBSET Block
    BY <1>1 DEF Same, Image
  <1> HIDE DEF one, left
  <1>4. new.block_bitmap = left /\ Same(one, new, Field \ {"block_bitmap"})
    BY <1>2, <1>3, PutBitmapIs
  <1>5. Same(img, new, Field \ {"sb", "gd", "block_bitmap"})
    BY <1>1, <1>4 DEF Same, Field
  <1>6. Counts(img, new, 0, Cardinality(bs)) /\ one.block_bitmap = img.block_bitmap
    BY <1>1, <1>4 DEF Same, Field, Counts
  <1> QED
    BY <1>4, <1>5, <1>6 DEF bs, left

Unlinked(img, new, i) ==
  /\ Typed(new) /\ Same(img, new, {"records", "pointers", "text"})
  /\ \A j \in Inode \ {i} : new.inode[j] = img.inode[j]
  /\ new.inode[i].mode = img.inode[i].mode /\ new.inode[i].links = img.inode[i].links - 1
  /\ new.inode[i].direct = img.inode[i].direct /\ new.inode[i].indirect = img.inode[i].indirect
  /\ IF img.inode[i].links - 1 > 0
     THEN /\ new.inode_bitmap = img.inode_bitmap /\ new.block_bitmap = img.block_bitmap
          /\ Counts(img, new, 0, 0) /\ new.inode[i].dtime = img.inode[i].dtime
     ELSE /\ new.inode_bitmap = img.inode_bitmap \ {i}
          /\ new.block_bitmap = img.block_bitmap \ DataBlocks(img, i)
          /\ Counts(img, new, 1, Cardinality(DataBlocks(img, i)))

LEMMA InodeLeft ==
  ASSUME NEW img, Typed(img), NEW i \in Inode, img.inode[i].links > 0,
         NEW new, new = unlink_inode(img, i)
  PROVE  Unlinked(img, new, i)
  <1> DEFINE one == UnlinkedOnce(img, i)
             two == Buried(one, i)
             three == free_data_blocks(two, i)
  <1>1. new = IF one.inode[i].links > 0 THEN one ELSE free_inode(three, i)
    BY DEF unlink_inode, UnlinkedOnce, Buried
  <1>2. LinksPut(img, one, i, img.inode[i].links - 1, img.inode[i].dtime)
    BY InodeUnlinked
  <1>3. img \in Image /\ img.sb \in [free_inodes : Int, free_blocks : Int]
        /\ img.gd \in [free_inodes : Int, free_blocks : Int, used_dirs : Int]
    BY TypedIs DEF Typed
  <1> HIDE DEF one
  <1>4. CASE img.inode[i].links - 1 > 0
    <2>1. new = one /\ Typed(one)
      BY <1>1, <1>2, <1>4 DEF LinksPut
    <2>2. /\ Same(img, new, {"records", "pointers", "text"}) /\ new.sb = img.sb /\ new.gd = img.gd
          /\ new.inode_bitmap = img.inode_bitmap /\ new.block_bitmap = img.block_bitmap
      BY <1>2, <2>1 DEF LinksPut, Same, Field
    <2>3. Counts(img, new, 0, 0)
      BY <1>3, <2>2 DEF Counts
    <2> QED
      BY <1>2, <1>4, <2>1, <2>2, <2>3 DEF Unlinked, LinksPut
  <1>5. CASE ~(img.inode[i].links - 1 > 0)
    <2>1. new = free_inode(three, i) /\ Typed(one)
      BY <1>1, <1>2, <1>5 DEF LinksPut
    <2>2. LinksPut(one, two, i, one.inode[i].links, TRUE)
      BY <2>1, InodeBuried
    <2> HIDE DEF two
    <2>3. Typed(two) /\ two \in Image
      BY <2>2 DEF LinksPut, Same
    <2>4. /\ Same(two, three, Field \ {"sb", "gd", "block_bitmap"})
          /\ Counts(two, three, 0, Cardinality(DataBlocks(two, i)))
          /\ three.block_bitmap = two.block_bitmap \ DataBlocks(two, i)
      BY <2>3, BlocksReleased
    <2> HIDE DEF three
    <2>5. /\ Same(three, new, Field \ {"sb", "gd", "inode_bitmap"}) /\ Counts(three, new, 1, 0)
          /\ new.inode_bitmap = three.inode_bitmap \ {i}
      BY <2>1, <2>4, InodeReleased DEF Same
    <2>6. /\ two.inode_bitmap = img.inode_bitmap /\ two.block_bitmap = img.block_bitmap
          /\ two.records = img.records /\ two.pointers = img.pointers /\ two.text = img.text
          /\ two.sb = img.sb /\ two.gd = img.gd
          /\ \A j \in Inode \ {i} : two.inode[j] = img.inode[j]
          /\ two.inode[i].mode = img.inode[i].mode /\ two.inode[i].links = img.inode[i].links - 1
          /\ two.inode[i].direct = img.inode[i].direct /\ two.inode[i].indirect = img.inode[i].indirect
      BY <1>2, <2>2 DEF LinksPut, Same, Field
    <2>7. DataBlocks(two, i) = DataBlocks(img, i)
      BY <2>6 DEF DataBlocks
    <2>8. /\ new \in Image /\ new.records = img.records /\ new.pointers = img.pointers /\ new.text = img.text
          /\ new.inode = two.inode /\ new.records = two.records /\ new.pointers = two.pointers
          /\ new.inode_bitmap = img.inode_bitmap \ {i}
          /\ new.block_bitmap = img.block_bitmap \ DataBlocks(img, i)
      BY <2>4, <2>5, <2>6, <2>7 DEF Same, Field
    <2>9. Typed(new)
      BY <2>3, <2>8 DEF Typed
    <2>10. Counts(img, new, 1, Cardinality(DataBlocks(img, i)))
      <3>1. Cardinality(DataBlocks(img, i)) \in Int
        BY BlocksTyped
      <3> QED
        BY <1>3, <2>4, <2>5, <2>6, <2>7, <3>1 DEF Counts
    <2> QED
      BY <1>5, <2>6, <2>8, <2>9, <2>10 DEF Unlinked, Same
  <1> QED
    BY <1>4, <1>5

(* The directories are the same, whoever's blocks are given back.          *)
LEMMA UnlinkedIs ==
  ASSUME NEW img, Typed(img), Accounted(img), NEW i \in img.inode_bitmap, ~IsDir(img, i),
         img.inode[i].links > 0, NEW new, Unlinked(img, new, i)
  PROVE  /\ Accounted(new) /\ UsedDirectories(new) = UsedDirectories(img) /\ Slots(new) = Slots(img)
         /\ \A s \in Slots(img) : SlotBlock(new, s) = SlotBlock(img, s)
         /\ \A j \in Inode : /\ new.inode[j].mode = img.inode[j].mode
                             /\ new.inode[j].direct = img.inode[j].direct
                             /\ new.inode[j].indirect = img.inode[j].indirect
                             /\ new.inode[j].links = IF j = i THEN img.inode[j].links - 1
                                                     ELSE img.inode[j].links
         /\ \A j \in new.inode_bitmap : new.inode[j].dtime = img.inode[j].dtime
         /\ new.gd.used_dirs = img.gd.used_dirs
  <1>1. i \in Inode /\ img.inode_bitmap \subseteq Inode /\ img.block_bitmap \subseteq Block
    BY TypedIs
  <1>2. \A j \in Inode : /\ new.inode[j].mode = img.inode[j].mode
                         /\ new.inode[j].direct = img.inode[j].direct
                         /\ new.inode[j].indirect = img.inode[j].indirect
                         /\ new.inode[j].links = IF j = i THEN img.inode[j].links - 1
                                                 ELSE img.inode[j].links
    BY <1>1 DEF Unlinked
  <1>3. new.records = img.records /\ new.pointers = img.pointers
    BY DEF Unlinked, Same
  <1>4. new.inode_bitmap = img.inode_bitmap \/ new.inode_bitmap = img.inode_bitmap \ {i}
    BY DEF Unlinked
  <1>5. UsedDirectories(new) = UsedDirectories(img)
    <2>1. \A j \in Inode : IsDir(new, j) <=> IsDir(img, j)
      BY <1>2 DEF IsDir
    <2> QED
      BY <1>1, <1>4, <2>1 DEF UsedDirectories
  <1>6. UsedDirectories(img) \subseteq Inode
    BY TypedIs
  <1>7. Slots(new) = Slots(img) /\ \A s \in Slots(img) : SlotBlock(new, s) = SlotBlock(img, s)
    <2>1. \A d \in UsedDirectories(img) : new.inode[d].direct = img.inode[d].direct
      BY <1>2, <1>6
    <2>2. Slots(new) = Slots(img)
      BY <1>5, <2>1 DEF Slots
    <2>3. \A s \in Slots(img) : s[1] \in UsedDirectories(img)
      BY SlotIs
    <2> QED
      BY <2>1, <2>2, <2>3 DEF SlotBlock
  <1>8. \A j \in Inode : DataBlocks(new, j) = DataBlocks(img, j)
    BY <1>2, <1>3 DEF DataBlocks
  <1>9. FreeOK(new)
    <2>1. \A j \in Inode : IsDir(new, j) <=> IsDir(img, j)
      BY <1>2 DEF IsDir
    <2> QED
      BY <1>4, <2>1 DEF Accounted, FreeOK
  <1>10. BlocksOK(new) /\ CountersOf(new) /\ new.gd.used_dirs = img.gd.used_dirs
    <2>1. CASE img.inode[i].links - 1 > 0
      <3>1. new.inode_bitmap = img.inode_bitmap /\ new.block_bitmap = img.block_bitmap /\ Counts(img, new, 0, 0)
        BY <2>1 DEF Unlinked
      <3>2. BlocksOK(new)
        BY <1>1, <1>8, <3>1 DEF Accounted, BlocksOK
      <3>3. FreeInodes(new) = FreeInodes(img) /\ FreeBlocks(new) = FreeBlocks(img)
            /\ FreeInodes(img) \in SUBSET Inode /\ FreeBlocks(img) \in SUBSET Block
        BY <3>1 DEF FreeInodes, FreeBlocks
      <3>4. /\ Cardinality(FreeInodes(new)) = Cardinality(FreeInodes(img)) + 0
            /\ Cardinality(FreeBlocks(new)) = Cardinality(FreeBlocks(img)) + 0
        BY <3>3, NumbersFinite
      <3>5. CountersOf(new)
        BY <3>1, <3>4, CountersFollow DEF Accounted
      <3> QED
        BY <3>1, <3>2, <3>5 DEF Counts
    <2>2. CASE ~(img.inode[i].links - 1 > 0)
      <3> DEFINE bs == DataBlocks(img, i)
      <3>1. /\ new.inode_bitmap = img.inode_bitmap \ {i} /\ new.block_bitmap = img.block_bitmap \ bs
            /\ Counts(img, new, 1, Cardinality(bs))
        BY <2>2 DEF Unlinked
      <3>2. BlocksOK(new)
        <4>1. BlocksOK(img) /\ \A j \in img.inode_bitmap : DataBlocks(new, j) = DataBlocks(img, j)
          BY <1>1, <1>8 DEF Accounted
        <4> QED
          BY <3>1, <4>1, BlocksShrink
      <3>3. bs \in SUBSET (Block \cap img.block_bitmap)
        BY <1>1 DEF Accounted, BlocksOK
      <3> HIDE DEF bs
      <3>4. Cardinality(FreeInodes(new)) = Cardinality(FreeInodes(img)) + 1
        BY <1>1, <3>1, InodeFreed
      <3>5. Cardinality(FreeBlocks(new)) = Cardinality(FreeBlocks(img)) + Cardinality(bs)
        BY <3>1, <3>3, BlocksFreed
      <3>6. CountersOf(new)
        BY <3>1, <3>4, <3>5, CountersFollow DEF Accounted
      <3> QED
        BY <3>1, <3>2, <3>6 DEF Counts
    <2> QED
      BY <2>1, <2>2
  <1>11. \A j \in new.inode_bitmap : new.inode[j].dtime = img.inode[j].dtime
    <2>1. CASE img.inode[i].links - 1 > 0
      BY <1>1, <2>1 DEF Unlinked
    <2>2. CASE ~(img.inode[i].links - 1 > 0)
      BY <1>1, <2>2 DEF Unlinked
    <2> QED
      BY <2>1, <2>2
  <1> QED
    BY <1>2, <1>5, <1>7, <1>9, <1>10, <1>11 DEF Accounted

LEMMA RecordsOnly ==
  ASSUME NEW img, Typed(img), Accounted(img), NEW new, Same(img, new, Field \ {"records"})
  PROVE  /\ Accounted(new) /\ UsedDirectories(new) = UsedDirectories(img) /\ Slots(new) = Slots(img)
         /\ \A s : SlotBlock(new, s) = SlotBlock(img, s)
  <1>1. /\ new.inode_bitmap = img.inode_bitmap /\ new.block_bitmap = img.block_bitmap
        /\ new.inode = img.inode /\ new.pointers = img.pointers /\ new.sb = img.sb /\ new.gd = img.gd
    BY DEF Same, Field
  <1>2. FreeOK(new) /\ CountersOf(new)
    BY <1>1 DEF Accounted, FreeOK, CountersOf, FreeInodes, FreeBlocks, IsDir
  <1>3. \A i \in Inode : DataBlocks(new, i) = DataBlocks(img, i)
    BY <1>1 DEF DataBlocks
  <1>4. BlocksOK(new)
    BY <1>1, <1>3, TypedIs DEF Accounted, BlocksOK
  <1>5. UsedDirectories(new) = UsedDirectories(img) /\ Slots(new) = Slots(img)
    BY <1>1 DEF UsedDirectories, IsDir, Slots
  <1>6. \A s : SlotBlock(new, s) = SlotBlock(img, s)
    BY <1>1 DEF SlotBlock
  <1> QED
    BY <1>2, <1>4, <1>5, <1>6 DEF Accounted

(* A directory loses a record, and the file it names that link.            *)
LEMMA OldName ==
  ASSUME NEW img, Typed(img), Sane(img), NEW s \in Slots(img), NEW w \in Live(Content(img, s)),
         Content(img, s)[w].type # "dir",
         NEW i, i = Content(img, s)[w].inode,
         NEW mid, Unlinked(img, mid, i), img.inode[i].links > 0,
         NEW r, Drops(Content(img, s), r, w),
         NEW new, BlockPut(mid, new, SlotBlock(img, s), r)
  PROVE  /\ Typed(new) /\ Sane(new) /\ UsedDirectories(new) = UsedDirectories(img)
         /\ new.gd.used_dirs = img.gd.used_dirs
         /\ NameTaken(img, new, s[1], Content(img, s)[w].name, i)
  <1> DEFINE x == Place(s, w)
  <1>1. x \in LiveRecords(img) /\ Entry(img, x) = Content(img, s)[w]
    BY PlaceIs
  <1>2. i \in img.inode_bitmap /\ ~IsDir(img, i)
    <2>1. \A y \in LiveRecords(img) : /\ Entry(img, y).inode \in img.inode_bitmap
                                      /\ Entry(img, y).type = "dir" <=> IsDir(img, Entry(img, y).inode)
      BY DEF Sane, NamesOK, Entry
    <2> HIDE DEF x
    <2>2. /\ Entry(img, x).inode \in img.inode_bitmap
          /\ Entry(img, x).type = "dir" <=> IsDir(img, Entry(img, x).inode)
      BY <1>1, <2>1
    <2> QED
      BY <1>1, <2>2
  <1> HIDE DEF x
  <1>3. /\ Accounted(mid) /\ UsedDirectories(mid) = UsedDirectories(img) /\ Slots(mid) = Slots(img)
        /\ \A u \in Slots(img) : SlotBlock(mid, u) = SlotBlock(img, u)
        /\ \A j \in Inode : /\ mid.inode[j].mode = img.inode[j].mode
                            /\ mid.inode[j].indirect = img.inode[j].indirect
                            /\ mid.inode[j].links = IF j = i THEN img.inode[j].links - 1
                                                    ELSE img.inode[j].links
        /\ \A j \in mid.inode_bitmap : mid.inode[j].dtime = img.inode[j].dtime
        /\ mid.gd.used_dirs = img.gd.used_dirs
    <2>1. Accounted(img)
      BY DEF Sane
    <2> QED
      BY <1>2, <2>1, UnlinkedIs
  <1>4. Typed(mid) /\ mid.records = img.records
    BY DEF Unlinked, Same
  <1>5. /\ Typed(new) /\ Same(mid, new, Field \ {"records"})
        /\ \A c \in Block : new.records[c] = IF c = SlotBlock(img, s) THEN r ELSE img.records[c]
    BY <1>4 DEF BlockPut
  <1>6. /\ Accounted(new) /\ UsedDirectories(new) = UsedDirectories(mid) /\ Slots(new) = Slots(mid)
        /\ \A u : SlotBlock(new, u) = SlotBlock(mid, u)
    <2>1. Typed(mid) /\ Accounted(mid) /\ Same(mid, new, Field \ {"records"})
      BY <1>3, <1>4, <1>5
    <2> QED
      BY <2>1, RecordsOnly
  <1>7. new.inode = mid.inode /\ new.gd = mid.gd /\ new.inode_bitmap = mid.inode_bitmap
    BY <1>5 DEF Same, Field
  <1>8. \A u : Content(new, u) = new.records[SlotBlock(new, u)] /\ Content(img, u) = img.records[SlotBlock(img, u)]
    BY Zenon DEF Content, SlotBlock
  <1>9. \A u \in Slots(img) : SlotBlock(img, u) \in Block /\ (u # s => SlotBlock(img, u) # SlotBlock(img, s))
    BY SlotsApart, TypedIs DEF Sane, Accounted
  <1>10. Content(new, s) = r /\ \A u \in Slots(img) : u # s => Content(new, u) = Content(img, u)
    BY <1>3, <1>5, <1>6, <1>8, <1>9
  <1>11. LosesName(img, new, x)
    <2>1. Drops(Content(img, s), Content(new, s), w) /\ Slots(new) = Slots(img)
      BY <1>3, <1>6, <1>10
    <2> QED
      BY <1>5, <1>10, <2>1, NameLost DEF x
  <1>12. NamesOK(new) /\ LinksOK(new)
    <2>1. img.inode_bitmap \subseteq Inode
      BY TypedIs
    <2>2. \A j \in img.inode_bitmap :
            /\ new.inode[j].mode = img.inode[j].mode
            /\ new.inode[j].links = IF j = i THEN img.inode[j].links - 1 ELSE img.inode[j].links
      BY <1>3, <1>7, <2>1
    <2>3. new.inode_bitmap = IF new.inode[i].links > 0 THEN img.inode_bitmap
                             ELSE img.inode_bitmap \ {i}
      BY <1>2, <1>7, <2>2 DEF Unlinked
    <2>4. Entry(img, x).inode = i /\ NamesOK(img) /\ LinksOK(img)
      BY <1>1 DEF Sane
    <2>5. \A j \in new.inode_bitmap : new.inode[j].dtime = img.inode[j].dtime
      BY <1>3, <1>7
    <2> QED
      BY <1>5, <1>11, <2>2, <2>3, <2>4, <2>5, LinkDropped
  <1>13. DirsOK(new)
    <2>1. \A u \in Slots(img) : DirBlock(Content(new, u))
      BY <1>10 DEF Sane, DirsOK, Drops
    <2>2. \A d \in UsedDirectories(img) : new.inode[d].indirect = 0
      BY <1>3, <1>7, TypedIs DEF Sane, DirsOK
    <2> QED
      BY <1>3, <1>6, <2>1, <2>2 DEF DirsOK
  <1>14. Root \in UsedDirectories(img) /\ Root \in UsedDirectories(new)
    BY <1>3, <1>6 DEF Sane, UsedDirectories
  <1>15. RootOK(new)
    <2> DEFINE root == Place(<<Root, 1>>, 0)
    <2>1. root \in LiveRecords(img) /\ IsRoot(Entry(img, root))
      BY <1>14, RootIs DEF Sane
    <2> HIDE DEF root
    <2>2. root # x
      BY <1>1, <1>2, <2>1 DEF IsRoot, Sane
    <2>3. root \in LiveRecords(new) /\ IsRoot(Entry(new, root))
      BY <1>11, <2>1, <2>2 DEF LosesName, SameEntry, IsRoot
    <2> QED
      BY <1>5, <1>13, <1>14, <2>3, RootIs DEF root
  <1>16. Root \in new.inode_bitmap /\ IsDir(new, Root)
    BY <1>14 DEF UsedDirectories
  <1>17. NameTaken(img, new, s[1], Content(img, s)[w].name, i)
    <2>1. x[1] = s[1]
      BY DEF x, Place
    <2> QED
      BY <1>1, <1>11, <2>1, NamedLess
  <1> QED
    BY <1>3, <1>5, <1>6, <1>7, <1>12, <1>13, <1>15, <1>16, <1>17 DEF Sane

(* Where a place is, in a directory whose records are those of img.        *)
LEMMA EntryIs ==
  ASSUME NEW img, Typed(img), DirsOK(img), NEW d \in UsedDirectories(img), NEW e \in LiveEntries(img, d)
  PROVE  /\ <<d, e[1]>> \in Slots(img) /\ e = <<e[1], e[2]>>
         /\ e[2] \in Live(Content(img, <<d, e[1]>>)) /\ e[2] \in Nat
         /\ RecordAt(img, d, e) = Content(img, <<d, e[1]>>)[e[2]]
         /\ RecordAt(img, d, e).inode # 0 /\ <<d, e>> \in LiveRecords(img)
  <1> DEFINE s == <<d, e[1]>>
             w == e[2]
  <1>1. e \in Places(img, d) /\ RecordAt(img, d, e).inode # 0
    BY DEF LiveEntries
  <1>2. s \in Slots(img) /\ w \in Walk(Content(img, s)) /\ e = <<e[1], w>> /\ w \in Nat
    BY <1>1, PlacesAre
  <1>3. DirBlock(Content(img, s))
    BY <1>2 DEF DirsOK
  <1>4. RecordAt(img, d, e) = WordAt(Content(img, s), w)
    BY <1>2, PlacesAre
  <1>5. RecordAt(img, d, e) = Content(img, s)[w]
    BY <1>2, <1>3, <1>4, DirBlockWords DEF WordAt
  <1>6. w \in Live(Content(img, s))
    BY <1>1, <1>2, <1>4 DEF Live
  <1>7. <<d, e>> \in LiveRecords(img)
    BY DEF LiveRecords
  <1> QED
    BY <1>1, <1>2, <1>5, <1>6, <1>7

LEMMA SamePlaces ==
  ASSUME NEW img, NEW mid, NEW d, mid.records = img.records, mid.inode[d].direct = img.inode[d].direct
  PROVE  /\ Places(mid, d) = Places(img, d) /\ \A e : RecordAt(mid, d, e) = RecordAt(img, d, e)
         /\ LiveEntries(mid, d) = LiveEntries(img, d)
         /\ \A e : Before(mid, d, e) = Before(img, d, e)
  BY DEF Places, RecordAt, LiveEntries, Before

(* The record goes from its block, by one write to it.                     *)
Cleared(r) == [r EXCEPT ![0] = [r[0] EXCEPT !.inode = 0]]

Merged(r, o, w) == [r EXCEPT ![o] = [r[o] EXCEPT !.rec_len = @ + r[w].rec_len]]

LEMMA DropsOK ==
  ASSUME NEW r, DirBlock(r), NEW w \in Live(r), NEW o, w # 0 => o \in Walk(r) /\ o + r[o].rec_len = w,
         NEW new, new = IF w = 0 THEN Cleared(r) ELSE Merged(r, o, w)
  PROVE  Drops(r, new, w) /\ BlockOK(new) /\ (w # 0 => Walk(new) = Walk(r) \ {w})
  <1>1. CASE w = 0
    BY <1>1, ClearDrops DEF Cleared, Drops, DirBlock
  <1>2. CASE w # 0
    <2>1. Drops(r, new, w) /\ Walk(new) = Walk(r) \ {w}
      BY <1>2, MergeDrops DEF Merged, Live
    <2> QED
      BY <2>1 DEF Drops, DirBlock
  <1> QED
    BY <1>1, <1>2

LEMMA BeforeIs ==
  ASSUME NEW img, Typed(img), DirsOK(img), NEW d \in UsedDirectories(img), NEW e \in LiveEntries(img, d),
         e[2] # 0, NEW o, o = Before(img, d, e), NEW r, r = Content(img, <<d, e[1]>>)
  PROVE  o[1] = e[1] /\ o[2] \in Walk(r) /\ o[2] + r[o[2]].rec_len = e[2] /\ RecordAt(img, d, o) = r[o[2]]
  <1> DEFINE s == <<d, e[1]>>
  <1>1. s \in Slots(img) /\ e[2] \in Walk(r) /\ DirBlock(r)
    BY EntryIs DEF DirsOK, Live
  <1>2. \A w \in Walk(r) : <<e[1], w>> \in Places(img, d) /\ RecordAt(img, d, <<e[1], w>>) = r[w]
    <2>1. \A w \in Walk(r) : /\ <<e[1], w>> \in Places(img, d)
                             /\ RecordAt(img, d, <<e[1], w>>) = WordAt(r, w)
      BY <1>1, PlacesAre
    <2>2. \A w \in Walk(r) : WordAt(r, w) = r[w]
      BY <1>1, DirBlockWords DEF WordAt
    <2> QED
      BY <2>1, <2>2
  <1>3. PICK w \in Walk(r) : w + r[w].rec_len = e[2]
    BY <1>1, OneBefore
  <1>4. <<e[1], w>>[1] = e[1] /\ <<e[1], w>>[2] + RecordAt(img, d, <<e[1], w>>).rec_len = e[2]
    BY <1>2, <1>3
  <1>5. o \in Places(img, d) /\ o[1] = e[1] /\ o[2] + RecordAt(img, d, o).rec_len = e[2]
    BY <1>2, <1>4 DEF Before
  <1>6. o = <<o[1], o[2]>> /\ o[2] \in Walk(r)
    BY <1>5, PlacesAre
  <1> QED
    BY <1>2, <1>5, <1>6

Rewritten(r, w, record) == [r EXCEPT ![w] = record]

LEMMA WordRewritten ==
  ASSUME NEW img, Typed(img), NEW d \in Inode, NEW e, NEW record,
         NEW b \in Block, b = img.inode[d].direct[e[1]],
         NEW r, r = Rewritten(img.records[b], e[2], record), BlockOK(r),
         NEW new, new = Change(img, d, e, record)
  PROVE  BlockPut(img, new, b, r)
  BY RecordChanged, Zenon DEF Rewritten

LEMMA RecordHidden ==
  ASSUME NEW img, Typed(img), DirsOK(img), NEW d \in UsedDirectories(img), NEW e \in LiveEntries(img, d),
         NEW mid, Typed(mid), mid.records = img.records, mid.inode[d].direct = img.inode[d].direct,
         NEW new, new = Hide(mid, d, e), NEW s, s = <<d, e[1]>>
  PROVE  \E r : /\ Drops(Content(img, s), r, e[2]) /\ BlockPut(mid, new, SlotBlock(img, s), r)
                /\ e[2] # 0 => r = Merged(Content(img, s), Before(img, d, e)[2], e[2])
  <1> DEFINE r == Content(img, s)
             w == e[2]
             o == Before(img, d, e)
             b == SlotBlock(img, s)
  <1>1. s \in Slots(img) /\ w \in Live(r) /\ RecordAt(img, d, e) = r[w] /\ DirBlock(r) /\ d \in Inode
    <2>1. s \in Slots(img) /\ w \in Live(r) /\ RecordAt(img, d, e) = r[w]
      BY EntryIs, Zenon
    <2> QED
      BY <2>1, TypedIs DEF DirsOK
  <1>2. w # 0 => o[1] = e[1] /\ o[2] \in Walk(r) /\ o[2] + r[o[2]].rec_len = w /\ RecordAt(img, d, o) = r[o[2]]
    BY BeforeIs
  <1>3. b \in Block /\ b = mid.inode[d].direct[e[1]] /\ r = mid.records[b]
    BY <1>1, SlotIs, Zenon DEF SlotBlock, Content
  <1>4. /\ RecordAt(mid, d, e) = r[w]
        /\ w # 0 => Before(mid, d, e) = o /\ RecordAt(mid, d, o) = r[o[2]]
    BY <1>1, <1>2, SamePlaces
  <1> HIDE DEF r, o, b
  <1>5. CASE w = 0
    <2> DEFINE record == [r[w] EXCEPT !.inode = 0]
    <2>1. new = Change(mid, d, e, record)
      BY <1>4, <1>5 DEF Hide
    <2>2. Drops(r, Cleared(r), w) /\ BlockOK(Cleared(r))
      BY <1>1, <1>5, DropsOK
    <2>3. Cleared(r) = Rewritten(mid.records[b], e[2], record)
      BY <1>3, <1>5 DEF Cleared, Rewritten
    <2> HIDE DEF record
    <2>4. BlockPut(mid, new, b, Cleared(r))
      BY <1>1, <1>3, <2>1, <2>2, <2>3, WordRewritten, Zenon
    <2> QED
      BY <1>5, <2>2, <2>4 DEF r, b
  <1>6. CASE w # 0
    <2> DEFINE record == [r[o[2]] EXCEPT !.rec_len = @ + r[w].rec_len]
    <2>1. new = Change(mid, d, o, record)
      BY <1>4, <1>6 DEF Hide
    <2>2. Drops(r, Merged(r, o[2], w), w) /\ BlockOK(Merged(r, o[2], w))
      BY <1>1, <1>2, <1>6, DropsOK
    <2>3. Merged(r, o[2], w) = Rewritten(mid.records[b], o[2], record)
      BY <1>3 DEF Merged, Rewritten
    <2>4. b = mid.inode[d].direct[o[1]]
      BY <1>2, <1>3, <1>6
    <2> HIDE DEF record
    <2>5. BlockPut(mid, new, b, Merged(r, o[2], w))
      BY <1>1, <1>3, <2>1, <2>2, <2>3, <2>4, WordRewritten, Zenon
    <2> QED
      BY <2>2, <2>5 DEF r, b, o
  <1> QED
    BY <1>5, <1>6

LEMMA FoundIs ==
  ASSUME NEW img, Typed(img), NEW d \in UsedDirectories(img), NEW n, find_entry(img, d, n) # {}
  PROVE  /\ First(find_entry(img, d, n)) \in LiveEntries(img, d)
         /\ RecordAt(img, d, First(find_entry(img, d, n))).name = n
  <1> DEFINE S == find_entry(img, d, n)
  <1>1. S \subseteq Nat \X Nat
    BY PlacesAre DEF find_entry, LiveEntries
  <1> HIDE DEF S
  <1>2. First(S) \in S
    BY <1>1, FirstIs DEF S
  <1> QED
    BY <1>2 DEF S, find_entry

LEMMA LiveNames ==
  ASSUME NEW img, NamesOK(img), NEW x \in LiveRecords(img), NEW p, p = Entry(img, x)
  PROVE  p.inode \in img.inode_bitmap /\ (p.type = "dir" <=> IsDir(img, p.inode))
  BY DEF NamesOK, Entry

LEMMA RmWhole ==
  ASSUME NEW img, WholeImage(img), NEW d \in UsedDirectories(img), NEW n \in Given,
         NEW out, out = delete_file_entry(img, d, n)
  PROVE  ToolDoes(img, out)
  <1> DEFINE e == First(find_entry(img, d, n))
             record == RecordAt(img, d, e)
             i == record.inode
             mid == unlink_inode(img, i)
             s == <<d, e[1]>>
  <1>1. Typed(img) /\ Sane(img) /\ DirsOK(img) /\ NamesOK(img)
    BY DEF WholeImage, Sane
  <1>2. CASE out.image = img /\ out.exit \in {"ENOENT", "EISDIR", "1"}
    BY <1>2, NothingDone
  <1>3. CASE /\ find_entry(img, d, n) # {} /\ record.type # "dir" /\ img.inode[i].links # 0
             /\ out = [image |-> Hide(mid, d, e), exit |-> "0"]
    <2> DEFINE new == Hide(mid, d, e)
    <2>1. e \in LiveEntries(img, d) /\ record.name = n
      BY <1>1, <1>3, FoundIs
    <2> HIDE DEF e
    <2>2. /\ s \in Slots(img) /\ e[2] \in Live(Content(img, s)) /\ record = Content(img, s)[e[2]]
          /\ <<d, e>> \in LiveRecords(img)
      BY <1>1, <2>1, EntryIs
    <2>3. i \in img.inode_bitmap /\ i \in Inode /\ img.inode[i].links > 0 /\ ~IsDir(img, i)
      <3>1. i \in img.inode_bitmap /\ ~IsDir(img, i)
        BY <1>1, <1>3, <2>2, LiveNames DEF Entry
      <3> QED
        BY <1>1, <1>3, <3>1, TypedIs, InodeIs
    <2> HIDE DEF i, record
    <2>4. Unlinked(img, mid, i)
      BY <1>1, <2>3, InodeLeft
    <2> HIDE DEF mid, s
    <2>5. Typed(mid) /\ mid.records = img.records /\ mid.inode[d].direct = img.inode[d].direct
      BY <1>1, <2>4, TypedIs DEF Unlinked, Same
    <2>6. PICK r : Drops(Content(img, s), r, e[2]) /\ BlockPut(mid, new, SlotBlock(img, s), r)
      BY <1>1, <2>1, <2>5, RecordHidden DEF s
    <2> HIDE DEF new
    <2>8. /\ Typed(new) /\ Sane(new) /\ UsedDirectories(new) = UsedDirectories(img)
          /\ new.gd.used_dirs = img.gd.used_dirs
          /\ NameTaken(img, new, s[1], Content(img, s)[e[2]].name, i)
      <3>1. i = Content(img, s)[e[2]].inode
        BY <2>2 DEF i
      <3> QED
        BY <1>1, <1>3, <2>2, <2>3, <2>4, <2>6, <3>1, OldName
    <2>9. WholeImage(new)
      BY <2>8 DEF WholeImage, DirsCounted
    <2>10. RemovesOne(img, new, d, n, i)
      <3>1. s[1] = d /\ Content(img, s)[e[2]].name = n
        BY <2>1, <2>2 DEF s
      <3> QED
        BY <2>3, <2>8, <3>1 DEF RemovesOne, UsedDirectories
    <2> QED
      BY <1>3, <2>9, <2>10 DEF ToolDoes, ToolOK, Changes, WholeImage, new
  <1> QED
    BY <1>2, <1>3 DEF delete_file_entry, Ends
-----------------------------------------------------------------------------
(* restore.  A file that was removed gets back its inode and its blocks.   *)
Undeleted(img, i) == [img EXCEPT !.inode[i].links = 1, !.inode[i].dtime = FALSE]

Reclaimed(img, new, i) ==
  /\ Typed(new) /\ Same(img, new, {"records", "pointers", "text"})
  /\ \A j \in Inode \ {i} : new.inode[j] = img.inode[j]
  /\ new.inode[i].mode = img.inode[i].mode /\ new.inode[i].links = 1 /\ ~new.inode[i].dtime
  /\ new.inode[i].direct = img.inode[i].direct /\ new.inode[i].indirect = img.inode[i].indirect
  /\ new.inode_bitmap = img.inode_bitmap \cup {i}
  /\ new.block_bitmap = img.block_bitmap \cup DataBlocks(img, i)
  /\ Counts(img, new, -1, -Cardinality(DataBlocks(img, i)))

LEMMA UndeletedFile ==
  ASSUME NEW f \in InodeRecord
  PROVE  [[f EXCEPT !.links = 1] EXCEPT !.dtime = FALSE] = FileWith(f, 1, FALSE)
  <1> DEFINE g == [f EXCEPT !.links = 1]
  <1>1. g.links = 1 /\ g.mode = f.mode /\ g.direct = f.direct /\ g.indirect = f.indirect
    BY DEF InodeRecord
  <1>2. g \in InodeRecord
    BY DEF InodeRecord
  <1> HIDE DEF g
  <1>3. [g EXCEPT !.dtime = FALSE] = FileWith(g, g.links, FALSE)
    BY <1>2, DtimePut, Zenon
  <1>4. FileWith(g, g.links, FALSE) = FileWith(f, 1, FALSE)
    BY <1>1 DEF FileWith
  <1> QED
    BY <1>3, <1>4, Zenon DEF g

LEMMA InodeUndeleted ==
  ASSUME NEW img, Typed(img), NEW i \in Inode, NEW new, new = Undeleted(img, i)
  PROVE  LinksPut(img, new, i, 1, FALSE)
  <1> DEFINE f == FileWith(img.inode[i], 1, FALSE)
  <1>1. img.inode \in [Inode -> InodeRecord] /\ img.inode[i] \in InodeRecord /\ img \in Image
    BY TypedIs DEF Typed
  <1>2. [[img.inode[i] EXCEPT !.links = 1] EXCEPT !.dtime = FALSE] = f
    BY <1>1, UndeletedFile, Zenon
  <1>3. new = [img EXCEPT !.inode = [img.inode EXCEPT ![i] =
                 [[img.inode[i] EXCEPT !.links = 1] EXCEPT !.dtime = FALSE]]]
    BY <1>1 DEF Image, Undeleted
  <1>4. new = PutFile(img, i, f)
    BY <1>2, <1>3 DEF PutInode, PutFile
  <1> HIDE DEF f
  <1> QED
    BY <1>4, InodePut DEF f

LEMMA FileReclaimed ==
  ASSUME NEW img, Typed(img), NEW i \in Inode, NEW new, new = reclaim_inode_and_data_blocks(img, i)
  PROVE  Reclaimed(img, new, i)
  <1> DEFINE one == set_inode_in_use(img, i)
             two == Undeleted(one, i)
             bs == DataBlocks(img, i)
  <1>1. new = set_blocks_in_use(two, bs)
    BY DEF reclaim_inode_and_data_blocks, Undeleted
  <1>2. img \in Image /\ img.sb \in [free_inodes : Int, free_blocks : Int]
        /\ img.gd \in [free_inodes : Int, free_blocks : Int, used_dirs : Int]
    BY TypedIs DEF Typed
  <1>3. /\ Same(img, one, Field \ {"sb", "gd", "inode_bitmap"}) /\ Counts(img, one, -1, 0)
        /\ one.inode_bitmap = img.inode_bitmap \cup {i}
    BY <1>2, InodeSet
  <1> HIDE DEF one
  <1>4. /\ one \in Image /\ one.records = img.records /\ one.pointers = img.pointers
        /\ one.inode = img.inode /\ one.text = img.text /\ one.block_bitmap = img.block_bitmap
    BY <1>3 DEF Same, Field
  <1>5. Typed(one)
    BY <1>4 DEF Typed
  <1>6. LinksPut(one, two, i, 1, FALSE)
    BY <1>5, InodeUndeleted
  <1> HIDE DEF two
  <1>7. bs \in SUBSET Block /\ Cardinality(bs) \in Nat
    BY BlocksTyped
  <1> HIDE DEF bs
  <1>8. two \in Image /\ Typed(two)
    BY <1>6 DEF LinksPut, Same
  <1>9. /\ Same(two, new, Field \ {"sb", "gd", "block_bitmap"}) /\ Counts(two, new, 0, -Cardinality(bs))
        /\ new.block_bitmap = two.block_bitmap \cup bs
    BY <1>1, <1>7, <1>8, BlocksSet
  <1>10. /\ two.inode_bitmap = img.inode_bitmap \cup {i} /\ two.block_bitmap = img.block_bitmap
         /\ two.records = img.records /\ two.pointers = img.pointers /\ two.text = img.text
         /\ two.sb = one.sb /\ two.gd = one.gd
         /\ \A j \in Inode \ {i} : two.inode[j] = img.inode[j]
         /\ two.inode[i].mode = img.inode[i].mode /\ two.inode[i].links = 1 /\ ~two.inode[i].dtime
         /\ two.inode[i].direct = img.inode[i].direct /\ two.inode[i].indirect = img.inode[i].indirect
    BY <1>3, <1>4, <1>6 DEF LinksPut, Same, Field
  <1>11. /\ new \in Image /\ new.records = img.records /\ new.pointers = img.pointers /\ new.text = img.text
         /\ new.inode = two.inode /\ new.records = two.records /\ new.pointers = two.pointers
         /\ new.inode_bitmap = img.inode_bitmap \cup {i}
         /\ new.block_bitmap = img.block_bitmap \cup bs
    BY <1>9, <1>10 DEF Same, Field
  <1>12. Typed(new)
    BY <1>8, <1>11 DEF Typed
  <1>13. Counts(img, new, -1, -Cardinality(bs))
    BY <1>2, <1>3, <1>7, <1>9, <1>10 DEF Counts
  <1> QED
    BY <1>10, <1>11, <1>12, <1>13 DEF Reclaimed, Same, bs

LEMMA ReclaimedIs ==
  ASSUME NEW img, Typed(img), Accounted(img), NEW i \in Inode \ img.inode_bitmap,
         DataBlocks(img, i) \cap img.block_bitmap = {}, NEW new, Reclaimed(img, new, i)
  PROVE  /\ Accounted(new) /\ UsedDirectories(new) = UsedDirectories(img) /\ Slots(new) = Slots(img)
         /\ \A s \in Slots(img) : SlotBlock(new, s) = SlotBlock(img, s)
         /\ \A j \in Inode : /\ new.inode[j].mode = img.inode[j].mode
                             /\ new.inode[j].indirect = img.inode[j].indirect
                             /\ new.inode[j].links = IF j = i THEN 1 ELSE img.inode[j].links
                             /\ new.inode[j].dtime => j # i /\ img.inode[j].dtime
                             /\ j # i => new.inode[j].dtime = img.inode[j].dtime
         /\ ~IsDir(new, i) /\ new.gd.used_dirs = img.gd.used_dirs
  <1> DEFINE bs == DataBlocks(img, i)
  <1>1. img.inode_bitmap \subseteq Inode /\ img.block_bitmap \subseteq Block /\ bs \subseteq Block
    BY TypedIs, BlocksTyped
  <1>2. \A j \in Inode : /\ new.inode[j].mode = img.inode[j].mode
                         /\ new.inode[j].direct = img.inode[j].direct
                         /\ new.inode[j].indirect = img.inode[j].indirect
                         /\ new.inode[j].links = IF j = i THEN 1 ELSE img.inode[j].links
                         /\ new.inode[j].dtime => j # i /\ img.inode[j].dtime
                         /\ j # i => new.inode[j].dtime = img.inode[j].dtime
    BY DEF Reclaimed
  <1>3. /\ new.records = img.records /\ new.pointers = img.pointers
        /\ new.inode_bitmap = img.inode_bitmap \cup {i} /\ new.block_bitmap = img.block_bitmap \cup bs
        /\ Counts(img, new, -1, -Cardinality(bs))
    BY DEF Reclaimed, Same
  <1>4. ~IsDir(img, i) /\ \A j \in Inode : IsDir(new, j) <=> IsDir(img, j)
    BY <1>2 DEF Accounted, FreeOK, IsDir
  <1>5. UsedDirectories(new) = UsedDirectories(img) /\ UsedDirectories(img) \subseteq Inode
    BY <1>1, <1>3, <1>4, TypedIs DEF UsedDirectories
  <1>6. Slots(new) = Slots(img) /\ \A s \in Slots(img) : SlotBlock(new, s) = SlotBlock(img, s)
    <2>1. \A d \in UsedDirectories(img) : new.inode[d].direct = img.inode[d].direct
      BY <1>2, <1>5
    <2>2. Slots(new) = Slots(img)
      BY <1>5, <2>1 DEF Slots
    <2>3. \A s \in Slots(img) : s[1] \in UsedDirectories(img)
      BY SlotIs
    <2> QED
      BY <2>1, <2>2, <2>3 DEF SlotBlock
  <1>7. \A j \in Inode : DataBlocks(new, j) = DataBlocks(img, j)
    BY <1>2, <1>3 DEF DataBlocks
  <1>8. FreeOK(new)
    BY <1>3, <1>4 DEF Accounted, FreeOK
  <1> HIDE DEF bs
  <1>9. BlocksOK(new)
    <2>1. /\ BlocksOK(img) /\ bs \cap img.block_bitmap = {}
          /\ \A j \in img.inode_bitmap : DataBlocks(new, j) = DataBlocks(img, j)
          /\ DataBlocks(new, i) = bs \cup (IF i \in img.inode_bitmap THEN DataBlocks(img, i) ELSE {})
      BY <1>1, <1>7 DEF Accounted, bs
    <2> QED
      BY <1>3, <2>1, BlocksGrow
  <1>10. CountersOf(new)
    <2>1. Cardinality(FreeInodes(new)) = Cardinality(FreeInodes(img)) + -1
      BY <1>3, InodeTaken
    <2>2. bs \in SUBSET (Block \ img.block_bitmap)
      BY <1>1 DEF bs
    <2>3. Cardinality(FreeBlocks(new)) = Cardinality(FreeBlocks(img)) + -Cardinality(bs)
      BY <1>3, <2>2, BlocksTaken
    <2> QED
      BY <1>3, <2>1, <2>3, CountersFollow DEF Accounted
  <1>11. new.gd.used_dirs = img.gd.used_dirs
    BY <1>3 DEF Counts
  <1> QED
    BY <1>2, <1>4, <1>5, <1>6, <1>8, <1>9, <1>10, <1>11 DEF Accounted

(* The search of a gap stays behind what its record needs, and within it.  *)
GapStep(r, end) ==
  [w \in 0 .. Words |-> IF (w < end /\ w \in DOMAIN r) /\ r[w] # Rest
                        THEN w + actual_len(r[w].name) ELSE w]

GapWords(r, o) ==
  {w \in Visits(GapStep(r, o + r[o].rec_len), o + actual_len(r[o].name)) :
     w < o + r[o].rec_len /\ w \in DOMAIN r}

LEMMA GapIs ==
  ASSUME NEW img, NEW d, NEW o
  PROVE  Gap(img, d, o) = {o[1]} \X GapWords(Content(img, <<d, o[1]>>), o[2])
  BY DEF Gap, GapWords, GapStep, Content

LEMMA GapStepOnward ==
  ASSUME NEW r, BlockOK(r), NEW end
  PROVE  Onward(GapStep(r, end))
  <1>1. ASSUME NEW w \in 0 .. Words
        PROVE  GapStep(r, end)[w] \in 0 .. Words /\ GapStep(r, end)[w] >= w
    <2>1. CASE (w < end /\ w \in DOMAIN r) /\ r[w] # Rest
      <3>1. Header(r, w)
        BY <2>1 DEF BlockOK, Header
      <3>2. Behind(r, w) \in w + 3 .. Words
        BY <3>1, HeaderInside
      <3>3. GapStep(r, end)[w] = Behind(r, w)
        BY <2>1 DEF GapStep, Behind
      <3> QED
        BY <3>2, <3>3, WordsNat
    <2>2. CASE ~((w < end /\ w \in DOMAIN r) /\ r[w] # Rest)
      <3>1. GapStep(r, end)[w] = w
        BY <2>2 DEF GapStep
      <3> QED
        BY <3>1, WordsNat
    <2> QED
      BY <2>1, <2>2
  <1>2. DOMAIN GapStep(r, end) = 0 .. Words
    BY DEF GapStep
  <1>3. GapStep(r, end) = [w \in 0 .. Words |-> GapStep(r, end)[w]]
    BY DEF GapStep
  <1> QED
    BY <1>1, <1>2, <1>3 DEF Onward

LEMMA GapBehind ==
  ASSUME NEW r, DirBlock(r), NEW o \in Walk(r), NEW w \in GapWords(r, o)
  PROVE  w \in DOMAIN r /\ Behind(r, o) <= w /\ w < o + r[o].rec_len
  <1> DEFINE next == GapStep(r, o + r[o].rec_len)
             C == {v \in 0 .. Words : Behind(r, o) <= v}
  <1>1. BlockOK(r) /\ Header(r, o)
    BY DirBlockWords DEF DirBlock, Chain
  <1>2. Behind(r, o) \in 0 .. Words
    <2>1. Behind(r, o) \in o + 3 .. Words /\ o \in 0 .. Words - 1
      BY <1>1, HeaderInside, DirBlockWords
    <2> QED
      BY <2>1, WordsNat
  <1>3. Onward(next)
    BY <1>1, GapStepOnward
  <1>4. \A v \in C : next[v] \in C
    BY <1>2, <1>3, WordsNat DEF Onward
  <1>5. Behind(r, o) \in C /\ C \in SUBSET (0 .. Words)
    BY <1>2, WordsNat
  <1> HIDE DEF next, C
  <1>6. Visits(next, Behind(r, o)) \subseteq C
    BY <1>3, <1>4, <1>5, VisitsWithin
  <1>7. w \in Visits(next, Behind(r, o)) /\ w < o + r[o].rec_len /\ w \in DOMAIN r
    BY DEF GapWords, Behind, next
  <1> QED
    BY <1>6, <1>7 DEF C

(* The record found becomes reachable by two writes to its block.          *)
Far(r, o, w) == Rewritten(r, w, [r[w] EXCEPT !.rec_len = r[o].rec_len - (w - o)])

Revealed(r, o, w) == Rewritten(Far(r, o, w), o, [r[o] EXCEPT !.rec_len = w - o])

LEMMA RevealedAdds ==
  ASSUME NEW r, DirBlock(r), NEW o \in Walk(r), NEW w \in GapWords(r, o), r[w] # Rest, r[w].inode # 0
  PROVE  /\ BlockOK(Far(r, o, w)) /\ BlockOK(Revealed(r, o, w))
         /\ Adds(r, Revealed(r, o, w), w, r[w])
  <1>1. w \in DOMAIN r /\ Behind(r, o) <= w /\ w < o + r[o].rec_len
    BY GapBehind
  <1>2. BlockOK(r) /\ Header(r, w)
    BY <1>1 DEF DirBlock, BlockOK, Header
  <1>3. Adds(r, Revealed(r, o, w), w, r[w])
    BY <1>1, <1>2, RevealAdds DEF Revealed, Far, Rewritten
  <1>4. /\ r[o].rec_len \in 3 .. Words /\ o + r[o].rec_len <= Words /\ o \in 0 .. Words - 1
        /\ w \in 0 .. Words - 1 /\ r[w] \in Record /\ o < w
    <2>1. Header(r, o) /\ r[o].rec_len \in 3 .. Words /\ o + r[o].rec_len <= Words /\ o \in 0 .. Words - 1
      BY DirBlockWords DEF DirBlock, Chain
    <2>2. Behind(r, o) \in o + 3 .. Words
      BY <1>2, <2>1, HeaderInside
    <2>3. w \in 0 .. Words - 1 /\ r[w] \in Record
      BY <1>1, <1>2, BlockDomain DEF BlockOK
    <2> QED
      BY <1>1, <2>1, <2>2, <2>3, WordsNat
  <1> DEFINE gone == [r[w] EXCEPT !.rec_len = r[o].rec_len - (w - o)]
  <1>5. gone \in Record /\ gone.name = r[w].name /\ w + gone.rec_len <= Words
    <2>1. r[o].rec_len - (w - o) \in 0 .. Words /\ w + (r[o].rec_len - (w - o)) <= Words
      BY <1>1, <1>4, WordsNat
    <2> QED
      BY <1>4, <2>1, Zenon DEF Record
  <1>6. Far(r, o, w) = [r EXCEPT ![w] = gone]
    BY DEF Far, Rewritten
  <1> HIDE DEF gone
  <1>7. BlockOK(Far(r, o, w))
    <2>1. BlockOK([r EXCEPT ![w] = gone])
      BY <1>2, <1>5, RecastOK
    <2> QED
      BY <1>6, <2>1
  <1> QED
    BY <1>3, <1>7 DEF Adds, DirBlock

(* The search of its gap comes to a header, but for a rest before it.      *)
LEMMA GapReaches ==
  ASSUME NEW r, DirBlock(r), NEW v \in Gone(r)
  PROVE  \E o \in Walk(r) : \E w \in GapWords(r, o) : w <= v /\ (w = v \/ r[w] = Rest)
  <1>1. PICK o \in Walk(r) : o < v /\ Behind(r, o) <= v /\ Behind(r, v) <= o + r[o].rec_len
    BY GapHolds
  <1> DEFINE end == o + r[o].rec_len
             next == GapStep(r, end)
             V == {w \in Visits(next, Behind(r, o)) : w <= v}
  <1>2. BlockOK(r) /\ Header(r, v) /\ Header(r, o)
    BY DEF DirBlock, Chain, Gone, Header
  <1>3. /\ o \in 0 .. Words - 1 /\ v \in 0 .. Words - 1 /\ Behind(r, o) \in 0 .. Words
        /\ Behind(r, v) \in v + 3 .. Words /\ end \in Int
    <2>1. o \in 0 .. Words - 1 /\ v \in 0 .. Words - 1 /\ r[o].rec_len \in 3 .. Words
      BY <1>2, DirBlockWords, BlockDomain DEF BlockOK, Header
    <2>2. Behind(r, o) \in o + 3 .. Words /\ Behind(r, v) \in v + 3 .. Words
      BY <1>2, HeaderInside
    <2> QED
      BY <2>1, <2>2, WordsNat
  <1>4. v < end
    BY <1>1, <1>3, WordsNat
  <1>5. \A w \in 0 .. v : w \in DOMAIN r
    BY <1>2, BlockDomain DEF BlockOK, Header
  <1>6. Onward(next)
    BY <1>2, GapStepOnward
  <1>7. /\ Behind(r, o) \in Visits(next, Behind(r, o)) /\ Visits(next, Behind(r, o)) \subseteq 0 .. Words
        /\ \A w \in Visits(next, Behind(r, o)) : next[w] \in Visits(next, Behind(r, o))
    <2> HIDE DEF next
    <2> QED
      BY <1>3, <1>6, VisitsClosed
  <1>8. V # {} /\ V \subseteq 0 .. Words
    BY <1>1, <1>7
  <1>9. PICK w \in V : \A u \in V : u <= w
    <2> HIDE DEF V
    <2> QED
      BY <1>8, Largest
  <1>10. w \in 0 .. v /\ w \in DOMAIN r /\ w < end /\ w \in 0 .. Words
    BY <1>3, <1>4, <1>5, <1>7, WordsNat
  <1>11. w = v \/ r[w] = Rest
    <2> SUFFICES ASSUME w # v, r[w] # Rest PROVE FALSE
      OBVIOUS
    <2>1. Header(r, w) /\ w < v
      BY <1>2, <1>3, <1>10 DEF BlockOK, Header
    <2>2. Behind(r, w) <= v
      BY <1>2, <2>1, HeaderBefore
    <2>3. next[w] = Behind(r, w)
      BY <1>10 DEF GapStep, Behind
    <2>4. Behind(r, w) \in V
      BY <1>7, <2>2, <2>3
    <2>5. Behind(r, w) \in w + 3 .. Words
      BY <1>2, <2>1, HeaderInside
    <2>6. Behind(r, w) <= w
      BY <1>9, <2>4
    <2> QED
      BY <1>10, <2>5, <2>6
  <1>12. w \in GapWords(r, o)
    BY <1>10 DEF GapWords, Behind
  <1>13. w <= v
    BY <1>10, <1>3, WordsNat
  <1> HIDE DEF V, next, end
  <1> QED
    BY <1>11, <1>12, <1>13

(* The search never comes to a record that is used.                        *)
LEMMA GapIsGone ==
  ASSUME NEW r, DirBlock(r), NEW o \in Walk(r), NEW w \in GapWords(r, o)
  PROVE  w \in DOMAIN r /\ w \notin Walk(r) /\ o < w /\ w < o + r[o].rec_len
  <1>1. w \in DOMAIN r /\ Behind(r, o) <= w /\ w < o + r[o].rec_len
    BY GapBehind
  <1>2. Behind(r, o) \in o + 3 .. Words /\ o \in 0 .. Words - 1
    BY HeaderInside, DirBlockWords DEF DirBlock, Chain
  <1>3. w \in 0 .. Words - 1
    BY <1>1, BlockDomain DEF DirBlock, BlockOK
  <1>4. o < w
    BY <1>1, <1>2, <1>3, WordsNat
  <1>5. w \notin Walk(r)
    <2>1. w \in Walk(r) => o + r[o].rec_len <= w
      BY <1>4 DEF DirBlock, Chain
    <2>2. o + r[o].rec_len \in Int
      BY <1>2, DirBlockWords, WordsNat
    <2> QED
      BY <1>1, <1>3, <2>1, <2>2
  <1> QED
    BY <1>1, <1>4, <1>5

LEMMA DeletedIs ==
  ASSUME NEW img, Typed(img), DirsOK(img), NEW d \in UsedDirectories(img), NEW n,
         NEW e \in Deleted(img, d, n), NEW s, s = <<d, e[1]>>
  PROVE  /\ \E o \in Places(img, d) : e \in Gap(img, d, o)
         /\ e \in Nat \X Nat /\ s \in Slots(img) /\ RecordAt(img, d, e) = Content(img, s)[e[2]]
         /\ RecordAt(img, d, e) # Rest => /\ RecordAt(img, d, e).inode # 0
                                          /\ RecordAt(img, d, e).name = n
                                          /\ RecordAt(img, d, e) \in Record
  <1>1. PICK o \in Places(img, d) : e \in Gap(img, d, o)
    BY DEF Deleted
  <1>2. <<d, o[1]>> \in Slots(img) /\ o[2] \in Walk(Content(img, <<d, o[1]>>))
    BY PlacesAre
  <1>3. e \in {o[1]} \X GapWords(Content(img, <<d, o[1]>>), o[2])
    BY <1>1, GapIs
  <1>4. s = <<d, o[1]>> /\ e = <<e[1], e[2]>> /\ e[1] \in Nat /\ e[2] \in GapWords(Content(img, s), o[2])
    BY <1>2, <1>3, SlotIs
  <1>5. DirBlock(Content(img, s)) /\ BlockOK(Content(img, s))
    BY <1>2, <1>4 DEF DirsOK, DirBlock
  <1>6. e[2] \in DOMAIN Content(img, s)
    BY <1>2, <1>4, <1>5, GapBehind
  <1>7. e[2] \in Nat /\ Content(img, s)[e[2]] \in Record
    BY <1>5, <1>6, BlockDomain, WordsNat DEF BlockOK
  <1>8. RecordAt(img, d, e) = WordAt(Content(img, s), e[2])
    BY <1>4, PlacesAre
  <1>9. RecordAt(img, d, e) = Content(img, s)[e[2]]
    BY <1>6, <1>8 DEF WordAt
  <1>10. RecordAt(img, d, e) # Rest => RecordAt(img, d, e).inode # 0 /\ RecordAt(img, d, e).name = n
    BY DEF Deleted
  <1> QED
    BY <1>1, <1>2, <1>4, <1>7, <1>9, <1>10

(* The first place where the search stops lies before every removed record *)
(* of that name.                                                           *)
LEMMA DeletedBefore ==
  ASSUME NEW img, Typed(img), DirsOK(img), NEW d \in UsedDirectories(img), NEW n,
         NEW s \in Slots(img), s[1] = d, NEW v \in Gone(Content(img, s)), Content(img, s)[v].name = n
  PROVE  \E e \in Deleted(img, d, n) : Sooner(e, <<s[2], v>>)
  <1> DEFINE r == Content(img, s)
  <1>1. DirBlock(r) /\ s = <<d, s[2]>>
    BY SlotIs DEF DirsOK
  <1>2. PICK o \in Walk(r) : \E w \in GapWords(r, o) : w <= v /\ (w = v \/ r[w] = Rest)
    BY <1>1, GapReaches
  <1>3. PICK w \in GapWords(r, o) : w <= v /\ (w = v \/ r[w] = Rest)
    BY <1>2
  <1>4. <<s[2], o>> \in Places(img, d) /\ <<s[2], w>> \in Gap(img, d, <<s[2], o>>)
    BY <1>1, GapIs, PlacesAre
  <1>5. RecordAt(img, d, <<s[2], w>>) = r[w]
    <2>1. RecordAt(img, d, <<s[2], w>>) = WordAt(r, w)
      BY <1>1, PlacesAre
    <2>2. w \in DOMAIN r
      BY <1>1, GapIsGone
    <2> QED
      BY <2>1, <2>2 DEF WordAt
  <1>6. r[w] = Rest \/ (r[w].inode # 0 /\ r[w].name = n)
    BY <1>3 DEF Gone
  <1> HIDE DEF r
  <1>7. <<s[2], w>> \in Deleted(img, d, n)
    BY <1>4, <1>5, <1>6 DEF Deleted
  <1> QED
    BY <1>3, <1>7 DEF Sooner

LEMMA DeletedForemost ==
  ASSUME NEW img, Typed(img), DirsOK(img), NEW d \in UsedDirectories(img), NEW n,
         NEW e \in Nat \X Nat, \A o \in Deleted(img, d, n) : Sooner(e, o)
  PROVE  Foremost(img, <<d, e>>, n)
  <1> SUFFICES ASSUME NEW g \in Ghosts(img), g[1][1] = d, g[2] = n
               PROVE  Sooner(e, g[1][2])
    BY DEF Foremost
  <1>1. PICK s \in Slots(img) :
          g \in {<<Place(s, w), Content(img, s)[w].name>> : w \in Gone(Content(img, s))}
    BY DEF Ghosts
  <1>2. PICK v \in Gone(Content(img, s)) : g = <<Place(s, v), Content(img, s)[v].name>>
    BY <1>1
  <1>3. g[1][1] = s[1] /\ g[1][2] = <<s[2], v>> /\ g[2] = Content(img, s)[v].name
    BY <1>2 DEF Place
  <1>4. PICK o \in Deleted(img, d, n) : Sooner(o, <<s[2], v>>)
    BY <1>3, DeletedBefore
  <1>5. o \in Nat \X Nat /\ Sooner(e, o) /\ s[2] \in Nat /\ v \in Nat
    <2>1. v \in 0 .. Words - 1
      BY BlockDomain DEF DirsOK, DirBlock, BlockOK, Gone
    <2>2. v \in Nat
      BY <2>1, WordsNat
    <2>3. s[2] \in Nat
      BY DEF Slots
    <2>4. o \in Nat \X Nat
      BY DeletedIs
    <2> QED
      BY <1>4, <2>2, <2>3, <2>4
  <1>6. Sooner(e, <<s[2], v>>)
    BY <1>4, <1>5 DEF Sooner
  <1> QED
    BY <1>3, <1>6

LEMMA TwoPuts ==
  ASSUME NEW img, NEW mid, NEW new, NEW b, NEW r, NEW q, BlockPut(img, mid, b, r), BlockPut(mid, new, b, q)
  PROVE  BlockPut(img, new, b, q)
  BY DEF BlockPut, Same, Field

LEMMA RecordUnhidden ==
  ASSUME NEW img, Typed(img), DirsOK(img), NEW d \in UsedDirectories(img), NEW n,
         NEW e \in Deleted(img, d, n), RecordAt(img, d, e) # Rest,
         NEW mid, Typed(mid), mid.records = img.records, mid.inode[d].direct = img.inode[d].direct,
         NEW new, new = unhide_deleted_entry(mid, d, e), NEW s, s = <<d, e[1]>>
  PROVE  \E r : /\ Adds(Content(img, s), r, e[2], RecordAt(img, d, e))
                /\ BlockPut(mid, new, SlotBlock(img, s), r)
                /\ \E o \in Walk(Content(img, s)) : /\ e[2] \in GapWords(Content(img, s), o)
                                                     /\ r = Revealed(Content(img, s), o, e[2])
  <1> DEFINE o == CHOOSE o \in Places(mid, d) : e \in Gap(mid, d, o)
             r == Content(img, s)
             w == e[2]
             b == SlotBlock(img, s)
             prev == RecordAt(mid, d, o)
             two == Change(mid, d, e, [RecordAt(mid, d, e) EXCEPT !.rec_len = prev.rec_len - (e[2] - o[2])])
  <1>1. new = Change(two, d, o, [prev EXCEPT !.rec_len = e[2] - o[2]])
    BY DEF unhide_deleted_entry
  <1>2. o \in Places(img, d) /\ e \in Gap(img, d, o)
    <2>1. \E p \in Places(img, d) : e \in Gap(img, d, p)
      BY DeletedIs
    <2>2. Places(mid, d) = Places(img, d) /\ \A p : Gap(mid, d, p) = Gap(img, d, p)
      BY SamePlaces DEF Gap
    <2> QED
      BY <2>1, <2>2
  <1> HIDE DEF o
  <1>3. /\ s \in Slots(img) /\ RecordAt(img, d, e) = r[w] /\ r[w].inode # 0 /\ r[w] # Rest
        /\ d \in Inode
    BY DeletedIs, TypedIs
  <1>4. DirBlock(r)
    BY <1>3 DEF DirsOK
  <1>5. s = <<d, o[1]>> /\ e[1] = o[1] /\ o[2] \in Walk(r) /\ w \in GapWords(r, o[2]) /\ o = <<o[1], o[2]>>
    <2>1. e \in {o[1]} \X GapWords(Content(img, <<d, o[1]>>), o[2])
      BY <1>2, GapIs
    <2>2. o[2] \in Walk(Content(img, <<d, o[1]>>)) /\ o = <<o[1], o[2]>>
      BY <1>2, PlacesAre
    <2> QED
      BY <2>1, <2>2
  <1>6. RecordAt(mid, d, e) = r[w] /\ prev = r[o[2]]
    <2>1. RecordAt(mid, d, e) = RecordAt(img, d, e) /\ prev = RecordAt(img, d, o)
      BY SamePlaces
    <2>2. RecordAt(img, d, o) = WordAt(r, o[2])
      BY <1>5, PlacesAre
    <2>3. WordAt(r, o[2]) = r[o[2]]
      BY <1>4, <1>5, DirBlockWords DEF WordAt
    <2> QED
      BY <1>3, <2>1, <2>2, <2>3
  <1>7. b \in Block /\ b = mid.inode[d].direct[e[1]] /\ b = mid.inode[d].direct[o[1]] /\ r = mid.records[b]
    BY <1>3, <1>5, SlotIs, ZenonT(30) DEF SlotBlock, Content
  <1> HIDE DEF r, b, prev
  <1>8. /\ BlockOK(Far(r, o[2], w)) /\ BlockOK(Revealed(r, o[2], w))
        /\ Adds(r, Revealed(r, o[2], w), w, r[w])
    BY <1>3, <1>4, <1>5, RevealedAdds
  <1>9. BlockPut(mid, two, b, Far(r, o[2], w))
    <2> DEFINE record == [r[w] EXCEPT !.rec_len = r[o[2]].rec_len - (w - o[2])]
    <2>1. two = Change(mid, d, e, record)
      BY <1>6
    <2>2. Far(r, o[2], w) = Rewritten(mid.records[b], e[2], record)
      BY <1>7 DEF Far
    <2> HIDE DEF record, two, w
    <2> QED
      BY <1>3, <1>7, <1>8, <2>1, <2>2, WordRewritten, Zenon
  <1>10. BlockPut(two, new, b, Revealed(r, o[2], w))
    <2> DEFINE record == [r[o[2]] EXCEPT !.rec_len = w - o[2]]
    <2>1. new = Change(two, d, o, record)
      BY <1>1, <1>6
    <2> HIDE DEF two
    <2>2. Typed(two) /\ two.inode = mid.inode /\ two.records[b] = Far(r, o[2], w)
      BY <1>7, <1>9 DEF BlockPut, Same, Field
    <2>3. Revealed(r, o[2], w) = Rewritten(two.records[b], o[2], record)
      BY <2>2 DEF Revealed
    <2>4. b = two.inode[d].direct[o[1]]
      BY <1>7, <2>2
    <2> HIDE DEF record, w
    <2> QED
      BY <1>3, <1>7, <1>8, <2>1, <2>2, <2>3, <2>4, WordRewritten, Zenon
  <1> HIDE DEF two
  <1>11. BlockPut(mid, new, b, Revealed(r, o[2], w))
    BY <1>9, <1>10, TwoPuts
  <1> QED
    BY <1>3, <1>5, <1>8, <1>11 DEF r, b

(* A directory gains a record, of a file that had none.                    *)
LEMMA NameBack ==
  ASSUME NEW img, Typed(img), Sane(img), NEW s \in Slots(img), NEW w, NEW record,
         record.type # "dir", NEW i \in Inode \ img.inode_bitmap, record.inode = i,
         DataBlocks(img, i) \cap img.block_bitmap = {}, NEW mid, Reclaimed(img, mid, i),
         NEW r, Adds(Content(img, s), r, w, record), Foremost(img, Place(s, w), record.name),
         NEW new, BlockPut(mid, new, SlotBlock(img, s), r)
  PROVE  /\ Typed(new) /\ Sane(new) /\ UsedDirectories(new) = UsedDirectories(img)
         /\ new.gd.used_dirs = img.gd.used_dirs
         /\ NameAdded(img, new, s[1], record.name, i)
  <1>1. /\ Accounted(mid) /\ UsedDirectories(mid) = UsedDirectories(img) /\ Slots(mid) = Slots(img)
        /\ \A u \in Slots(img) : SlotBlock(mid, u) = SlotBlock(img, u)
        /\ \A j \in Inode : /\ mid.inode[j].mode = img.inode[j].mode
                            /\ mid.inode[j].indirect = img.inode[j].indirect
                            /\ mid.inode[j].links = IF j = i THEN 1 ELSE img.inode[j].links
                            /\ mid.inode[j].dtime => j # i /\ img.inode[j].dtime
                            /\ j # i => mid.inode[j].dtime = img.inode[j].dtime
        /\ ~IsDir(mid, i) /\ mid.gd.used_dirs = img.gd.used_dirs
    <2>1. Accounted(img)
      BY DEF Sane
    <2> QED
      BY <2>1, ReclaimedIs
  <1>2. Typed(mid) /\ mid.records = img.records /\ mid.inode_bitmap = img.inode_bitmap \cup {i}
    BY DEF Reclaimed, Same
  <1>3. /\ Typed(new) /\ Same(mid, new, Field \ {"records"})
        /\ \A c \in Block : new.records[c] = IF c = SlotBlock(img, s) THEN r ELSE img.records[c]
    BY <1>2 DEF BlockPut
  <1>4. /\ Accounted(new) /\ UsedDirectories(new) = UsedDirectories(mid) /\ Slots(new) = Slots(mid)
        /\ \A u : SlotBlock(new, u) = SlotBlock(mid, u)
    <2>1. Typed(mid) /\ Accounted(mid) /\ Same(mid, new, Field \ {"records"})
      BY <1>1, <1>2, <1>3
    <2> QED
      BY <2>1, RecordsOnly
  <1>5. new.inode = mid.inode /\ new.gd = mid.gd /\ new.inode_bitmap = mid.inode_bitmap
    BY <1>3 DEF Same, Field
  <1>6. \A u : Content(new, u) = new.records[SlotBlock(new, u)] /\ Content(img, u) = img.records[SlotBlock(img, u)]
    BY DEF Content, SlotBlock
  <1>7. \A u \in Slots(img) : SlotBlock(img, u) \in Block /\ (u # s => SlotBlock(img, u) # SlotBlock(img, s))
    BY SlotsApart, TypedIs DEF Sane, Accounted
  <1>8. Content(new, s) = r /\ \A u \in Slots(img) : u # s => Content(new, u) = Content(img, u)
    BY <1>1, <1>3, <1>4, <1>6, <1>7
  <1>9. GainsName(img, new, Place(s, w), record)
    <2>1. /\ s \in Slots(new) /\ Slots(new) = Slots(img) \cup {s}
          /\ OldLive(img, s) = Live(Content(img, s))
      BY <1>1, <1>4 DEF OldLive
    <2>2. /\ w \notin OldLive(img, s) /\ Live(Content(new, s)) = OldLive(img, s) \cup {w}
          /\ SameEntry(Content(new, s)[w], record)
          /\ \A v \in OldLive(img, s) : SameEntry(Content(new, s)[v], Content(img, s)[v])
      BY <1>8, <2>1 DEF Adds
    <2>3. \A v \in Gone(Content(new, s)) :
            v \in OldGone(img, s) /\ Content(new, s)[v].name = Content(img, s)[v].name
      BY <1>8 DEF Adds, GoneFrom, OldGone
    <2> QED
      BY <1>3, <1>8, <2>1, <2>2, <2>3, NameGained
  <1>10. NamesOK(new) /\ LinksOK(new)
    <2>1. img.inode_bitmap \subseteq Inode /\ NamesOK(img) /\ LinksOK(img)
      BY TypedIs DEF Sane
    <2>2. \A j \in img.inode_bitmap :
            /\ new.inode[j].mode = img.inode[j].mode
            /\ j # i => new.inode[j].links = img.inode[j].links
            /\ new.inode[j].dtime = img.inode[j].dtime
      BY <1>1, <1>5, <2>1
    <2>3. /\ new.inode[i].links = IF i \in img.inode_bitmap THEN img.inode[i].links + 1 ELSE 1
          /\ new.inode_bitmap = img.inode_bitmap \cup {i}
          /\ (record.type = "dir" <=> IsDir(new, i)) /\ ~new.inode[i].dtime
      BY <1>1, <1>2, <1>5 DEF IsDir
    <2> QED
      BY <1>3, <1>9, <2>1, <2>2, <2>3, LinkCounted
  <1>11. DirsOK(new)
    <2>1. \A u \in Slots(img) : DirBlock(Content(new, u))
      BY <1>8 DEF Sane, DirsOK, Adds
    <2>2. \A d \in UsedDirectories(img) : new.inode[d].indirect = 0
      BY <1>1, <1>5, TypedIs DEF Sane, DirsOK
    <2> QED
      BY <1>1, <1>4, <2>1, <2>2 DEF DirsOK
  <1>12. Root \in UsedDirectories(img) /\ Root \in UsedDirectories(new)
    BY <1>1, <1>4 DEF Sane, UsedDirectories
  <1>13. RootOK(new)
    <2> DEFINE root == Place(<<Root, 1>>, 0)
    <2>1. root \in LiveRecords(img) /\ IsRoot(Entry(img, root))
      BY <1>12, RootIs DEF Sane
    <2> HIDE DEF root
    <2>2. root \in LiveRecords(new) /\ IsRoot(Entry(new, root))
      BY <1>9, <2>1 DEF GainsName, SameEntry, IsRoot
    <2> QED
      BY <1>3, <1>11, <1>12, <2>2, RootIs DEF root
  <1>14. Root \in new.inode_bitmap /\ IsDir(new, Root)
    BY <1>12 DEF UsedDirectories
  <1>15. NameAdded(img, new, s[1], record.name, i)
    <2>1. Place(s, w)[1] = s[1]
      BY DEF Place
    <2> QED
      BY <1>9, <2>1, NamedMore
  <1> QED
    BY <1>1, <1>3, <1>4, <1>5, <1>10, <1>11, <1>13, <1>14, <1>15 DEF Sane

LEMMA RestoreWhole ==
  ASSUME NEW img, WholeImage(img), NEW d \in UsedDirectories(img), NEW n \in Given,
         NEW out, out = restore_file(img, d, n)
  PROVE  ToolDoes(img, out)
  <1> DEFINE deleted == Deleted(img, d, n)
             e == First(deleted)
             record == RecordAt(img, d, e)
             i == record.inode
             mid == reclaim_inode_and_data_blocks(img, i)
             s == <<d, e[1]>>
  <1>1. Typed(img) /\ Sane(img) /\ DirsOK(img)
    BY DEF WholeImage, Sane
  <1>2. CASE out.image = img
    BY <1>2, NothingDone
  <1>3. CASE /\ find_entry(img, d, n) = {}
             /\ deleted # {} /\ record # Rest /\ record.type # "dir"
             /\ is_inode_and_data_blocks_free(img, i)
             /\ out = [image |-> unhide_deleted_entry(mid, d, e), exit |-> "0"]
    <2> DEFINE new == unhide_deleted_entry(mid, d, e)
    <2>1. e \in deleted /\ \A o \in deleted : Sooner(e, o)
      <3>1. deleted \subseteq Nat \X Nat
        BY <1>1, DeletedIs
      <3> HIDE DEF deleted
      <3> QED
        BY <1>3, <3>1, FirstIs
    <2> HIDE DEF e
    <2>11. Foremost(img, <<d, e>>, n) /\ e = <<e[1], e[2]>>
      <3>1. e \in Nat \X Nat
        BY <1>1, <2>1, DeletedIs
      <3> QED
        BY <1>1, <2>1, <3>1, DeletedForemost
    <2>2. /\ s \in Slots(img) /\ record.inode # 0 /\ record \in Record /\ record # Rest /\ record.name = n
      BY <1>1, <1>3, <2>1, DeletedIs
    <2>3. i \in Inode \ img.inode_bitmap /\ DataBlocks(img, i) \cap img.block_bitmap = {}
      BY <1>3, <2>2, RecordIs, Zenon DEF is_inode_and_data_blocks_free
    <2> HIDE DEF i
    <2>4. Reclaimed(img, mid, i)
      BY <1>1, <2>3, FileReclaimed
    <2> HIDE DEF mid, s
    <2>5. Typed(mid) /\ mid.records = img.records /\ mid.inode[d].direct = img.inode[d].direct
      BY <1>1, <2>4, TypedIs DEF Reclaimed, Same
    <2>6. PICK r : /\ Adds(Content(img, s), r, e[2], record)
                   /\ BlockPut(mid, new, SlotBlock(img, s), r)
      BY <1>1, <1>3, <2>1, <2>5, RecordUnhidden DEF s
    <2>12. Foremost(img, Place(s, e[2]), record.name)
      <3>1. Place(s, e[2]) = <<d, e>>
        BY <2>11 DEF Place, s
      <3> QED
        BY <2>2, <2>11, <3>1
    <2> HIDE DEF new, record, deleted
    <2>7. record.inode = i /\ record.type # "dir"
      BY <1>3 DEF i
    <2>8. /\ Typed(new) /\ Sane(new) /\ UsedDirectories(new) = UsedDirectories(img)
          /\ new.gd.used_dirs = img.gd.used_dirs /\ NameAdded(img, new, s[1], record.name, i)
      BY <1>1, <2>2, <2>3, <2>4, <2>6, <2>7, <2>12, NameBack
    <2>9. WholeImage(new)
      BY <2>8 DEF WholeImage, DirsCounted
    <2>10. EntersOne(img, new, d, n, i)
      <3>1. s[1] = d /\ Absent(img, d, n)
        BY <1>3, AbsentIs DEF s
      <3> QED
        BY <2>2, <2>3, <2>8, <3>1 DEF EntersOne, UsedDirectories
    <2> QED
      BY <1>3, <2>9, <2>10 DEF ToolDoes, ToolOK, Changes, WholeImage, new
  <1> QED
    BY <1>2, <1>3 DEF restore_file, Ends
-----------------------------------------------------------------------------
(* The checker.  The recursion over directories is well defined.           *)
More(img, S) == S \cup {i \in UNION {Children(img, d) : d \in S} : IsDir(img, i)}

Start(img) == {i \in {Root} : IsDir(img, i)}

LEMMA EnteredExist ==
  ASSUME NEW img, NEW N \in Nat
  PROVE  \E f : f = [k \in 0 .. N |-> IF k = 0 THEN Start(img) ELSE More(img, f[k - 1])]
  <1> DEFINE Has(u) == \E f : f = [k \in 0 .. u |-> IF k = 0 THEN Start(img) ELSE More(img, f[k - 1])]
             Lack == {u \in 0 .. N : ~Has(u)}
  <1>1. Has(0)
    <2> DEFINE f == [k \in 0 .. 0 |-> Start(img)]
    <2>1. \A k \in 0 .. 0 : k = 0
      OBVIOUS
    <2>2. f = [k \in 0 .. 0 |-> IF k = 0 THEN Start(img) ELSE More(img, f[k - 1])]
      BY <2>1
    <2> HIDE DEF f
    <2> QED
      BY <2>2
  <1>2. ASSUME NEW u \in 1 .. N, Has(u - 1) PROVE Has(u)
    <2> PICK g : g = [k \in 0 .. u - 1 |-> IF k = 0 THEN Start(img) ELSE More(img, g[k - 1])]
      BY <1>2
    <2> DEFINE f == [k \in 0 .. u |-> IF k = u THEN More(img, g[u - 1]) ELSE g[k]]
    <2>1. ASSUME NEW k \in 0 .. u
          PROVE  f[k] = IF k = 0 THEN Start(img) ELSE More(img, f[k - 1])
      <3>1. CASE k = u
        <4>1. f[k] = More(img, g[u - 1]) /\ k # 0
          BY <3>1
        <4>2. f[k - 1] = g[u - 1]
          BY <3>1
        <4> QED
          BY <4>1, <4>2
      <3>2. CASE k # u
        <4>1. k \in 0 .. u - 1 /\ f[k] = g[k]
          BY <3>2
        <4>2. g[k] = IF k = 0 THEN Start(img) ELSE More(img, g[k - 1])
          BY <4>1
        <4>3. k # 0 => f[k - 1] = g[k - 1]
          BY <3>2, <4>1
        <4> QED
          BY <4>1, <4>2, <4>3
      <3> QED
        BY <3>1, <3>2
    <2>2. f = [k \in 0 .. u |-> f[k]]
      OBVIOUS
    <2> HIDE DEF f
    <2>3. f = [k \in 0 .. u |-> IF k = 0 THEN Start(img) ELSE More(img, f[k - 1])]
      BY <2>1, <2>2
    <2> QED
      BY <2>3
  <1>3. ASSUME Lack # {} PROVE FALSE
    <2>1. Lack \subseteq Nat
      OBVIOUS
    <2>2. PICK u \in Lack : \A k \in Lack : u <= k
      <3> HIDE DEF Lack
      <3> QED
        BY <1>3, <2>1, Smallest
    <2>3. u \in 1 .. N /\ u - 1 \in 0 .. N /\ ~(u <= u - 1)
      <3>1. u # 0 /\ u \in 0 .. N
        BY <1>1
      <3> QED
        BY <3>1
    <2>4. u - 1 \notin Lack
      <3> HIDE DEF Lack
      <3> QED
        BY <2>2, <2>3
    <2>5. Has(u - 1) /\ ~Has(u)
      BY <2>3, <2>4
    <2> HIDE DEF Has
    <2> QED
      BY <1>2, <2>3, <2>5
  <1>4. Lack = {}
    <2> HIDE DEF Lack
    <2> QED
      BY <1>3
  <1>5. Has(N)
    <2>1. N \in 0 .. N
      OBVIOUS
    <2> HIDE DEF Has
    <2> QED
      BY <1>4, <2>1
  <1> QED
    BY <1>5

(* It enters no directory but those of a set that has the root and, of     *)
(* each in it, the children.                                               *)
LEMMA EnteredWithin ==
  ASSUME NEW img, NEW T, IsDir(img, Root) => Root \in T,
         \A d \in T : \A i \in Children(img, d) : IsDir(img, i) => i \in T
  PROVE  Entered(img) \subseteq T
  <1> DEFINE N == Cardinality(Inode)
             to == CHOOSE f : f = [k \in 0 .. N |-> IF k = 0 THEN Start(img) ELSE More(img, f[k - 1])]
  <1>1. N \in Nat
    BY NumbersFinite
  <1>2. Entered(img) = to[N]
    BY Zenon DEF Entered, Start, More
  <1> HIDE DEF N
  <1>3. to = [k \in 0 .. N |-> IF k = 0 THEN Start(img) ELSE More(img, to[k - 1])]
    BY <1>1, EnteredExist, Zenon
  <1> HIDE DEF to
  <1>4. to[0] = Start(img) /\ \A k \in 1 .. N : to[k] = More(img, to[k - 1])
    BY <1>1, <1>3
  <1> DEFINE Lack == {k \in 0 .. N : ~(to[k] \subseteq T)}
  <1>5. ASSUME Lack # {} PROVE FALSE
    <2>1. Lack \subseteq Nat
      OBVIOUS
    <2>2. PICK u \in Lack : \A k \in Lack : u <= k
      <3> HIDE DEF Lack
      <3> QED
        BY <1>5, <2>1, Smallest
    <2>3. u # 0
      BY <1>4 DEF Start
    <2>4. u \in 1 .. N /\ u - 1 \in 0 .. N /\ ~(u <= u - 1)
      BY <1>1, <2>3
    <2>5. to[u - 1] \subseteq T
      BY <2>2, <2>4
    <2>6. {i \in UNION {Children(img, d) : d \in to[u - 1]} : IsDir(img, i)} \subseteq T
      BY <2>5
    <2>7. to[u] \subseteq T
      BY <1>4, <2>4, <2>5, <2>6 DEF More
    <2> QED
      BY <2>7
  <1> QED
    BY <1>1, <1>2, <1>5

(* Any live record of any inode's blocks, whatever the inode is.           *)
LEMMA RecordsOf ==
  ASSUME NEW img, Typed(img), NEW d \in Inode, NEW e \in LiveEntries(img, d),
         NEW b, b = img.inode[d].direct[e[1]]
  PROVE  /\ e[1] \in 1 .. Len(img.inode[d].direct) /\ b \in Block /\ e[2] \in Walk(img.records[b])
         /\ e[2] \in DOMAIN img.records[b] /\ RecordAt(img, d, e) = img.records[b][e[2]]
         /\ img.records[b][e[2]] \in Record /\ img.records[b][e[2]].inode # 0
         /\ img.records[b][e[2]].inode \in Inode /\ img.records[b][e[2]].name # "/"
  <1>1. /\ img.inode[d] \in InodeRecord /\ img.records \in [Block -> Written]
        /\ \A c \in Block : BlockOK(img.records[c])
    BY TypedIs DEF Typed
  <1>2. PICK k \in 1 .. Len(img.inode[d].direct) :
          e \in {k} \X Walk(img.records[img.inode[d].direct[k]])
    BY DEF LiveEntries, Places
  <1>3. e[1] = k /\ e[2] \in Walk(img.records[b])
    BY <1>2
  <1>4. b \in Block
    BY <1>1, <1>2, <1>3, InodeIs
  <1>5. RecordAt(img, d, e) = WordAt(img.records[b], e[2]) /\ RecordAt(img, d, e).inode # 0
    BY DEF RecordAt, LiveEntries
  <1>6. e[2] \in DOMAIN img.records[b] /\ RecordAt(img, d, e) = img.records[b][e[2]]
    BY <1>5, RecordIs, Zenon DEF WordAt
  <1>7. img.records[b][e[2]] \in Record
    BY <1>1, <1>4, <1>6, BlockDomain DEF BlockOK
  <1>8. img.records[b][e[2]].name # "/"
    <2>1. img.records[b][e[2]] # Rest
      BY <1>5, <1>6, RecordIs, Zenon
    <2> QED
      BY <1>1, <1>4, <1>6, <2>1 DEF BlockOK
  <1> QED
    BY <1>2, <1>3, <1>4, <1>5, <1>6, <1>7, <1>8, RecordIs, Zenon

LEMMA EnteredTyped ==
  ASSUME NEW img, Typed(img)
  PROVE  Entered(img) \subseteq Inode
  <1>1. ASSUME NEW d \in Inode, NEW i \in Children(img, d) PROVE i \in Inode
    <2>1. PICK e \in LiveEntries(img, d) : i = RecordAt(img, d, e).inode
      BY DEF Children
    <2> QED
      BY <2>1, RecordsOf
  <1> QED
    BY <1>1, EnteredWithin, NumbersFinite

WordOf(img, p) == img.records[p[1]][p[2]]

(* What the checker visits are headers of used records.                    *)
LEMMA VisitedTyped ==
  ASSUME NEW img, Typed(img), RootOK(img), NEW p \in Visited(img)
  PROVE  /\ p[1] \in Block /\ p[2] \in DOMAIN img.records[p[1]] /\ p = <<p[1], p[2]>>
         /\ WordOf(img, p) \in Record /\ WordOf(img, p).inode \in Inode /\ WordOf(img, p).inode # 0
         /\ WordOf(img, p).name # "/"
  <1>1. CASE p = RootRecord(img)
    <2>1. p[1] = img.inode[Root].direct[1] /\ p[2] = 0 /\ p = <<p[1], p[2]>>
      BY <1>1 DEF RootRecord
    <2>2. img.inode[Root] \in InodeRecord /\ img.records \in [Block -> Written]
          /\ \A c \in Block : BlockOK(img.records[c])
      BY TypedIs, NumbersFinite DEF Typed
    <2>3. 1 \in 1 .. Len(img.inode[Root].direct)
      <3>1. img.inode[Root].direct \in Seq(Block) /\ img.inode[Root].direct # <<>>
        BY <2>2, InodeIs DEF RootOK
      <3> QED
        BY <3>1
    <2>4. p[1] \in Block
      BY <2>1, <2>2, <2>3, InodeIs
    <2>5. p[2] \in DOMAIN img.records[p[1]] /\ WordOf(img, p).inode # 0 /\ WordOf(img, p).name = "."
      BY <2>1 DEF RootOK, IsRoot, Root, WordOf
    <2>6. WordOf(img, p) \in Record
      BY <2>2, <2>4, <2>5, BlockDomain DEF WordOf, BlockOK
    <2> QED
      BY <2>1, <2>4, <2>5, <2>6, RecordIs, Zenon
  <1>2. ASSUME NEW d \in Entered(img), NEW e \in LiveEntries(img, d),
               p = <<img.inode[d].direct[e[1]], e[2]>>
        PROVE  /\ p[1] \in Block /\ p[2] \in DOMAIN img.records[p[1]] /\ p = <<p[1], p[2]>>
               /\ WordOf(img, p) \in Record /\ WordOf(img, p).inode \in Inode
               /\ WordOf(img, p).inode # 0 /\ WordOf(img, p).name # "/"
    <2>1. d \in Inode
      BY EnteredTyped
    <2>2. p[1] = img.inode[d].direct[e[1]] /\ p[2] = e[2] /\ p = <<p[1], p[2]>>
      BY <1>2
    <2> DEFINE b == img.inode[d].direct[e[1]]
    <2>3. /\ b \in Block /\ e[2] \in DOMAIN img.records[b] /\ img.records[b][e[2]] \in Record
          /\ img.records[b][e[2]].inode # 0 /\ img.records[b][e[2]].inode \in Inode
          /\ img.records[b][e[2]].name # "/"
      BY <2>1, RecordsOf, Zenon
    <2> HIDE DEF b
    <2>4. p[1] = b
      BY <2>2 DEF b
    <2> QED
      BY <2>2, <2>3, <2>4 DEF WordOf
  <1>3. p = RootRecord(img) \/ \E d \in Entered(img) : \E e \in LiveEntries(img, d) :
                                 p = <<img.inode[d].direct[e[1]], e[2]>>
    BY DEF Visited
  <1> QED
    BY <1>1, <1>2, <1>3

LEMMA ReachedTyped ==
  ASSUME NEW img, Typed(img), RootOK(img)
  PROVE  Reached(img) \subseteq Inode
  BY VisitedTyped DEF Reached, WordOf

(* In a whole image they are live records of directories in use.           *)
LEMMA EnteredWhole ==
  ASSUME NEW img, Typed(img), Sane(img)
  PROVE  Entered(img) \subseteq UsedDirectories(img)
  <1>1. ASSUME NEW d \in UsedDirectories(img), NEW i \in Children(img, d), IsDir(img, i)
        PROVE  i \in UsedDirectories(img)
    <2>1. PICK e \in LiveEntries(img, d) : i = RecordAt(img, d, e).inode
      BY DEF Children
    <2>2. <<d, e>> \in LiveRecords(img)
      BY DEF LiveRecords
    <2>3. i \in img.inode_bitmap
      BY <2>1, <2>2, LiveNames DEF Sane, Entry
    <2> QED
      BY <1>1, <2>3 DEF UsedDirectories
  <1>2. Root \in UsedDirectories(img)
    BY DEF Sane, UsedDirectories
  <1> QED
    BY <1>1, <1>2, EnteredWithin

LEMMA VisitedWhole ==
  ASSUME NEW img, Typed(img), Sane(img), NEW p \in Visited(img)
  PROVE  /\ \E s \in Slots(img) : SlotBlock(img, s) = p[1] /\ p[2] \in Live(Content(img, s))
         /\ WordOf(img, p).inode \in img.inode_bitmap
  <1>0. \E d \in UsedDirectories(img) : \E e \in LiveEntries(img, d) :
          p = <<img.inode[d].direct[e[1]], e[2]>>
    <2>1. CASE p = RootRecord(img)
      <3>1. Root \in UsedDirectories(img) /\ DirsOK(img) /\ RootOK(img)
        BY DEF Sane, UsedDirectories
      <3>2. Place(<<Root, 1>>, 0) \in LiveRecords(img)
        BY <3>1, RootIs
      <3>3. <<1, 0>> \in LiveEntries(img, Root)
        BY <3>2 DEF Place, LiveRecords
      <3>4. p = <<img.inode[Root].direct[<<1, 0>>[1]], <<1, 0>>[2]>>
        BY <2>1 DEF RootRecord
      <3> QED
        BY <3>1, <3>3, <3>4
    <2>2. CASE \E d \in Entered(img) : \E e \in LiveEntries(img, d) :
                 p = <<img.inode[d].direct[e[1]], e[2]>>
      BY <2>2, EnteredWhole
    <2> QED
      BY <2>1, <2>2 DEF Visited
  <1> PICK d \in UsedDirectories(img) : \E e \in LiveEntries(img, d) :
          p = <<img.inode[d].direct[e[1]], e[2]>>
    BY <1>0
  <1>1. PICK e \in LiveEntries(img, d) : p = <<img.inode[d].direct[e[1]], e[2]>>
    OBVIOUS
  <1> DEFINE s == <<d, e[1]>>
  <1>2. /\ s \in Slots(img) /\ e[2] \in Live(Content(img, s))
        /\ RecordAt(img, d, e) = Content(img, s)[e[2]] /\ <<d, e>> \in LiveRecords(img)
    BY <1>1, EntryIs DEF Sane
  <1>3. p[1] = SlotBlock(img, s) /\ p[2] = e[2]
    BY <1>1 DEF SlotBlock
  <1>4. RecordAt(img, d, e).inode \in img.inode_bitmap
    BY <1>2, LiveNames DEF Sane, Entry
  <1>5. WordOf(img, p) = Content(img, s)[e[2]]
    BY <1>3 DEF WordOf, Content, SlotBlock
  <1> QED
    BY <1>2, <1>3, <1>4, <1>5

LEMMA ReachedWhole ==
  ASSUME NEW img, Typed(img), Sane(img)
  PROVE  Reached(img) \subseteq img.inode_bitmap
  BY VisitedWhole DEF Reached, WordOf

LEMMA BlocksSeenIs ==
  ASSUME NEW img, Typed(img), NEW i \in Inode
  PROVE  BlocksSeen(img, i) \subseteq DataBlocks(img, i) /\ BlocksSeen(img, i) \subseteq Block
  <1>1. \A k \in 1 .. Len(img.pointers[img.inode[i].indirect]) :
          img.inode[i].indirect # 0 =>
            img.pointers[img.inode[i].indirect][k] \in ToSet(img.pointers[img.inode[i].indirect])
    <2>1. img.inode[i].indirect # 0 => img.pointers[img.inode[i].indirect] \in Seq(Block)
      BY TypedIs, InodeIs
    <2> QED
      BY <2>1 DEF ToSet
  <1>2. BlocksSeen(img, i) \subseteq DataBlocks(img, i)
    BY <1>1 DEF BlocksSeen, DataBlocks
  <1> QED
    BY <1>2, BlocksTyped
-----------------------------------------------------------------------------
(* What each part of the checker leaves: an image whose types hold, and    *)
(* whose root has its ".", and a whole one when it was given one.          *)
TypedRoot(img) == Typed(img) /\ RootOK(img)

Fixes(img, new) ==
  TypedRoot(new) /\ (WholeImage(img) => WholeImage(new) /\ SameNames(img, new))

LEMMA TypesKept ==
  ASSUME NEW img, TypedRoot(img), NEW new, Same(img, new, {"inode", "records", "pointers"})
  PROVE  TypedRoot(new)
  BY DEF TypedRoot, Typed, RootOK, Same

LEMMA WholeRecounted ==
  ASSUME NEW img, WholeImage(img), NEW new, Same(img, new, Field \ {"sb", "gd"}),
         CountersOf(new), new.gd.used_dirs = img.gd.used_dirs
  PROVE  WholeImage(new) /\ SameNames(img, new)
  <1>1. Typed(img) /\ Sane(img) /\ DirsCounted(img)
    BY DEF WholeImage
  <1>2. /\ new \in Image /\ new.inode_bitmap = img.inode_bitmap /\ new.block_bitmap = img.block_bitmap
        /\ new.inode = img.inode /\ new.records = img.records /\ new.pointers = img.pointers
    BY DEF Same, Field
  <1>3. Typed(new)
    BY <1>1, <1>2 DEF Typed
  <1>4. Accounted(new)
    <2>1. FreeOK(new)
      BY <1>1, <1>2 DEF Sane, Accounted, FreeOK, IsDir
    <2>2. \A j : DataBlocks(new, j) = DataBlocks(img, j)
      BY <1>2 DEF DataBlocks
    <2>3. BlocksOK(new)
      BY <1>1, <1>2, <2>2 DEF Sane, Accounted, BlocksOK
    <2> QED
      BY <2>1, <2>3 DEF Accounted
  <1>5. Sane(new) /\ SameNames(img, new)
    BY <1>1, <1>2, <1>3, <1>4, SaneKept
  <1> QED
    BY <1>1, <1>3, <1>5 DEF WholeImage, DirsCounted, SameNames

LEMMA WholeRefiled ==
  ASSUME NEW img, WholeImage(img), NEW new, Typed(new), Same(img, new, Field \ {"inode"}),
         \A i \in Inode : /\ new.inode[i].mode = img.inode[i].mode
                          /\ new.inode[i].links = img.inode[i].links
                          /\ new.inode[i].dtime => img.inode[i].dtime
                          /\ new.inode[i].direct = img.inode[i].direct
                          /\ new.inode[i].indirect = img.inode[i].indirect
  PROVE  WholeImage(new) /\ SameNames(img, new)
  <1>1. Typed(img) /\ Sane(img) /\ DirsCounted(img)
    BY DEF WholeImage
  <1>2. /\ new.inode_bitmap = img.inode_bitmap /\ new.block_bitmap = img.block_bitmap
        /\ new.gd = img.gd /\ new.sb = img.sb
        /\ new.records = img.records /\ new.pointers = img.pointers
    BY DEF Same, Field
  <1>3. img.inode_bitmap \subseteq Inode /\ UsedDirectories(img) \subseteq Inode
    BY <1>1, TypedIs
  <1>4. Accounted(new)
    <2>1. FreeOK(new)
      BY <1>1, <1>2 DEF Sane, Accounted, FreeOK, IsDir
    <2>2. \A j \in Inode : DataBlocks(new, j) = DataBlocks(img, j)
      BY <1>2 DEF DataBlocks
    <2>3. BlocksOK(new)
      BY <1>1, <1>2, <1>3, <2>2 DEF Sane, Accounted, BlocksOK
    <2>4. CountersOf(new)
      BY <1>1, <1>2 DEF Sane, Accounted, CountersOf, FreeInodes, FreeBlocks
    <2> QED
      BY <2>1, <2>3, <2>4 DEF Accounted
  <1>5. Sane(new) /\ SameNames(img, new)
    BY <1>1, <1>2, <1>3, <1>4, SaneKept
  <1> QED
    BY <1>1, <1>2, <1>5 DEF WholeImage, DirsCounted, SameNames

(* The mode of the root is that of a directory in a whole image.           *)
FileMode(f, mode) ==
  [mode |-> mode, links |-> f.links, dtime |-> f.dtime, direct |-> f.direct, indirect |-> f.indirect]

LEMMA ModePut ==
  ASSUME NEW f \in InodeRecord, NEW mode
  PROVE  [f EXCEPT !.mode = mode] = FileMode(f, mode)
  BY DEF FileMode, InodeRecord

LEMMA FileModeIs ==
  ASSUME NEW f \in InodeRecord, FileOK(f), NEW mode \in Mode
  PROVE  FileMode(f, mode) \in InodeRecord /\ FileOK(FileMode(f, mode))
  <1>1. FileMode(f, mode) \in InodeRecord
    BY InodeIs DEF InodeRecord, FileMode
  <1>2. FileMode(f, mode).direct = f.direct /\ FileMode(f, mode).indirect = f.indirect
    BY DEF FileMode
  <1> QED
    BY <1>1, <1>2 DEF FileOK

Remoded(img, i, mode) == [img EXCEPT !.inode[i].mode = mode]

RemodedTo(img, new, i, mode) ==
  /\ TypedRoot(new) /\ Same(img, new, Field \ {"inode"})
  /\ \A j \in Inode : /\ new.inode[j].mode = IF j = i THEN mode ELSE img.inode[j].mode
                      /\ new.inode[j].links = img.inode[j].links
                      /\ new.inode[j].dtime = img.inode[j].dtime
                      /\ new.inode[j].direct = img.inode[j].direct
                      /\ new.inode[j].indirect = img.inode[j].indirect

LEMMA InodeRemoded ==
  ASSUME NEW img, TypedRoot(img), NEW i \in Inode, NEW mode \in Mode, NEW new, new = Remoded(img, i, mode)
  PROVE  RemodedTo(img, new, i, mode)
  <1> DEFINE f == FileMode(img.inode[i], mode)
             fs == [img.inode EXCEPT ![i] = f]
  <1>1. img.inode \in [Inode -> InodeRecord] /\ img.inode[i] \in InodeRecord /\ FileOK(img.inode[i])
        /\ Typed(img) /\ img \in Image
    BY TypedIs DEF Typed, TypedRoot
  <1>2. f \in InodeRecord /\ FileOK(f)
    BY <1>1, FileModeIs
  <1>3. f.mode = mode /\ f.links = img.inode[i].links /\ f.dtime = img.inode[i].dtime
        /\ f.direct = img.inode[i].direct /\ f.indirect = img.inode[i].indirect
    BY DEF FileMode
  <1>4. [img.inode[i] EXCEPT !.mode = mode] = f
    BY <1>1, ModePut, Zenon
  <1>5. new = [img EXCEPT !.inode = [img.inode EXCEPT ![i] = [img.inode[i] EXCEPT !.mode = mode]]]
    BY <1>1 DEF Image, Remoded
  <1>6. new = PutInode(img, fs)
    BY <1>4, <1>5 DEF PutInode
  <1> HIDE DEF f
  <1>7. fs \in [Inode -> InodeRecord] /\ \A j \in Inode : fs[j] = IF j = i THEN f ELSE img.inode[j]
    BY <1>1, <1>2
  <1> HIDE DEF fs
  <1>8. \A j \in Inode : FileOK(fs[j])
    BY <1>1, <1>2, <1>7 DEF Typed
  <1>9. Typed(new) /\ Same(img, new, Field \ {"inode"}) /\ new.inode = fs
    BY <1>1, <1>6, <1>7, <1>8, FilePut
  <1>10. \A j \in Inode : /\ new.inode[j].mode = IF j = i THEN mode ELSE img.inode[j].mode
                          /\ new.inode[j].links = img.inode[j].links
                          /\ new.inode[j].dtime = img.inode[j].dtime
                          /\ new.inode[j].direct = img.inode[j].direct
                          /\ new.inode[j].indirect = img.inode[j].indirect
    BY <1>3, <1>7, <1>9
  <1>11. RootOK(new)
    <2>1. new.records = img.records /\ new.inode[Root].direct = img.inode[Root].direct
      BY <1>9, <1>10, NumbersFinite DEF Same, Field
    <2> QED
      BY <2>1 DEF RootOK, TypedRoot
  <1> QED
    BY <1>9, <1>10, <1>11 DEF TypedRoot, RemodedTo

LEMMA RootModeFixed ==
  ASSUME NEW img, TypedRoot(img), NEW new, new = fix_root_mode(img)
  PROVE  Fixes(img, new)
  <1> DEFINE mode == IF img.inode[Root].mode \in {"unknown", "dir"} THEN "dir" ELSE "socket"
             i == Root
  <1>1. mode \in Mode /\ i \in Inode
    BY NumbersFinite DEF Mode, Type
  <1>2. img.inode \in [Inode -> InodeRecord] /\ img \in Image
    BY TypedIs DEF TypedRoot, Typed
  <1>3. new = Remoded(img, i, mode)
    BY <1>1, <1>2 DEF fix_root_mode, Remoded, Image
  <1>4. WholeImage(img) => mode = img.inode[i].mode
    BY DEF WholeImage, Sane, IsDir
  <1> HIDE DEF mode, i
  <1>5. RemodedTo(img, new, i, mode)
    BY <1>1, <1>3, InodeRemoded
  <1>6. ASSUME WholeImage(img) PROVE WholeImage(new) /\ SameNames(img, new)
    BY <1>4, <1>5, <1>6, WholeRefiled DEF RemodedTo, TypedRoot
  <1> QED
    BY <1>5, <1>6 DEF Fixes, RemodedTo

(* The counters are set to what they are in a whole image.                 *)
PutSuper(img, v) == [img EXCEPT !.sb = v]

Counted(img, m, n) ==
  [img EXCEPT !.sb.free_inodes = m, !.gd.free_inodes = m, !.sb.free_blocks = n, !.gd.free_blocks = n]

LEMMA CountedIs ==
  ASSUME NEW img \in Image, NEW m \in Int, NEW n \in Int, NEW new, new = Counted(img, m, n)
  PROVE  /\ Same(img, new, Field \ {"sb", "gd"}) /\ new.gd.used_dirs = img.gd.used_dirs
         /\ new.sb.free_inodes = m /\ new.gd.free_inodes = m
         /\ new.sb.free_blocks = n /\ new.gd.free_blocks = n
  <1> DEFINE SB == [free_inodes : Int, free_blocks : Int]
             GD == [free_inodes : Int, free_blocks : Int, used_dirs : Int]
             s == [[img.sb EXCEPT !.free_inodes = m] EXCEPT !.free_blocks = n]
             g == [[img.gd EXCEPT !.free_inodes = m] EXCEPT !.free_blocks = n]
             mid == PutSuper(img, s)
  <1>1. img.sb \in SB /\ img.gd \in GD
    BY DEF Image
  <1>2. s \in SB /\ s.free_inodes = m /\ s.free_blocks = n
    BY <1>1
  <1>3. g \in GD /\ g.free_inodes = m /\ g.free_blocks = n /\ g.used_dirs = img.gd.used_dirs
    BY <1>1
  <1>4. new = PutGroup(PutSuper(img, s), g)
    BY <1>1 DEF Counted, PutSuper, PutGroup, Image
  <1> HIDE DEF s, g
  <1>5. mid.sb = s /\ Same(img, mid, Field \ {"sb"})
    BY <1>2, UpdateIs DEF PutSuper
  <1> HIDE DEF mid
  <1>6. new.gd = g /\ Same(mid, new, Field \ {"gd"})
    <2>1. mid \in Image /\ new = PutGroup(mid, g)
      BY <1>4, <1>5 DEF Same, mid
    <2> QED
      BY <1>3, <2>1, PutGroupIs
  <1>7. new.sb = s /\ Same(img, new, Field \ {"sb", "gd"})
    BY <1>5, <1>6 DEF Same, Field
  <1> QED
    BY <1>2, <1>3, <1>6, <1>7

LEMMA FreeCountsFixed ==
  ASSUME NEW img, TypedRoot(img), NEW new, new = fix_free_counts(img)
  PROVE  /\ Fixes(img, new)
         /\ Same(img, new, Field \ {"sb", "gd"}) /\ new.gd.used_dirs = img.gd.used_dirs
         /\ CountersOf(new)
  <1> DEFINE m == Cardinality(FreeInodes(img))
             n == Cardinality(FreeBlocks(img))
  <1>1. m \in Int /\ n \in Int /\ img \in Image
    BY NumbersFinite DEF FreeInodes, FreeBlocks, TypedRoot, Typed
  <1>2. new = Counted(img, m, n)
    BY DEF fix_free_counts, Counted
  <1> HIDE DEF m, n
  <1>3. /\ Same(img, new, Field \ {"sb", "gd"}) /\ new.gd.used_dirs = img.gd.used_dirs
        /\ new.sb.free_inodes = m /\ new.gd.free_inodes = m
        /\ new.sb.free_blocks = n /\ new.gd.free_blocks = n
    BY <1>1, <1>2, CountedIs, SMTT(60)
  <1>4. FreeInodes(new) = FreeInodes(img) /\ FreeBlocks(new) = FreeBlocks(img)
    BY <1>3 DEF Same, Field, FreeInodes, FreeBlocks
  <1>5. CountersOf(new)
    BY <1>3, <1>4, CountersAre DEF m, n
  <1>6. TypedRoot(new)
    <2>1. Same(img, new, {"inode", "records", "pointers"})
      BY <1>3 DEF Same, Field
    <2> QED
      BY <2>1, TypesKept
  <1> QED
    BY <1>3, <1>5, <1>6, WholeRecounted DEF Fixes

LEMMA InodesTaken ==
  ASSUME NEW img, NEW new, NEW is \in SUBSET (Inode \ img.inode_bitmap),
         new.inode_bitmap = img.inode_bitmap \cup is
  PROVE  Cardinality(FreeInodes(new)) = Cardinality(FreeInodes(img)) + -Cardinality(is)
  <1>1. FreeInodes(new) = FreeInodes(img) \ is /\ FreeInodes(img) \cap is = is
    BY DEF FreeInodes
  <1>2. IsFiniteSet(FreeInodes(img)) /\ Cardinality(FreeInodes(img)) \in Nat /\ Cardinality(is) \in Nat
    BY NumbersFinite DEF FreeInodes
  <1>3. Cardinality(FreeInodes(img) \ is) = Cardinality(FreeInodes(img)) - Cardinality(is)
    BY <1>1, <1>2, FS_Difference
  <1> QED
    BY <1>1, <1>2, <1>3

(* An inode that is reached is in use, in a whole image it was already,    *)
LEMMA InodeAllocationFixed ==
  ASSUME NEW img, TypedRoot(img), NEW new, new = fix_inode_allocation(img)
  PROVE  /\ Fixes(img, new)
         /\ Same(img, new, Field \ {"sb", "gd", "inode_bitmap"}) /\ new.gd.used_dirs = img.gd.used_dirs
         /\ new.inode_bitmap = img.inode_bitmap \cup Reached(img)
         /\ CountersOf(img) => CountersOf(new)
  <1> DEFINE lost == Reached(img) \ img.inode_bitmap
             one == AddFree(img, -Cardinality(lost), 0)
  <1>1. Typed(img) /\ img \in Image /\ img.inode_bitmap \subseteq Inode /\ lost \in SUBSET Inode
    BY TypedIs, ReachedTyped DEF TypedRoot, Typed
  <1>2. -Cardinality(lost) \in Int
    BY <1>1, NumbersFinite
  <1>3. new = PutInodeBitmap(one, one.inode_bitmap \cup lost)
    BY DEF fix_inode_allocation, PutInodeBitmap
  <1>4. WholeImage(img) => lost = {}
    BY ReachedWhole DEF WholeImage
  <1> HIDE DEF lost
  <1>5. Counts(img, one, -Cardinality(lost), 0) /\ Same(img, one, Field \ {"sb", "gd"})
    BY <1>1, <1>2, AddFreeIs
  <1> HIDE DEF one
  <1>6. one \in Image /\ one.inode_bitmap = img.inode_bitmap
    BY <1>5 DEF Same, Field
  <1>7. new.inode_bitmap = img.inode_bitmap \cup lost /\ Same(one, new, Field \ {"inode_bitmap"})
    <2> DEFINE v == one.inode_bitmap \cup lost
    <2>1. v \in SUBSET Inode /\ new = PutInodeBitmap(one, v)
      BY <1>1, <1>3, <1>6
    <2> HIDE DEF v
    <2>2. new.inode_bitmap = v /\ Same(one, new, Field \ {"inode_bitmap"})
      BY <1>6, <2>1, PutBitmapIs, Zenon
    <2> QED
      BY <1>6, <2>2 DEF v
  <1>8. TypedRoot(new)
    <2>1. Same(img, new, {"inode", "records", "pointers"})
      BY <1>5, <1>7 DEF Same, Field
    <2> QED
      BY <2>1, TypesKept
  <1>9. ASSUME WholeImage(img) PROVE WholeImage(new) /\ SameNames(img, new)
    <2>1. Cardinality(lost) = 0
      BY <1>4, <1>9, FS_EmptySet
    <2>2. Same(img, new, Field \ {"sb", "gd"})
      BY <1>4, <1>5, <1>7, <1>9 DEF Same, Field
    <2>3. CountersOf(img)
      BY <1>9 DEF WholeImage, Sane, Accounted
    <2>4. FreeInodes(new) = FreeInodes(img) /\ FreeBlocks(new) = FreeBlocks(img)
      BY <2>2 DEF Same, Field, FreeInodes, FreeBlocks
    <2>5. new.sb = one.sb /\ new.gd = one.gd
      BY <1>7 DEF Same, Field
    <2>6. /\ img.sb.free_inodes \in Int /\ img.gd.free_inodes \in Int
          /\ img.sb.free_blocks \in Int /\ img.gd.free_blocks \in Int
      BY <1>1, TypedIs
    <2>7. CountersOf(new) /\ new.gd.used_dirs = img.gd.used_dirs
      BY <1>5, <2>1, <2>3, <2>4, <2>5, <2>6, CountersAre DEF Counts
    <2> QED
      BY <1>9, <2>2, <2>7, WholeRecounted
  <1>10. Same(img, new, Field \ {"sb", "gd", "inode_bitmap"})
    BY <1>5, <1>7 DEF Same, Field
  <1>11. new.sb = one.sb /\ new.gd = one.gd
    BY <1>7 DEF Same, Field
  <1>12. Counts(img, new, -Cardinality(lost), 0)
    BY <1>5, <1>11 DEF Counts
  <1>13. ASSUME CountersOf(img) PROVE CountersOf(new)
    <2>1. lost \in SUBSET (Inode \ img.inode_bitmap)
      BY <1>1 DEF lost
    <2>2. Cardinality(FreeInodes(new)) = Cardinality(FreeInodes(img)) + -Cardinality(lost)
      BY <1>7, <2>1, InodesTaken
    <2>3. FreeBlocks(new) = FreeBlocks(img) /\ Cardinality(FreeBlocks(img)) \in Int
      BY <1>10, NumbersFinite DEF Same, Field, FreeBlocks
    <2>4. Cardinality(FreeBlocks(new)) = Cardinality(FreeBlocks(img)) + 0
      BY <2>3
    <2> QED
      BY <1>12, <1>13, <2>2, <2>4, CountersFollow
  <1>14. new.inode_bitmap = img.inode_bitmap \cup Reached(img)
    BY <1>7 DEF lost
  <1> QED
    BY <1>8, <1>9, <1>10, <1>12, <1>13, <1>14 DEF Fixes, Counts

(* as are its blocks.                                                      *)
LEMMA BlockAllocationFixed ==
  ASSUME NEW img, TypedRoot(img), NEW new, new = fix_block_allocation(img)
  PROVE  /\ Fixes(img, new)
         /\ Same(img, new, Field \ {"sb", "gd", "block_bitmap"}) /\ new.gd.used_dirs = img.gd.used_dirs
         /\ new.block_bitmap = img.block_bitmap \cup UNION {BlocksSeen(img, i) : i \in Reached(img)}
         /\ CountersOf(img) => CountersOf(new)
  <1> DEFINE bs == (UNION {BlocksSeen(img, i) : i \in Reached(img)}) \ img.block_bitmap
  <1>1. Typed(img) /\ img \in Image
    BY DEF TypedRoot, Typed
  <1>2. bs \in SUBSET Block
    BY <1>1, ReachedTyped, BlocksSeenIs DEF TypedRoot
  <1>3. WholeImage(img) => bs = {}
    <2> HAVE WholeImage(img)
    <2>1. ASSUME NEW i \in Reached(img) PROVE BlocksSeen(img, i) \subseteq img.block_bitmap
      <3>1. i \in img.inode_bitmap /\ i \in Inode
        BY <1>1, ReachedWhole, TypedIs DEF WholeImage
      <3>2. DataBlocks(img, i) \subseteq img.block_bitmap
        BY <3>1 DEF WholeImage, Sane, Accounted, BlocksOK
      <3> QED
        BY <1>1, <3>1, <3>2, BlocksSeenIs
    <2>2. ASSUME NEW b \in bs PROVE FALSE
      <3>1. b \notin img.block_bitmap /\ b \in UNION {BlocksSeen(img, i) : i \in Reached(img)}
        OBVIOUS
      <3>2. PICK i \in Reached(img) : b \in BlocksSeen(img, i)
        BY <3>1
      <3> QED
        BY <2>1, <3>1, <3>2
    <2> HIDE DEF bs
    <2> QED
      BY <2>2
  <1>4. new = set_blocks_in_use(img, bs)
    BY DEF fix_block_allocation
  <1> HIDE DEF bs
  <1>5. /\ Same(img, new, Field \ {"sb", "gd", "block_bitmap"}) /\ Counts(img, new, 0, -Cardinality(bs))
        /\ new.block_bitmap = img.block_bitmap \cup bs
    BY <1>1, <1>2, <1>4, BlocksSet
  <1>6. TypedRoot(new)
    <2>1. Same(img, new, {"inode", "records", "pointers"})
      BY <1>5 DEF Same, Field
    <2> QED
      BY <2>1, TypesKept
  <1>7. ASSUME WholeImage(img) PROVE WholeImage(new) /\ SameNames(img, new)
    <2>1. Cardinality(bs) = 0
      BY <1>3, <1>7, FS_EmptySet
    <2>2. Same(img, new, Field \ {"sb", "gd"})
      BY <1>3, <1>5, <1>7 DEF Same, Field
    <2>3. CountersOf(img)
      BY <1>7 DEF WholeImage, Sane, Accounted
    <2>4. FreeInodes(new) = FreeInodes(img) /\ FreeBlocks(new) = FreeBlocks(img)
      BY <2>2 DEF Same, Field, FreeInodes, FreeBlocks
    <2>5. /\ img.sb.free_inodes \in Int /\ img.gd.free_inodes \in Int
          /\ img.sb.free_blocks \in Int /\ img.gd.free_blocks \in Int
      BY <1>1, TypedIs
    <2>6. CountersOf(new) /\ new.gd.used_dirs = img.gd.used_dirs
      BY <1>5, <2>1, <2>3, <2>4, <2>5, CountersAre DEF Counts
    <2> QED
      BY <1>7, <2>2, <2>6, WholeRecounted
  <1>8. ASSUME CountersOf(img) PROVE CountersOf(new)
    <2>1. bs \in SUBSET (Block \ img.block_bitmap)
      BY <1>2 DEF bs
    <2>2. Cardinality(FreeBlocks(new)) = Cardinality(FreeBlocks(img)) + -Cardinality(bs)
      BY <1>5, <2>1, BlocksTaken
    <2>3. FreeInodes(new) = FreeInodes(img) /\ Cardinality(FreeInodes(img)) \in Int
      BY <1>5, NumbersFinite DEF Same, Field, FreeInodes
    <2>4. Cardinality(FreeInodes(new)) = Cardinality(FreeInodes(img)) + 0
      BY <2>3
    <2> QED
      BY <1>5, <1>8, <2>2, <2>4, CountersFollow
  <1>9. new.block_bitmap = img.block_bitmap \cup UNION {BlocksSeen(img, i) : i \in Reached(img)}
    BY <1>5 DEF bs
  <1> QED
    BY <1>5, <1>6, <1>7, <1>8, <1>9 DEF Fixes, Counts

(* Times of deletion are no part of what makes an image whole,             *)
TimesBy(inode, reached) ==
  [i \in Inode |-> [inode[i] EXCEPT !.dtime = inode[i].dtime /\ i \notin reached]]

LEMMA DeletionTimesFixed ==
  ASSUME NEW img, TypedRoot(img), NEW new, new = fix_deletion_times(img)
  PROVE  /\ Fixes(img, new)
         /\ Same(img, new, Field \ {"inode"}) /\ new.inode = TimesBy(img.inode, Reached(img))
         /\ \A i \in Inode : /\ new.inode[i].mode = img.inode[i].mode
                             /\ new.inode[i].direct = img.inode[i].direct
                             /\ new.inode[i].indirect = img.inode[i].indirect
                             /\ i \in Reached(img) => ~new.inode[i].dtime
  <1> DEFINE reached == Reached(img)
             dtime(i) == img.inode[i].dtime /\ i \notin reached
             fs == [i \in Inode |-> [img.inode[i] EXCEPT !.dtime = img.inode[i].dtime /\ i \notin reached]]
  <1>1. Typed(img) /\ img.inode \in [Inode -> InodeRecord] /\ img \in Image
        /\ \A i \in Inode : FileOK(img.inode[i]) /\ img.inode[i].links \in Nat
    BY TypedIs, InodeIs DEF TypedRoot, Typed
  <1>2. new = PutInode(img, fs)
    BY DEF fix_deletion_times, PutInode
  <1>3. ASSUME NEW i \in Inode
        PROVE  fs[i] = FileWith(img.inode[i], img.inode[i].links, dtime(i))
    <2>1. fs[i] = [img.inode[i] EXCEPT !.dtime = dtime(i)]
      OBVIOUS
    <2>2. img.inode[i] \in InodeRecord
      BY <1>1
    <2> HIDE DEF dtime, fs
    <2> QED
      BY <2>1, <2>2, DtimePut, Zenon
  <1>4. \A i \in Inode : dtime(i) \in BOOLEAN
    OBVIOUS
  <1>5. DOMAIN fs = Inode /\ fs = [i \in Inode |-> fs[i]]
    OBVIOUS
  <1>11. fs = TimesBy(img.inode, Reached(img))
    BY DEF TimesBy
  <1> HIDE DEF fs, dtime
  <1>6. \A i \in Inode : fs[i] \in InodeRecord /\ FileOK(fs[i])
    BY <1>1, <1>3, <1>4, FileWithIs
  <1>7. fs \in [Inode -> InodeRecord]
    BY <1>5, <1>6
  <1>8. Typed(new) /\ Same(img, new, Field \ {"inode"}) /\ new.inode = fs
    BY <1>1, <1>2, <1>6, <1>7, FilePut
  <1>9. \A i \in Inode : /\ new.inode[i].mode = img.inode[i].mode
                         /\ new.inode[i].links = img.inode[i].links
                         /\ new.inode[i].dtime => img.inode[i].dtime
                         /\ new.inode[i].direct = img.inode[i].direct
                         /\ new.inode[i].indirect = img.inode[i].indirect
    <2>1. \A f, links, t : /\ FileWith(f, links, t).mode = f.mode /\ FileWith(f, links, t).links = links
                           /\ FileWith(f, links, t).direct = f.direct
                           /\ FileWith(f, links, t).indirect = f.indirect
                           /\ FileWith(f, links, t).dtime = t
      BY DEF FileWith
    <2>2. ASSUME NEW i \in Inode
          PROVE  new.inode[i] = FileWith(img.inode[i], img.inode[i].links, dtime(i))
      BY <1>3, <1>8
    <2>3. \A i \in Inode : dtime(i) => img.inode[i].dtime
      BY DEF dtime
    <2> QED
      BY <2>1, <2>2, <2>3
  <1>10. RootOK(new)
    <2>1. new.records = img.records /\ new.inode[Root].direct = img.inode[Root].direct
      BY <1>8, <1>9, NumbersFinite DEF Same, Field
    <2> QED
      BY <2>1 DEF RootOK, TypedRoot
  <1>12. Fixes(img, new)
    BY <1>8, <1>9, <1>10, WholeRefiled DEF Fixes, TypedRoot
  <1>13. ASSUME NEW i \in Reached(img), i \in Inode PROVE ~new.inode[i].dtime
    <2>1. new.inode[i] = FileWith(img.inode[i], img.inode[i].links, dtime(i))
      BY <1>3, <1>8, <1>13
    <2>2. ~dtime(i)
      BY DEF dtime
    <2> QED
      BY <2>1, <2>2 DEF FileWith
  <1> QED
    BY <1>8, <1>9, <1>11, <1>12, <1>13

(* nor are the types of the records, but for whether they name a           *)
(* directory.                                                              *)
Retypes(r, q) ==
  /\ DOMAIN q = DOMAIN r /\ q = [w \in DOMAIN r |-> q[w]]
  /\ \A w \in DOMAIN r : /\ q[w] \in Record /\ q[w].inode = r[w].inode /\ q[w].name = r[w].name
                         /\ q[w].rec_len = r[w].rec_len
                         /\ r[w].name = "/" => q[w] = r[w]

LEMMA Retyped ==
  ASSUME NEW r, BlockOK(r), NEW q, Retypes(r, q)
  PROVE  /\ BlockOK(q) /\ Walk(q) = Walk(r) /\ Live(q) = Live(r) /\ (DirBlock(r) => DirBlock(q))
         /\ GoneFrom(r, q)
         /\ \A w \in Live(r) : w \in DOMAIN r
  <1>1. q \in Written
    <2>1. PICK h \in 0 .. Words : r \in [0 .. h - 1 -> Record]
      BY WrittenIs DEF BlockOK
    <2>2. q \in [0 .. h - 1 -> Record]
      BY <2>1 DEF Retypes
    <2> QED
      BY <2>1, <2>2, WrittenIs
  <1>2. \A w \in DOMAIN r : Behind(q, w) = Behind(r, w)
    BY DEF Behind, Retypes
  <1>3. BlockOK(q)
    <2>1. ASSUME NEW w \in DOMAIN q
          PROVE  /\ w + q[w].rec_len <= Words
                 /\ IF q[w].name = "/" THEN q[w] = Rest
                    ELSE \A v \in w + 1 .. Behind(q, w) - 1 : v \in DOMAIN q /\ q[v].name = "/"
      BY <1>2 DEF Retypes, BlockOK
    <2> QED
      BY <1>1, <2>1 DEF BlockOK
  <1>4. \A w : WordAt(q, w).rec_len = WordAt(r, w).rec_len /\ WordAt(q, w).inode = WordAt(r, w).inode
    BY DEF WordAt, Retypes
  <1>5. Walk(q) = Walk(r)
    <2>1. [w \in 0 .. Words |-> w + WordAt(q, w).rec_len] = [w \in 0 .. Words |-> w + WordAt(r, w).rec_len]
      BY <1>4
    <2> QED
      BY <2>1 DEF Walk
  <1>6. Live(q) = Live(r)
    BY <1>4, <1>5 DEF Live
  <1>7. ASSUME DirBlock(r) PROVE DirBlock(q)
    <2> DEFINE C == Walk(r)
    <2>1. Chain(r, C) /\ C \subseteq DOMAIN r
      BY <1>7, DirBlockWords DEF DirBlock
    <2> HIDE DEF C
    <2>2. \A w \in C : q[w].rec_len = r[w].rec_len /\ q[w].name = r[w].name /\ w \in DOMAIN q
                       /\ Behind(q, w) = Behind(r, w)
      BY <1>2, <2>1 DEF Retypes
    <2>3. Chain(q, C)
      BY <2>1, <2>2 DEF Chain, Header
    <2> QED
      BY <1>3, <1>5, <2>3 DEF DirBlock, C
  <1>8. \A w \in Live(r) : w \in DOMAIN r
    BY RecordIs, Zenon DEF Live, WordAt
  <1>9. GoneFrom(r, q)
    BY <1>5 DEF GoneFrom, Gone, Retypes
  <1> QED
    BY <1>3, <1>5, <1>6, <1>7, <1>8, <1>9

LEMMA RetypedTyped ==
  ASSUME NEW img, TypedRoot(img), NEW rs, rs = [b \in Block |-> rs[b]],
         \A b \in Block : Retypes(img.records[b], rs[b]), NEW new, new = PutRecords(img, rs)
  PROVE  TypedRoot(new) /\ Same(img, new, Field \ {"records"}) /\ new.records = rs
  <1>1. Typed(img) /\ img \in Image /\ \A b \in Block : BlockOK(img.records[b])
    BY DEF TypedRoot, Typed
  <1>2. \A b \in Block : BlockOK(rs[b])
    BY <1>1, Retyped
  <1>3. rs \in [Block -> Written]
    BY <1>2 DEF BlockOK
  <1>4. new.records = rs /\ Same(img, new, Field \ {"records"})
    BY <1>1, <1>3, PutIs
  <1>5. new \in Image /\ new.inode = img.inode /\ new.pointers = img.pointers
    BY <1>4 DEF Same, Field
  <1>6. Typed(new)
    BY <1>1, <1>2, <1>4, <1>5 DEF Typed
  <1>7. RootOK(new)
    <2> DEFINE b == img.inode[Root].direct[1]
    <2>1. b \in Block
      <3>1. img.inode[Root] \in InodeRecord
        BY <1>1, TypedIs, NumbersFinite
      <3>2. img.inode[Root].direct \in Seq(Block) /\ img.inode[Root].direct # <<>>
        BY <3>1, InodeIs DEF TypedRoot, RootOK
      <3>3. 1 \in 1 .. Len(img.inode[Root].direct)
        BY <3>2
      <3> QED
        BY <3>1, <3>3, InodeIs
    <2>2. img.inode[Root].direct # <<>> /\ 0 \in DOMAIN img.records[b]
          /\ IsRoot(img.records[b][0])
      BY DEF TypedRoot, RootOK
    <2>3. 0 \in DOMAIN rs[b] /\ IsRoot(rs[b][0])
      BY <2>1, <2>2 DEF Retypes, IsRoot
    <2> QED
      BY <1>4, <1>5, <2>2, <2>3, Zenon DEF RootOK
  <1> QED
    BY <1>4, <1>6, <1>7 DEF TypedRoot

(* TypeSays: the record's type is "dir" when its inode is a directory      *)
TypeSays(img, record) == record.type = "dir" <=> IsDir(img, record.inode)

LEMMA RetypedWhole ==
  ASSUME NEW img, WholeImage(img), NEW new, Typed(new), RootOK(new), Same(img, new, Field \ {"records"}),
         \A b \in Block : Retypes(img.records[b], new.records[b]),
         \A s \in Slots(img) : \A w \in Live(Content(img, s)) : TypeSays(img, Content(new, s)[w])
  PROVE  WholeImage(new) /\ SameNames(img, new)
  <1>1. Typed(img) /\ Sane(img) /\ DirsCounted(img) /\ Accounted(img)
    BY DEF WholeImage, Sane
  <1>2. /\ Accounted(new) /\ UsedDirectories(new) = UsedDirectories(img) /\ Slots(new) = Slots(img)
    BY <1>1, RecordsOnly
  <1>3. /\ new.inode_bitmap = img.inode_bitmap /\ new.inode = img.inode /\ new.gd = img.gd
    BY DEF Same, Field
  <1>4. \A s \in Slots(img) :
          /\ BlockOK(Content(img, s)) /\ Retypes(Content(img, s), Content(new, s))
    <2> TAKE s \in Slots(img)
    <2>1. img.inode[s[1]].direct[s[2]] \in Block /\ BlockOK(Content(img, s))
      BY <1>1, SlotIs
    <2> QED
      BY <1>3, <2>1, Zenon DEF Content
  <1>5. \A s \in Slots(img) :
          /\ Live(Content(new, s)) = Live(Content(img, s))
          /\ \A w \in Live(Content(img, s)) : /\ Content(new, s)[w].inode = Content(img, s)[w].inode
                                              /\ Content(new, s)[w].name = Content(img, s)[w].name
          /\ GoneFrom(Content(img, s), Content(new, s))
    BY <1>4, Retyped DEF Retypes
  <1>6. /\ LiveRecords(new) = LiveRecords(img)
        /\ \A x \in LiveRecords(img) : Entry(new, x).inode = Entry(img, x).inode
        /\ \A i : Pointing(new, i) = Pointing(img, i)
        /\ Named(new) = Named(img) /\ Ghosts(new) \subseteq Ghosts(img)
    BY <1>1, <1>2, <1>5, NamesSame
  <1>7. ASSUME NEW x \in LiveRecords(new)
        PROVE  Entry(new, x).inode \in new.inode_bitmap /\ TypeSays(new, Entry(new, x))
    <2>1. PICK s \in Slots(new) : \E w \in Live(Content(new, s)) : x = Place(s, w)
      BY PlaceIs
    <2>2. PICK w \in Live(Content(new, s)) : x = Place(s, w)
      BY <2>1
    <2>3. Entry(new, x) = Content(new, s)[w]
      BY <2>2, PlaceIs
    <2>4. TypeSays(img, Entry(new, x))
      BY <1>2, <1>5, <2>3
    <2>5. TypeSays(new, Entry(new, x))
      BY <1>3, <2>4 DEF TypeSays, IsDir
    <2>6. Entry(img, x).inode \in img.inode_bitmap
      BY <1>1, <1>6, LiveNames DEF Sane
    <2> QED
      BY <1>3, <1>6, <2>5, <2>6
  <1>8. NamesOK(new)
    BY <1>7 DEF NamesOK, Entry, TypeSays
  <1>9. LinksOK(new)
    BY <1>1, <1>3, <1>6 DEF Sane, LinksOK
  <1>10. DirsOK(new)
    <2>1. \A s \in Slots(img) : DirBlock(Content(new, s))
      BY <1>1, <1>4, Retyped DEF Sane, DirsOK
    <2> QED
      BY <1>1, <1>2, <1>3, <2>1 DEF Sane, DirsOK
  <1>11. Root \in new.inode_bitmap /\ IsDir(new, Root)
    BY <1>1, <1>3 DEF Sane, IsDir
  <1>12. DirsCounted(new)
    BY <1>1, <1>2, <1>3 DEF DirsCounted
  <1> QED
    BY <1>2, <1>6, <1>8, <1>9, <1>10, <1>11, <1>12 DEF WholeImage, Sane, SameNames

RetypedBy(records, inode, visited) ==
  [b \in Block |-> [w \in DOMAIN records[b] |->
     IF <<b, w>> \in visited
     THEN [records[b][w] EXCEPT !.type = dir_entry_file_type(inode[records[b][w].inode].mode)]
     ELSE records[b][w]]]

LEMMA FileTypesFixed ==
  ASSUME NEW img, TypedRoot(img), NEW new, new = fix_file_types(img)
  PROVE  /\ Fixes(img, new)
         /\ Same(img, new, Field \ {"records"})
         /\ new.records = RetypedBy(img.records, img.inode, Visited(img))
         /\ \A b \in Block : Retypes(img.records[b], new.records[b])
         /\ \A p \in Visited(img) :
              WordOf(new, p).type = dir_entry_file_type(img.inode[WordOf(img, p).inode].mode)
  <1> DEFINE visited == Visited(img)
             Fixed(record) == [record EXCEPT !.type = dir_entry_file_type(img.inode[record.inode].mode)]
             rs == [b \in Block |-> [w \in DOMAIN img.records[b] |->
                      IF <<b, w>> \in visited THEN Fixed(img.records[b][w]) ELSE img.records[b][w]]]
  <1>1. Typed(img) /\ RootOK(img) /\ \A b \in Block : BlockOK(img.records[b])
    BY DEF TypedRoot, Typed
  <1>2. new = PutRecords(img, rs)
    BY DEF fix_file_types, PutRecords
  <1>3. \A mode : dir_entry_file_type(mode) \in Type /\ (dir_entry_file_type(mode) = "dir" <=> mode = "dir")
    BY DEF dir_entry_file_type, Type
  <1>4. ASSUME NEW record \in Record
        PROVE  /\ Fixed(record) \in Record /\ Fixed(record).inode = record.inode
               /\ Fixed(record).name = record.name /\ Fixed(record).rec_len = record.rec_len
               /\ Fixed(record).type = dir_entry_file_type(img.inode[record.inode].mode)
    BY <1>3, Zenon DEF Record
  <1>5. \A b \in Block : DOMAIN rs[b] = DOMAIN img.records[b]
    OBVIOUS
  <1>6. \A b \in Block : \A w \in DOMAIN img.records[b] :
          rs[b][w] = IF <<b, w>> \in visited THEN Fixed(img.records[b][w]) ELSE img.records[b][w]
    OBVIOUS
  <1>7. \A b \in Block : rs[b] = [w \in DOMAIN img.records[b] |-> rs[b][w]]
    OBVIOUS
  <1>8. rs = [b \in Block |-> rs[b]]
    OBVIOUS
  <1>12. rs = RetypedBy(img.records, img.inode, Visited(img))
    BY DEF RetypedBy
  <1> HIDE DEF rs, Fixed, visited
  <1>9. ASSUME NEW b \in Block PROVE Retypes(img.records[b], rs[b])
    <2>1. ASSUME NEW w \in DOMAIN img.records[b]
          PROVE  /\ rs[b][w] \in Record /\ rs[b][w].inode = img.records[b][w].inode
                 /\ rs[b][w].name = img.records[b][w].name
                 /\ rs[b][w].rec_len = img.records[b][w].rec_len
                 /\ img.records[b][w].name = "/" => rs[b][w] = img.records[b][w]
      <3>1. img.records[b][w] \in Record
        BY <1>1, BlockDomain DEF BlockOK
      <3>2. CASE <<b, w>> \in visited
        <4>1. img.records[b][w].name # "/"
          BY <1>1, <3>2, VisitedTyped DEF visited, WordOf
        <4> QED
          BY <1>4, <1>6, <3>1, <3>2, <4>1
      <3>3. CASE <<b, w>> \notin visited
        BY <1>6, <3>1, <3>3
      <3> QED
        BY <3>2, <3>3
    <2> QED
      BY <1>5, <1>7, <2>1 DEF Retypes
  <1>10. TypedRoot(new) /\ Same(img, new, Field \ {"records"}) /\ new.records = rs
    BY <1>2, <1>8, <1>9, RetypedTyped
  <1>11. ASSUME WholeImage(img) PROVE WholeImage(new) /\ SameNames(img, new)
    <2>1. ASSUME NEW s \in Slots(img), NEW w \in Live(Content(img, s))
          PROVE  TypeSays(img, Content(new, s)[w])
      <3> DEFINE b == SlotBlock(img, s)
                 record == Content(img, s)[w]
      <3>1. b \in Block /\ Content(img, s) = img.records[b] /\ BlockOK(Content(img, s))
        BY <1>1, SlotIs, Zenon DEF SlotBlock, Content
      <3>2. w \in DOMAIN img.records[b]
        BY <3>1, RecordIs, Zenon DEF Live, WordAt
      <3>3. record \in Record
        BY <3>1, <3>2, BlockDomain DEF BlockOK
      <3>4. Content(new, s) = rs[b]
        BY <1>10 DEF Same, Field, Content, SlotBlock
      <3>5. Place(s, w) \in LiveRecords(img) /\ Entry(img, Place(s, w)) = record
        BY <1>1, PlaceIs
      <3> HIDE DEF b
      <3>6. CASE <<b, w>> \in visited
        <4>1. rs[b][w] = Fixed(record)
          BY <1>6, <3>1, <3>2, <3>6
        <4> HIDE DEF record
        <4> QED
          BY <1>3, <1>4, <3>3, <3>4, <4>1 DEF TypeSays, IsDir
      <3>7. CASE <<b, w>> \notin visited
        <4>1. rs[b][w] = record
          BY <1>6, <3>1, <3>2, <3>7
        <4>2. TypeSays(img, record)
          BY <1>11, <3>5, LiveNames DEF WholeImage, Sane, TypeSays
        <4> QED
          BY <3>4, <4>1, <4>2
      <3> QED
        BY <3>6, <3>7
    <2>2. Typed(new) /\ RootOK(new) /\ \A b \in Block : Retypes(img.records[b], new.records[b])
      BY <1>9, <1>10 DEF TypedRoot
    <2> QED
      BY <1>10, <1>11, <2>1, <2>2, RetypedWhole
  <1>13. ASSUME NEW p \in Visited(img)
         PROVE  WordOf(new, p).type = dir_entry_file_type(img.inode[WordOf(img, p).inode].mode)
    <2>1. /\ p[1] \in Block /\ p[2] \in DOMAIN img.records[p[1]] /\ <<p[1], p[2]>> \in visited
          /\ img.records[p[1]][p[2]] \in Record
      BY <1>1, VisitedTyped DEF visited, WordOf
    <2>2. rs[p[1]][p[2]] = Fixed(img.records[p[1]][p[2]])
      BY <1>6, <2>1
    <2> QED
      BY <1>4, <1>10, <2>1, <2>2 DEF WordOf
  <1> QED
    BY <1>9, <1>10, <1>11, <1>12, <1>13 DEF Fixes

LEMMA FixesBoth ==
  ASSUME NEW img, NEW mid, NEW new, Fixes(img, mid), Fixes(mid, new)
  PROVE  Fixes(img, new)
  BY DEF Fixes, SameNames

LEMMA EntriesFixed ==
  ASSUME NEW img, TypedRoot(img), NEW new, new = fix_dir_entries_recursively(img)
  PROVE  Fixes(img, new)
  <1> DEFINE one == fix_file_types(img)
             two == fix_inode_allocation(one)
             three == fix_deletion_times(two)
  <1>1. new = fix_block_allocation(three)
    BY DEF fix_dir_entries_recursively
  <1>2. Fixes(img, one)
    BY FileTypesFixed
  <1> HIDE DEF one
  <1>3. Fixes(one, two)
    BY <1>2, InodeAllocationFixed DEF Fixes
  <1> HIDE DEF two
  <1>4. Fixes(two, three)
    BY <1>3, DeletionTimesFixed DEF Fixes
  <1> HIDE DEF three
  <1>5. Fixes(three, new)
    BY <1>1, <1>4, BlockAllocationFixed DEF Fixes
  <1> QED
    BY <1>2, <1>3, <1>4, <1>5 DEF Fixes, SameNames

LEMMA CheckFixes ==
  ASSUME NEW img, TypedRoot(img), NEW new, new \in {CountsFirst(img), EntriesFirst(img)}
  PROVE  Fixes(img, new)
  <1> DEFINE one == fix_root_mode(img)
             counted == fix_free_counts(one)
             entered == fix_dir_entries_recursively(one)
  <1>1. \/ new = fix_dir_entries_recursively(counted)
        \/ new = fix_free_counts(entered)
    BY DEF CountsFirst, EntriesFirst
  <1>2. Fixes(img, one)
    BY RootModeFixed
  <1> HIDE DEF one
  <1>3. Fixes(one, counted) /\ Fixes(one, entered)
    BY <1>2, FreeCountsFixed, EntriesFixed DEF Fixes
  <1> HIDE DEF counted, entered
  <1>4. CASE new = fix_dir_entries_recursively(counted)
    <2>1. Fixes(counted, new)
      BY <1>3, <1>4, EntriesFixed DEF Fixes
    <2> QED
      BY <1>2, <1>3, <2>1 DEF Fixes, SameNames
  <1>5. CASE new = fix_free_counts(entered)
    <2>1. Fixes(entered, new)
      BY <1>3, <1>5, FreeCountsFixed DEF Fixes
    <2> QED
      BY <1>2, <1>3, <2>1 DEF Fixes, SameNames
  <1> QED
    BY <1>1, <1>4, <1>5
-----------------------------------------------------------------------------
LEMMA PutSuperIs ==
  ASSUME NEW img \in Image, NEW v \in [free_inodes : Int, free_blocks : Int],
         NEW new, new = PutSuper(img, v)
  PROVE  new.sb = v /\ Same(img, new, Field \ {"sb"})
  BY UpdateIs DEF PutSuper

(* The corruptor changes no length, no name and no pointer.                *)
LEMMA OffTyped ==
  ASSUME TypedRoot(image), NEW new \in Off
  PROVE  TypedRoot(new)
  <1> DEFINE SB == [free_inodes : Int, free_blocks : Int]
             GD == [free_inodes : Int, free_blocks : Int, used_dirs : Int]
  <1>1. image \in Image /\ image.sb \in SB /\ image.gd \in GD
    BY TypedIs DEF TypedRoot, Typed
  <1>2. \/ \E v \in SB : new = PutSuper(image, v)
        \/ \E v \in GD : new = PutGroup(image, v)
    <2>1. CASE new = [image EXCEPT !.sb.free_inodes = @ + 1]
      <3> DEFINE v == [image.sb EXCEPT !.free_inodes = @ + 1]
      <3>1. new = PutSuper(image, v) /\ v \in SB
        BY <1>1, <2>1 DEF PutSuper
      <3> QED
        BY <3>1
    <2>2. CASE new = [image EXCEPT !.sb.free_blocks = @ - 1]
      <3> DEFINE v == [image.sb EXCEPT !.free_blocks = @ - 1]
      <3>1. new = PutSuper(image, v) /\ v \in SB
        BY <1>1, <2>2 DEF PutSuper
      <3> QED
        BY <3>1
    <2>3. CASE new = [image EXCEPT !.gd.free_inodes = @ - 1]
      <3> DEFINE v == [image.gd EXCEPT !.free_inodes = @ - 1]
      <3>1. new = PutGroup(image, v) /\ v \in GD
        BY <1>1, <2>3 DEF PutGroup
      <3> QED
        BY <3>1
    <2>4. CASE new = [image EXCEPT !.gd.free_blocks = @ + 1]
      <3> DEFINE v == [image.gd EXCEPT !.free_blocks = @ + 1]
      <3>1. new = PutGroup(image, v) /\ v \in GD
        BY <1>1, <2>4 DEF PutGroup
      <3> QED
        BY <3>1
    <2> QED
      BY <2>1, <2>2, <2>3, <2>4 DEF Off
  <1>3. Same(image, new, Field \ {"sb"}) \/ Same(image, new, Field \ {"gd"})
    <2>1. CASE \E v \in SB : new = PutSuper(image, v)
      <3>1. PICK v \in SB : new = PutSuper(image, v)
        BY <2>1
      <3> QED
        BY <1>1, <3>1, PutSuperIs
    <2>2. CASE \E v \in GD : new = PutGroup(image, v)
      <3>1. PICK v \in GD : new = PutGroup(image, v)
        BY <2>2
      <3> QED
        BY <1>1, <3>1, PutGroupIs
    <2> QED
      BY <1>2, <2>1, <2>2
  <1>4. Same(image, new, {"inode", "records", "pointers"})
    BY <1>3 DEF Same, Field
  <1> QED
    BY <1>4, TypesKept

LEMMA LostTyped ==
  ASSUME TypedRoot(image), NEW new \in Lost
  PROVE  TypedRoot(new)
  <1>1. image \in Image /\ image.inode_bitmap \subseteq Inode /\ image.block_bitmap \subseteq Block
    BY TypedIs DEF TypedRoot, Typed
  <1>2. \/ \E v \in SUBSET Inode : new = PutInodeBitmap(image, v)
        \/ \E v \in SUBSET Block : new = PutBlockBitmap(image, v)
    <2>1. CASE new \in {[image EXCEPT !.inode_bitmap = @ \ {i}] : i \in image.inode_bitmap}
      <3>1. PICK i \in image.inode_bitmap : new = PutInodeBitmap(image, image.inode_bitmap \ {i})
        BY <2>1 DEF PutInodeBitmap
      <3>2. image.inode_bitmap \ {i} \in SUBSET Inode
        BY <1>1
      <3> QED
        BY <3>1, <3>2
    <2>2. CASE new \in {[image EXCEPT !.block_bitmap = @ \ {b}] : b \in image.block_bitmap}
      <3>1. PICK b \in image.block_bitmap : new = PutBlockBitmap(image, image.block_bitmap \ {b})
        BY <2>2 DEF PutBlockBitmap
      <3>2. image.block_bitmap \ {b} \in SUBSET Block
        BY <1>1
      <3> QED
        BY <3>1, <3>2
    <2> QED
      BY <2>1, <2>2 DEF Lost
  <1>3. Same(image, new, Field \ {"inode_bitmap"}) \/ Same(image, new, Field \ {"block_bitmap"})
    BY <1>1, <1>2, PutBitmapIs
  <1>4. Same(image, new, {"inode", "records", "pointers"})
    BY <1>3 DEF Same, Field
  <1> QED
    BY <1>4, TypesKept

LEMMA LinksPutTyped ==
  ASSUME NEW img, TypedRoot(img), NEW i, NEW links, NEW dtime, NEW new, LinksPut(img, new, i, links, dtime)
  PROVE  TypedRoot(new)
  <1>1. Typed(new) /\ new.records = img.records /\ new.inode[Root].direct = img.inode[Root].direct
    BY NumbersFinite DEF LinksPut, Same, Field
  <1> QED
    BY <1>1 DEF TypedRoot, RootOK

LEMMA MarkedTyped ==
  ASSUME TypedRoot(image), NEW new \in Marked
  PROVE  TypedRoot(new)
  <1>1. CASE new \in {[image EXCEPT !.inode[i].dtime = TRUE] : i \in image.inode_bitmap}
    <2>1. PICK i \in image.inode_bitmap : new = Buried(image, i)
      BY <1>1 DEF Buried
    <2>2. i \in Inode /\ Typed(image)
      BY TypedIs DEF TypedRoot
    <2>3. LinksPut(image, new, i, image.inode[i].links, TRUE)
      BY <2>1, <2>2, InodeBuried
    <2> QED
      BY <2>3, LinksPutTyped
  <1>2. CASE new \in {[image EXCEPT !.inode[Root].mode = t] : t \in {"unknown", "reg"}}
    <2>1. PICK t \in {"unknown", "reg"} : new = Remoded(image, Root, t)
      BY <1>2 DEF Remoded
    <2> DEFINE i == Root
    <2>2. t \in Mode /\ i \in Inode /\ new = Remoded(image, i, t)
      BY <2>1, NumbersFinite DEF Mode, Type
    <2> HIDE DEF i
    <2>3. RemodedTo(image, new, i, t)
      BY <2>2, InodeRemoded
    <2> QED
      BY <2>3 DEF RemodedTo
  <1> QED
    BY <1>1, <1>2 DEF Marked

LEMMA MistypedTyped ==
  ASSUME TypedRoot(image), NEW new \in Mistyped
  PROVE  TypedRoot(new)
  <1>1. PICK p \in Visited(image), t \in {"reg", "dir"} :
          new = [image EXCEPT !.records[p[1]][p[2]].type = t]
    <2> DEFINE of(p, t) == [image EXCEPT !.records[p[1]][p[2]].type = t]
    <2>1. Mistyped = {of(p, t) : p \in Visited(image), t \in {"reg", "dir"}}
      BY DEF Mistyped
    <2> HIDE DEF of
    <2>2. \E p \in Visited(image), t \in {"reg", "dir"} : new = of(p, t)
      BY <2>1
    <2> QED
      BY <2>2 DEF of
  <1> DEFINE b == p[1]
             w == p[2]
             r == image.records[b]
             record == [r[w] EXCEPT !.type = t]
             q == [r EXCEPT ![w] = record]
             rs == [image.records EXCEPT ![b] = q]
  <1>2. /\ b \in Block /\ w \in DOMAIN r /\ r[w] \in Record /\ r[w].name # "/"
    BY VisitedTyped DEF TypedRoot, WordOf
  <1>3. /\ image \in Image /\ image.records \in [Block -> Written]
        /\ \A c \in Block : BlockOK(image.records[c])
    BY TypedIs DEF TypedRoot, Typed
  <1>4. new = PutRecords(image, rs)
    BY <1>1 DEF PutRecords
  <1>5. /\ record \in Record /\ record.inode = r[w].inode /\ record.name = r[w].name
        /\ record.rec_len = r[w].rec_len
    BY <1>2, Zenon DEF Record, Type
  <1>6. \A c \in Block : \A v \in DOMAIN image.records[c] : image.records[c][v] \in Record
    BY <1>3, BlockDomain DEF BlockOK
  <1>7. \A c \in Block : \E h \in 0 .. Words : image.records[c] \in [0 .. h - 1 -> Record]
    BY <1>3, WrittenIs
  <1>8. rs = [c \in Block |-> rs[c]] /\ \A c \in Block : rs[c] = IF c = b THEN q ELSE image.records[c]
    BY <1>3
  <1> HIDE DEF rs, record
  <1>9. \A c \in Block : Retypes(image.records[c], rs[c])
    <2> TAKE c \in Block
    <2>1. image.records[c] = [v \in DOMAIN image.records[c] |-> image.records[c][v]]
      BY <1>7
    <2>2. CASE c = b
      <3>1. /\ DOMAIN q = DOMAIN r /\ q = [v \in DOMAIN r |-> q[v]]
            /\ \A v \in DOMAIN r : q[v] = IF v = w THEN record ELSE r[v]
        BY <1>2, <2>1, <2>2
      <3> HIDE DEF q
      <3>2. rs[c] = q /\ image.records[c] = r
        BY <1>8, <2>2
      <3> QED
        BY <1>2, <1>5, <1>6, <2>2, <3>1, <3>2 DEF Retypes
    <2>3. CASE c # b
      BY <1>6, <1>8, <2>1, <2>3 DEF Retypes
    <2> QED
      BY <2>2, <2>3
  <1> HIDE DEF b, w, r, q
  <1> QED
    BY <1>4, <1>8, <1>9, RetypedTyped

LEMMA CorruptTyped ==
  ASSUME TypedRoot(image), Corrupt
  PROVE  TypedRoot(image')
  BY OffTyped, LostTyped, MarkedTyped, MistypedTyped DEF Corrupt
-----------------------------------------------------------------------------
(* Whatever the corruptor did, the image has its types and the root a "."  *)
(* to begin with; one that it did not touch is consistent.                 *)
IInv ==
  /\ Typed(image) /\ status \in Status /\ runs \in 0 .. MaxRuns
  /\ status \in {"whole", "corrupt"} => TypedRoot(image)
  /\ Whole => WholeImage(image)

WholeStep == Whole /\ Whole' => Changes(image, image')

LEMMA RunKeeps ==
  ASSUME IInv, NEW out, WholeImage(image) => ToolDoes(image, out), Run(out)
  PROVE  IInv' /\ WholeStep
  <1>1. ToolOK(out) /\ image' = out.image /\ runs < MaxRuns
    BY DEF IInv, Run, Whole, ToolDoes
  <1>2. /\ status' \in Status
        /\ status' \in {"whole", "corrupt"} => out.exit \notin {"half", "undefined"}
    BY DEF Run, Status
  <1>3. runs' \in 0 .. MaxRuns
    BY <1>1, RunsAssumption DEF IInv, Run, Count
  <1>4. Typed(image') /\ (status' \in {"whole", "corrupt"} => WholeImage(image'))
    BY <1>1, <1>2 DEF ToolOK
  <1>5. status' \in {"whole", "corrupt"} => TypedRoot(image')
    BY <1>4 DEF TypedRoot, WholeImage, Sane
  <1>6. Whole' => Changes(image, image')
    BY <1>1, <1>2 DEF IInv, Run, Whole, ToolDoes
  <1> QED
    BY <1>2, <1>3, <1>4, <1>5, <1>6 DEF IInv, Whole, WholeStep

LEMMA ToolsKeep ==
  ASSUME IInv, Mkdir \/ Cp \/ Ln \/ LnSymbolic \/ Rm \/ Restore
  PROVE  IInv' /\ WholeStep
  <1>1. Directories = UsedDirectories(image)
    BY DEF Directories, UsedDirectories
  <1>2. CASE Mkdir
    <2>1. PICK d \in Directories, n \in Given : Run(mkdir(image, d, n))
      BY <1>2 DEF Mkdir
    <2>2. WholeImage(image) => ToolDoes(image, mkdir(image, d, n))
      BY <1>1, MkdirWhole
    <2> QED
      BY <2>1, <2>2, RunKeeps
  <1>3. CASE Cp
    <2>1. PICK d \in Directories, n \in Given, size \in 0 .. Direct + Pointers + 1 : Run(cp(image, d, n, size))
      BY <1>3 DEF Cp
    <2>2. size \in Nat
      BY SizeAssumption
    <2>3. WholeImage(image) => ToolDoes(image, cp(image, d, n, size))
      BY <1>1, <2>2, CpWhole
    <2> QED
      BY <2>1, <2>3, RunKeeps
  <1>4. CASE Ln
    <2>1. PICK source \in Entries, d \in Directories, n \in Given : Run(ln(image, source, d, n))
      BY <1>4 DEF Ln
    <2>2. PICK c \in Directories : source \in {RecordAt(image, c, e) : e \in LiveEntries(image, c)}
      BY <2>1 DEF Entries
    <2>3. PICK e \in LiveEntries(image, c) : source = RecordAt(image, c, e)
      BY <2>2
    <2>4. WholeImage(image) => ToolDoes(image, ln(image, source, d, n))
      BY <1>1, <2>3, LnWhole
    <2> QED
      BY <2>1, <2>4, RunKeeps
  <1>5. CASE LnSymbolic
    <2>1. PICK d \in Directories, n \in Given : Run(ln_s(image, d, n))
      BY <1>5 DEF LnSymbolic
    <2>2. WholeImage(image) => ToolDoes(image, ln_s(image, d, n))
      BY <1>1, LnSymbolicWhole
    <2> QED
      BY <2>1, <2>2, RunKeeps
  <1>6. CASE Rm
    <2>1. PICK d \in Directories, n \in Given : Run(delete_file_entry(image, d, n))
      BY <1>6 DEF Rm
    <2>2. WholeImage(image) => ToolDoes(image, delete_file_entry(image, d, n))
      BY <1>1, RmWhole
    <2> QED
      BY <2>1, <2>2, RunKeeps
  <1>7. CASE Restore
    <2>1. PICK d \in Directories, n \in Given : Run(restore_file(image, d, n))
      BY <1>7 DEF Restore
    <2>2. WholeImage(image) => ToolDoes(image, restore_file(image, d, n))
      BY <1>1, RestoreWhole
    <2> QED
      BY <2>1, <2>2, RunKeeps
  <1> QED
    BY <1>2, <1>3, <1>4, <1>5, <1>6, <1>7

LEMMA StepKeeps ==
  ASSUME IInv, [Next]_vars
  PROVE  IInv' /\ WholeStep
  <1>1. CASE Corrupt
    <2>1. status \in {"whole", "corrupt"} /\ status' = "corrupt"
      BY <1>1 DEF Corrupt
    <2>2. TypedRoot(image')
      BY <1>1, <2>1, CorruptTyped DEF IInv
    <2>3. runs' \in 0 .. MaxRuns
      BY <1>1, RunsAssumption DEF IInv, Corrupt, Count
    <2> QED
      BY <2>1, <2>2, <2>3 DEF IInv, Whole, WholeStep, Status, TypedRoot
  <1>2. CASE Check
    <2>1. status \in {"whole", "corrupt"} /\ status' = status
      BY <1>2 DEF Check
    <2>2. Fixes(image, image')
      BY <1>2, <2>1, CheckFixes DEF IInv, Check
    <2>3. runs' \in 0 .. MaxRuns
      BY <1>2, RunsAssumption DEF IInv, Check, Count
    <2> QED
      BY <2>1, <2>2, <2>3 DEF IInv, Whole, WholeStep, Changes, Fixes, TypedRoot
  <1>3. CASE UNCHANGED vars
    BY <1>3 DEF IInv, Whole, WholeStep, Changes, SameNames, vars
  <1> QED
    BY <1>1, <1>2, <1>3, ToolsKeep DEF Next, Done
-----------------------------------------------------------------------------
(* The root directory as mke2fs writes it, and the names that were entered *)
(* behind it and removed.                                                  *)
RootRecords ==
  [w \in 0 .. 5 |->
     CASE w = 0 -> [inode |-> Root, rec_len |-> 3, name |-> ".", type |-> "dir"]
       [] w = 3 -> [inode |-> Root, rec_len |-> Words - 3, name |-> "..", type |-> "dir"]
       [] w \notin {0, 3} -> Rest]

Unused(r, x) ==
  /\ DirBlock(r) /\ DOMAIN r = 0 .. x - 1 /\ Walk(r) = {0, 3}
  /\ \A w \in {0, 3} : r[w] = RootRecords[w]

LEMMA RootRecordsAre ==
  Unused(RootRecords, 6)
  <1> DEFINE r == RootRecords
             dot == EntryFor(Root, 3, ".", "dir")
             dots == EntryFor(Root, Words - 3, "..", "dir")
  <1>1. Words \in Nat /\ Words >= 13 /\ Root \in Inode
    BY WordsNat, NumbersFinite
  <1>2. /\ DOMAIN r = 0 .. 5 /\ r = [w \in 0 .. 5 |-> r[w]]
        /\ r[0] = dot /\ r[3] = dots /\ \A w \in {1, 2, 4, 5} : r[w] = Rest
    BY DEF RootRecords, EntryFor
  <1>3. /\ dot \in Record /\ dots \in Record /\ dot.rec_len = 3 /\ dots.rec_len = Words - 3
        /\ dot.name = "." /\ dots.name = ".."
    BY <1>1, EntryForIs DEF Type
  <1>4. actual_len(".") = 3 /\ actual_len("..") = 3
    BY NameAssumption, Zenon DEF actual_len
  <1> HIDE DEF r, dot, dots
  <1>5. \A w \in 0 .. 5 : w \in {0, 3} \/ w \in {1, 2, 4, 5}
    OBVIOUS
  <1> DEFINE rest == Rest
  <1>a. rest \in Record /\ rest.rec_len = 0 /\ rest.name = "/" /\ r[1] = rest /\ r[2] = rest /\ r[4] = rest
        /\ r[5] = rest
    BY <1>2, RecordIs, Zenon
  <1> HIDE DEF rest
  <1>b. \A w \in 0 .. 5 : r[w] \in Record
    BY <1>2, <1>3, <1>5, <1>a
  <1>6. r \in [0 .. 6 - 1 -> Record] /\ 6 \in 0 .. Words
    <2>1. r \in [0 .. 5 -> Record]
      BY <1>2, <1>b
    <2> QED
      BY <1>1, <2>1
  <1>7. r \in Written
    BY <1>6, WrittenIs
  <1>8. BlockOK(r)
    <2> SUFFICES ASSUME NEW w \in 0 .. 5
                 PROVE  /\ w + r[w].rec_len <= Words
                        /\ IF r[w].name = "/" THEN r[w] = Rest
                           ELSE \A v \in w + 1 .. Behind(r, w) - 1 : v \in DOMAIN r /\ r[v].name = "/"
      BY <1>2, <1>7 DEF BlockOK
    <2>1. CASE w \in {1, 2, 4, 5}
      BY <1>1, <1>2, <1>a, <2>1 DEF rest
    <2>2. CASE w = 0
      <3>1. Behind(r, w) = 3 /\ r[w].name # "/" /\ r[w].rec_len = 3
        BY <1>2, <1>3, <1>4, <2>2 DEF Behind
      <3>2. \A v \in w + 1 .. Behind(r, w) - 1 : v \in {1, 2}
        BY <2>2, <3>1
      <3> QED
        BY <1>1, <1>2, <1>a, <2>2, <3>1, <3>2
    <2>3. CASE w = 3
      <3>1. Behind(r, w) = 6 /\ r[w].name # "/" /\ r[w].rec_len = Words - 3
        BY <1>2, <1>3, <1>4, <2>3 DEF Behind
      <3>2. \A v \in w + 1 .. Behind(r, w) - 1 : v \in {4, 5}
        BY <2>3, <3>1
      <3> QED
        BY <1>1, <1>2, <1>a, <2>3, <3>1, <3>2
    <2> QED
      BY <1>5, <2>1, <2>2, <2>3
  <1>9. Chain(r, {0, 3})
    BY <1>1, <1>2, <1>3, <1>4 DEF Chain, Header, Behind
  <1>10. Walk(r) = {0, 3}
    BY <1>8, <1>9, ChainIsWalk
  <1> QED
    BY <1>2, <1>8, <1>9, <1>10 DEF Unused, DirBlock, r

LEMMA UnusedFilled ==
  ASSUME NEW r, NEW x \in Nat, x >= 6, Unused(r, x), NEW i \in Inode, NEW n \in Name,
         x + actual_len(n) <= Words,
         NEW new, new = Fill(r, x, EntryFor(i, Words - x, n, "reg"))
  PROVE  Unused(new, x + actual_len(n))
  <1> DEFINE record == EntryFor(i, Words - x, n, "reg")
             a == actual_len(n)
  <1>1. a \in 3 .. 4 /\ Words \in Nat /\ x \in 0 .. Words - 1 /\ Words - x \in 0 .. Words
    BY LengthIs, WordsNat
  <1>2. record \in Record /\ record.name = n /\ record.name # "/" /\ record.rec_len = Words - x
    BY <1>1, EntryForIs DEF Type
  <1>3. DirBlock(r) /\ BlockOK(r) /\ DOMAIN r = 0 .. x - 1 /\ Walk(r) = {0, 3}
    BY DEF Unused, DirBlock
  <1> HIDE DEF record
  <1>4. \A p \in DOMAIN r : Header(r, p) /\ p < x => Behind(r, p) <= x
    BY <1>3, HeaderInside
  <1>5. x - 1 \in DOMAIN r /\ x + record.rec_len <= Words
    BY <1>1, <1>2, <1>3
  <1>6. /\ BlockOK(new)
        /\ \A w \in DOMAIN r : w < x => w \in DOMAIN new /\ new[w] = r[w]
    BY <1>1, <1>2, <1>3, <1>4, <1>5, FillOK DEF record
  <1>7. DOMAIN new = 0 .. x + a - 1
    BY <1>1, <1>2, <1>3 DEF Fill, record
  <1>8. Chain(new, {0, 3})
    <2>1. Chain(r, {0, 3}) /\ {0, 3} \subseteq DOMAIN r
      BY <1>3 DEF DirBlock
    <2>2. \A w \in {0, 3} : w \in DOMAIN new /\ new[w] = r[w]
      BY <1>3, <1>6
    <2> QED
      BY <2>1, <2>2 DEF Chain, Header, Behind
  <1>9. Walk(new) = {0, 3} /\ DirBlock(new)
    BY <1>6, <1>8, ChainIsWalk DEF DirBlock
  <1>10. (x + a) - 1 = x + a - 1 /\ \A w \in {0, 3} : w \in DOMAIN r /\ w < x
    BY <1>1, <1>3
  <1>11. \A w \in {0, 3} : new[w] = RootRecords[w]
    BY <1>6, <1>10 DEF Unused
  <1>12. DOMAIN new = 0 .. (x + a) - 1
    BY <1>7, <1>10
  <1> QED
    BY <1>9, <1>11, <1>12 DEF Unused

OnlyRoot(img) ==
  /\ Typed(img) /\ CountersOf(img) /\ img.gd.used_dirs = 1
  /\ img.inode_bitmap = {Root} /\ img.block_bitmap = {RootBlock}
  /\ img.inode[Root].mode = "dir" /\ img.inode[Root].links = 2 /\ ~img.inode[Root].dtime
  /\ img.inode[Root].direct = <<RootBlock>> /\ img.inode[Root].indirect = 0
  /\ \A i \in Inode \ {Root} : img.inode[i].mode # "dir"
  /\ \E x : Unused(img.records[RootBlock], x)

LEMMA RootBlockIs ==
  RootBlock \in Block
  BY BlockAssumption, MinIs DEF RootBlock

LEMMA UnusedLive ==
  ASSUME NEW r, NEW x, Unused(r, x)
  PROVE  /\ DirBlock(r) /\ Live(r) = {0, 3} /\ 0 \in DOMAIN r
         /\ \A w \in {0, 3} : r[w].inode = Root /\ r[w].type = "dir"
         /\ r[0].name = "." /\ r[3].name = ".."
  <1>1. DirBlock(r) /\ Walk(r) = {0, 3} /\ r[0] = RootRecords[0] /\ r[3] = RootRecords[3]
    BY DEF Unused
  <1>2. /\ RootRecords[0].inode = Root /\ RootRecords[0].type = "dir" /\ RootRecords[0].name = "."
        /\ RootRecords[3].inode = Root /\ RootRecords[3].type = "dir" /\ RootRecords[3].name = ".."
    BY DEF RootRecords
  <1>3. Live(r) = {w \in Walk(r) : r[w].inode # 0} /\ Walk(r) \subseteq DOMAIN r
    BY <1>1, DirBlockWords
  <1>4. Root # 0
    BY DEF Root
  <1> QED
    BY <1>1, <1>2, <1>3, <1>4

LEMMA TwoOf ==
  ASSUME NEW p, NEW q, p # q
  PROVE  Cardinality({p, q}) = 2
  <1>1. IsFiniteSet({p}) /\ Cardinality({p}) = 1
    BY FS_Singleton
  <1>2. Cardinality({p} \cup {q}) = Cardinality({p}) + 1
    BY <1>1, FS_AddElement
  <1>3. {p} \cup {q} = {p, q}
    OBVIOUS
  <1> QED
    BY <1>1, <1>2, <1>3

LEMMA OnlyRootWhole ==
  ASSUME NEW img, OnlyRoot(img)
  PROVE  /\ WholeImage(img) /\ UsedDirectories(img) = {Root}
         /\ \E p, q : Named(img) = {<<p, ".", Root>>, <<q, "..", Root>>}
         /\ \A t \in Named(img), g \in Ghosts(img) : Sooner(t[1][2], g[1][2])
  <1> DEFINE r == img.records[RootBlock]
             s == <<Root, 1>>
             p == Place(s, 0)
             q == Place(s, 3)
  <1>1. /\ Typed(img) /\ CountersOf(img) /\ img.gd.used_dirs = 1
        /\ img.inode_bitmap = {Root} /\ img.block_bitmap = {RootBlock}
        /\ img.inode[Root].mode = "dir" /\ img.inode[Root].links = 2 /\ ~img.inode[Root].dtime
        /\ img.inode[Root].direct = <<RootBlock>> /\ img.inode[Root].indirect = 0
        /\ \A i \in Inode \ {Root} : img.inode[i].mode # "dir"
    BY DEF OnlyRoot
  <1>2. /\ DirBlock(r) /\ Live(r) = {0, 3} /\ 0 \in DOMAIN r
        /\ \A w \in {0, 3} : r[w].inode = Root /\ r[w].type = "dir"
        /\ r[0].name = "." /\ r[3].name = ".."
    <2>1. PICK x : Unused(r, x)
      BY DEF OnlyRoot
    <2> HIDE DEF r
    <2> QED
      BY <2>1, UnusedLive
  <1>3. UsedDirectories(img) = {Root} /\ IsDir(img, Root)
    BY <1>1 DEF UsedDirectories, IsDir
  <1>4. Len(<<RootBlock>>) = 1 /\ <<RootBlock>>[1] = RootBlock /\ ToSet(<<RootBlock>>) = {RootBlock}
    BY DEF ToSet
  <1>5. Slots(img) = {s}
    <2>1. ASSUME NEW u \in Slots(img) PROVE u = s
      <3>1. u[1] = Root /\ u = <<u[1], u[2]>> /\ u[2] \in 1 .. Len(img.inode[u[1]].direct)
        BY <1>1, <1>3, SlotIs
      <3>2. u[2] \in 1 .. 1
        BY <1>1, <1>4, <3>1
      <3> QED
        BY <3>1, <3>2
    <2>2. s \in Slots(img)
      <3>1. s \in UsedDirectories(img) \X Nat /\ s[1] = Root /\ s[2] = 1
        BY <1>3
      <3>2. Len(img.inode[s[1]].direct) = 1
        BY <1>1, <1>4, <3>1
      <3> HIDE DEF s
      <3> QED
        BY <3>1, <3>2, 1 \in 1 .. 1 DEF Slots
    <2> QED
      BY <2>1, <2>2
  <1>6. Content(img, s) = r
    BY <1>1, <1>4 DEF Content
  <1>7. LiveRecords(img) = {p, q} /\ Entry(img, p) = r[0] /\ Entry(img, q) = r[3] /\ p # q
    <2>1. p \in LiveRecords(img) /\ Entry(img, p) = r[0] /\ q \in LiveRecords(img) /\ Entry(img, q) = r[3]
      BY <1>1, <1>2, <1>5, <1>6, PlaceIs
    <2>2. \A x \in LiveRecords(img) : x \in {p, q}
      BY <1>1, <1>2, <1>5, <1>6, PlaceIs
    <2>3. p # q
      BY DEF Place
    <2> QED
      BY <2>1, <2>2, <2>3
  <1> HIDE DEF r, p, q
  <1>8. DirsOK(img)
    BY <1>1, <1>2, <1>3, <1>5, <1>6 DEF DirsOK
  <1>9. NamesOK(img)
    BY <1>1, <1>2, <1>3, <1>7 DEF NamesOK, Entry
  <1>10. LinksOK(img)
    <2>1. Pointing(img, Root) = {p, q}
      BY <1>2, <1>7 DEF Pointing, Entry
    <2> QED
      <3>1. Cardinality({p, q}) = 2 /\ {p, q} # {}
        BY <1>7, TwoOf
      <3> QED
        BY <1>1, <2>1, <3>1 DEF LinksOK
  <1>11. DataBlocks(img, Root) = {RootBlock}
    BY <1>1, <1>4 DEF DataBlocks
  <1>12. BlocksOK(img)
    BY <1>1, <1>11 DEF BlocksOK
  <1>13. FreeOK(img)
    BY <1>1 DEF FreeOK, IsDir
  <1>14. RootOK(img)
    <2>1. img.inode[Root].direct # <<>> /\ img.inode[Root].direct[1] = RootBlock
      BY <1>1, <1>4
    <2> QED
      BY <1>2, <2>1 DEF RootOK, IsRoot, r
  <1>15. Cardinality({Root}) = 1
    BY FS_Singleton
  <1>16. Named(img) = {<<p, ".", Root>>, <<q, "..", Root>>}
    BY <1>2, <1>7 DEF Named
  <1>17. ASSUME NEW t \in Named(img), NEW g \in Ghosts(img)
         PROVE  Sooner(t[1][2], g[1][2])
    <2>1. PICK u \in Slots(img) :
            g \in {<<Place(u, w), Content(img, u)[w].name>> : w \in Gone(Content(img, u))}
      BY DEF Ghosts
    <2>2. PICK v \in Gone(r) : g = <<Place(s, v), r[v].name>>
      BY <1>5, <1>6, <2>1
    <2>3. Header(r, v) /\ v \notin Walk(r) /\ v \in 0 .. Words - 1 /\ BlockOK(r)
      BY <1>2, BlockDomain DEF Gone, Header, DirBlock, BlockOK
    <2>4. 0 \in Walk(r) /\ 3 \in Walk(r) /\ Header(r, 0)
      BY <1>2 DEF Live, DirBlock, Chain
    <2>5. Behind(r, 0) <= v /\ Behind(r, 0) \in 0 + 3 .. Words
      BY <2>3, <2>4, HeaderBefore, HeaderInside
    <2>6. v \in Int /\ 3 <= v
      BY <2>3, <2>5, WordsNat
    <2>7. g[1][2] = <<1, v>> /\ p[2] = <<1, 0>> /\ q[2] = <<1, 3>>
      BY <2>2 DEF Place, p, q
    <2>8. t[1] \in {p, q}
      BY <1>16
    <2> QED
      BY <2>6, <2>7, <2>8 DEF Sooner
  <1> QED
    BY <1>1, <1>3, <1>8, <1>9, <1>10, <1>12, <1>13, <1>14, <1>15, <1>16, <1>17
    DEF WholeImage, Sane, Accounted, DirsCounted

Untouched == [mode |-> "unknown", links |-> 0, dtime |-> FALSE, direct |-> <<>>, indirect |-> 0]
RootFile == [mode |-> "dir", links |-> 2, dtime |-> FALSE, direct |-> <<RootBlock>>, indirect |-> 0]

LEMMA EmptyDiskFields ==
  /\ EmptyDisk.inode_bitmap = {Root} /\ EmptyDisk.block_bitmap = {RootBlock}
  /\ EmptyDisk.sb = [free_inodes |-> Cardinality(Inode) - 1, free_blocks |-> Cardinality(Block) - 1]
  /\ EmptyDisk.gd = [free_inodes |-> Cardinality(Inode) - 1, free_blocks |-> Cardinality(Block) - 1,
                     used_dirs |-> 1]
  /\ EmptyDisk.inode = [i \in Inode |-> IF i = Root THEN RootFile ELSE Untouched]
  /\ EmptyDisk.records = [b \in Block |-> IF b # RootBlock THEN <<>> ELSE RootRecords]
  /\ EmptyDisk.pointers = [b \in Block |-> <<>>]
  /\ EmptyDisk.text = {}
  BY DEF EmptyDisk, RootFile, Untouched, RootRecords

LEMMA EmptyDiskTyped ==
  Typed(EmptyDisk) /\ EmptyDisk.inode[Root] = RootFile
  <1> DEFINE img == EmptyDisk
             m == Cardinality(Inode)
             n == Cardinality(Block)
  <1>1. m \in Int /\ n \in Int /\ Root \in Inode /\ RootBlock \in Block
    BY NumbersFinite, RootBlockIs
  <1>2. /\ <<RootBlock>> \in Seq(Block) /\ Len(<<RootBlock>>) = 1 /\ <<>> \in Seq(Block)
        /\ Len(<<>>) = 0 /\ Direct \in Nat /\ Direct >= 1
    BY <1>1, SizeAssumption
  <1>3. /\ RootFile \in InodeRecord /\ RootFile.direct = <<RootBlock>> /\ RootFile.indirect = 0
        /\ Untouched \in InodeRecord /\ Untouched.direct = <<>> /\ Untouched.indirect = 0
    BY <1>2 DEF RootFile, Untouched, InodeRecord, Mode, Type
  <1>4. FileOK(RootFile) /\ FileOK(Untouched)
    BY <1>2, <1>3 DEF FileOK, Once
  <1>5. /\ BlockOK(RootRecords) /\ BlockOK(<<>>) /\ RootRecords \in Written /\ <<>> \in Written
        /\ \A b \in Block : PointersOK(b, <<>>)
    <2>1. BlockOK(RootRecords)
      BY RootRecordsAre DEF Unused, DirBlock
    <2> QED
      BY <2>1, EmptyOK DEF BlockOK
  <1>6. img.inode \in [Inode -> InodeRecord] /\ \A i \in Inode : FileOK(img.inode[i])
    BY <1>3, <1>4, EmptyDiskFields
  <1>7. img.records \in [Block -> Written] /\ \A b \in Block : BlockOK(img.records[b])
    BY <1>5, EmptyDiskFields
  <1>8. img.pointers \in [Block -> Seq(Block)] /\ \A b \in Block : PointersOK(b, img.pointers[b])
    BY <1>2, <1>5, EmptyDiskFields
  <1>9. /\ img.sb \in [free_inodes : Int, free_blocks : Int]
        /\ img.gd \in [free_inodes : Int, free_blocks : Int, used_dirs : Int]
    BY <1>1, EmptyDiskFields
  <1>10. img.inode_bitmap \subseteq Inode /\ img.block_bitmap \subseteq Block /\ img.text \subseteq Block
    BY <1>1, EmptyDiskFields
  <1>11. img = [inode_bitmap |-> img.inode_bitmap, block_bitmap |-> img.block_bitmap, sb |-> img.sb,
                gd |-> img.gd, inode |-> img.inode, records |-> img.records,
                pointers |-> img.pointers, text |-> img.text]
    BY DEF EmptyDisk
  <1>12. img.inode[Root] = RootFile
    BY <1>1, EmptyDiskFields
  <1> HIDE DEF img
  <1>13. img \in Image
    BY <1>6, <1>7, <1>8, <1>9, <1>10, <1>11 DEF Image
  <1> QED
    BY <1>6, <1>7, <1>8, <1>12, <1>13 DEF Typed, img

LEMMA EmptyDiskCounted ==
  /\ CountersOf(EmptyDisk) /\ EmptyDisk.gd.used_dirs = 1
  /\ Cardinality(FreeBlocks(EmptyDisk)) = Cardinality(Block) - 1
  <1>1. Root \in Inode /\ RootBlock \in Block /\ IsFiniteSet(Inode) /\ IsFiniteSet(Block)
    BY NumbersFinite, RootBlockIs
  <1>2. /\ Cardinality(Inode \ {Root}) = Cardinality(Inode) - 1
        /\ Cardinality(Block \ {RootBlock}) = Cardinality(Block) - 1
    BY <1>1, FS_RemoveElement
  <1>3. /\ Cardinality(FreeInodes(EmptyDisk)) = Cardinality(Inode) - 1
        /\ Cardinality(FreeBlocks(EmptyDisk)) = Cardinality(Block) - 1
    BY <1>2, EmptyDiskFields DEF FreeInodes, FreeBlocks
  <1>4. /\ EmptyDisk.sb.free_inodes = Cardinality(Inode) - 1
        /\ EmptyDisk.gd.free_inodes = Cardinality(Inode) - 1
        /\ EmptyDisk.sb.free_blocks = Cardinality(Block) - 1
        /\ EmptyDisk.gd.free_blocks = Cardinality(Block) - 1
        /\ EmptyDisk.gd.used_dirs = 1
    BY EmptyDiskFields
  <1> QED
    BY <1>3, <1>4, CountersAre

LEMMA EmptyDiskIs ==
  OnlyRoot(EmptyDisk)
  <1>1. /\ RootFile.mode = "dir" /\ RootFile.links = 2 /\ RootFile.direct = <<RootBlock>>
        /\ RootFile.indirect = 0 /\ ~RootFile.dtime /\ Untouched.mode # "dir"
    BY DEF RootFile, Untouched
  <1>2. \A i \in Inode \ {Root} : EmptyDisk.inode[i].mode # "dir"
    BY <1>1, EmptyDiskFields
  <1>3. EmptyDisk.records[RootBlock] = RootRecords
    BY EmptyDiskFields, RootBlockIs
  <1>4. EmptyDisk.inode_bitmap = {Root} /\ EmptyDisk.block_bitmap = {RootBlock}
    BY EmptyDiskFields
  <1> QED
    BY <1>1, <1>2, <1>3, <1>4, EmptyDiskTyped, EmptyDiskCounted, RootRecordsAre DEF OnlyRoot

LEMMA OnlyRootKept ==
  ASSUME NEW img, OnlyRoot(img), NEW new, Typed(new),
         Same(img, new, {"inode_bitmap", "block_bitmap", "sb", "gd"}),
         new.inode[Root] = img.inode[Root], \A i \in Inode \ {Root} : new.inode[i].mode # "dir",
         \E x : Unused(new.records[RootBlock], x)
  PROVE  OnlyRoot(new)
  <1>1. /\ new.inode_bitmap = img.inode_bitmap /\ new.block_bitmap = img.block_bitmap
        /\ new.sb = img.sb /\ new.gd = img.gd
    BY DEF Same
  <1>2. FreeInodes(new) = FreeInodes(img) /\ FreeBlocks(new) = FreeBlocks(img)
    BY <1>1 DEF FreeInodes, FreeBlocks
  <1>3. CountersOf(new)
    BY <1>1, <1>2, CountersAre DEF OnlyRoot
  <1> QED
    BY <1>1, <1>3 DEF OnlyRoot

(* A file of which the name was entered behind the root's own and removed. *)
LEMMA NameLeft ==
  ASSUME NEW img, OnlyRoot(img), NEW x \in Nat, x >= 6, Unused(img.records[RootBlock], x),
         NEW i \in Inode, NEW n \in Name, x + actual_len(n) <= Words,
         NEW new, new = Enter(img, Root, <<1, x>>, EntryFor(i, Words - x, n, "reg"))
  PROVE  OnlyRoot(new) /\ Unused(new.records[RootBlock], x + actual_len(n))
  <1> DEFINE d == Root
             b == RootBlock
             e == <<1, x>>
             record == EntryFor(i, Words - x, n, "reg")
             r == Fill(img.records[b], x, record)
  <1>1. d \in Inode /\ b \in Block /\ e[1] = 1 /\ e[2] = x /\ b = img.inode[d].direct[e[1]] /\ Typed(img)
    BY NumbersFinite, RootBlockIs DEF OnlyRoot
  <1>2. Unused(r, x + actual_len(n))
    BY UnusedFilled
  <1>3. BlockOK(r) /\ r = Fill(img.records[b], e[2], record)
    BY <1>1, <1>2, Zenon DEF Unused, DirBlock
  <1>4. new = Enter(img, d, e, record)
    OBVIOUS
  <1> HIDE DEF d, b, e, record, r
  <1>5. BlockPut(img, new, b, r)
    BY <1>1, <1>3, <1>4, RecordEntered
  <1>6. Typed(new) /\ Same(img, new, Field \ {"records"}) /\ new.records[b] = r
    BY <1>1, <1>5 DEF BlockPut
  <1>7. Same(img, new, {"inode_bitmap", "block_bitmap", "sb", "gd"}) /\ new.inode = img.inode
    BY <1>6 DEF Same, Field
  <1>8. Unused(new.records[RootBlock], x + actual_len(n))
    BY <1>2, <1>6 DEF b
  <1>9. \A j \in Inode \ {Root} : new.inode[j].mode # "dir"
    BY <1>7 DEF OnlyRoot
  <1> QED
    BY <1>6, <1>7, <1>8, <1>9, OnlyRootKept

Dead(direct, indirect) ==
  [mode |-> "reg", links |-> 0, dtime |-> TRUE, direct |-> direct, indirect |-> indirect]

LEMMA DeadIs ==
  ASSUME NEW direct, NEW indirect, HeldOK(direct, indirect)
  PROVE  /\ Dead(direct, indirect) \in InodeRecord /\ FileOK(Dead(direct, indirect))
         /\ Dead(direct, indirect).mode # "dir"
  <1> DEFINE f == Dead(direct, indirect)
  <1>1. /\ f.mode = "reg" /\ f.direct = direct /\ f.indirect = indirect
        /\ f \in InodeRecord
    BY DEF Dead, InodeRecord, HeldOK, Mode, Type
  <1> HIDE DEF f
  <1>2. FileOK(f) /\ f.mode # "dir"
    BY <1>1 DEF FileOK, HeldOK
  <1> QED
    BY <1>1, <1>2 DEF f

LEMMA FileLeft ==
  ASSUME NEW img, OnlyRoot(img), NEW i \in Inode \ {Root},
         NEW direct, NEW indirect, HeldOK(direct, indirect),
         NEW new, new = PutFile(img, i, Dead(direct, indirect))
  PROVE  OnlyRoot(new) /\ new.records = img.records
  <1> DEFINE f == Dead(direct, indirect)
             fs == [img.inode EXCEPT ![i] = f]
  <1>1. f \in InodeRecord /\ FileOK(f) /\ f.mode # "dir"
    BY DeadIs
  <1> HIDE DEF f
  <1>2. Typed(img) /\ img.inode \in [Inode -> InodeRecord] /\ Root \in Inode
    BY TypedIs, NumbersFinite DEF OnlyRoot
  <1>3. /\ fs \in [Inode -> InodeRecord]
        /\ \A j \in Inode : fs[j] = IF j = i THEN f ELSE img.inode[j]
    BY <1>1, <1>2
  <1>4. new = PutInode(img, fs)
    BY DEF PutFile, f
  <1> HIDE DEF fs
  <1>5. \A j \in Inode : FileOK(fs[j])
    BY <1>1, <1>2, <1>3 DEF Typed
  <1>6. Typed(new) /\ Same(img, new, Field \ {"inode"}) /\ new.inode = fs
    BY <1>2, <1>3, <1>4, <1>5, FilePut
  <1>7. Same(img, new, {"inode_bitmap", "block_bitmap", "sb", "gd"}) /\ new.records = img.records
    BY <1>6 DEF Same, Field
  <1>8. new.inode[Root] = img.inode[Root] /\ \A j \in Inode \ {Root} : new.inode[j].mode # "dir"
    BY <1>1, <1>2, <1>3, <1>6 DEF OnlyRoot
  <1>9. \E x : Unused(new.records[RootBlock], x)
    BY <1>7 DEF OnlyRoot
  <1> QED
    BY <1>6, <1>7, <1>8, <1>9, OnlyRootKept

LEMMA PointersLeft ==
  ASSUME NEW img, OnlyRoot(img), NEW b \in Block, NEW s \in Seq(Block), PointersOK(b, s),
         NEW text \in SUBSET Block, NEW new, new = PutText(PutPointersOf(img, b, s), text)
  PROVE  OnlyRoot(new)
  <1> DEFINE mid == PutPointersOf(img, b, s)
  <1>1. PointersPut(img, mid, b, s)
    BY PointersPutIs DEF OnlyRoot
  <1>2. Typed(mid) /\ mid \in Image /\ Same(img, mid, Field \ {"pointers"})
    BY <1>1 DEF PointersPut, Typed
  <1> HIDE DEF mid
  <1>3. new.text = text /\ Same(mid, new, Field \ {"text"})
    BY <1>2, PutMoreIs DEF mid
  <1>4. Typed(new)
    BY <1>2, <1>3 DEF Typed, Same, Field
  <1>5. /\ Same(img, new, {"inode_bitmap", "block_bitmap", "sb", "gd"})
        /\ new.records = img.records /\ new.inode = img.inode
    BY <1>2, <1>3 DEF Same, Field
  <1> QED
    BY <1>4, <1>5, OnlyRootKept DEF OnlyRoot

Leaves(img, i, f, j, g, b, s, text) ==
  [img EXCEPT !.inode[i] = f, !.inode[j] = g, !.pointers[b] = s, !.text = text]

LEMMA PutFileAs ==
  ASSUME NEW img \in Image, NEW i, NEW f
  PROVE  [img EXCEPT !.inode[i] = f] = PutFile(img, i, f)
  BY DEF Image, PutFile, PutInode

LEMMA PutPointersAs ==
  ASSUME NEW img \in Image, NEW b, NEW s
  PROVE  [img EXCEPT !.pointers[b] = s] = PutPointersOf(img, b, s)
  BY DEF Image, PutPointersOf, PutPointers

LEMMA LeavesAre ==
  ASSUME NEW img \in Image, NEW i, NEW f, NEW j, NEW g, NEW b, NEW s, NEW text,
         PutFile(img, i, f) \in Image, PutFile(PutFile(img, i, f), j, g) \in Image
  PROVE  Leaves(img, i, f, j, g, b, s, text) =
           PutText(PutPointersOf(PutFile(PutFile(img, i, f), j, g), b, s), text)
  <1> DEFINE one == [img EXCEPT !.inode[i] = f]
             two == [one EXCEPT !.inode[j] = g]
             three == [two EXCEPT !.pointers[b] = s]
  <1>1. Leaves(img, i, f, j, g, b, s, text) = [three EXCEPT !.text = text]
    BY DEF Leaves
  <1>2. one = PutFile(img, i, f)
    BY PutFileAs
  <1> HIDE DEF one
  <1>3. two = PutFile(one, j, g)
    BY <1>2, PutFileAs
  <1> HIDE DEF two
  <1>4. three = PutPointersOf(two, b, s)
    BY <1>2, <1>3, PutPointersAs
  <1> HIDE DEF three
  <1> QED
    BY <1>1, <1>2, <1>3, <1>4 DEF PutText

LEMMA TwoInodes ==
  ASSUME NEW i, i = Min(FreeInodes(EmptyDisk)), NEW j, j = Min(FreeInodes(EmptyDisk) \ {i})
  PROVE  i \in Inode \ {Root} /\ j \in Inode \ {Root} /\ i # j
  <1> DEFINE S == Inode \ {Root}
             T == S \ {i}
  <1>1. FreeInodes(EmptyDisk) = S
    BY EmptyDiskFields DEF FreeInodes
  <1>2. Root \in Inode /\ IsFiniteSet(Inode) /\ Cardinality(Inode) >= 3 /\ Cardinality(Inode) \in Nat
    BY NumbersFinite, DiskAssumption
  <1>3. IsFiniteSet(S) /\ Cardinality(S) = Cardinality(Inode) - 1
    BY <1>2, FS_RemoveElement
  <1>4. S \subseteq Nat /\ T \subseteq Nat
    BY NumbersFinite
  <1>5. S # {}
    BY <1>2, <1>3, FS_EmptySet
  <1>6. i \in S
    BY <1>1, <1>4, <1>5, MinIs
  <1>7. IsFiniteSet(T) /\ Cardinality(T) = Cardinality(S) - 1
    BY <1>3, <1>6, FS_RemoveElement
  <1>8. T # {}
    BY <1>2, <1>3, <1>7, FS_EmptySet
  <1>9. j \in T
    BY <1>1, <1>4, <1>8, MinIs
  <1> QED
    BY <1>6, <1>9

LEMMA UsedDiskIs ==
  ASSUME NEW m \in Name, NEW n \in Name, {m, n} \cap Long # {m, n}
  PROVE  OnlyRoot(UsedDisk(m, n))
  <1> DEFINE i == Min(FreeInodes(EmptyDisk))
             j == Min(FreeInodes(EmptyDisk) \ {i})
             bs == NextBlocks(EmptyDisk, Cardinality(Block) - 1)
             last == bs[Direct + 2]
             behind == 6 + actual_len(m)
             one == Enter(EmptyDisk, Root, <<1, 6>>, EntryFor(i, Words - 6, m, "reg"))
             two == Enter(one, Root, <<1, behind>>, EntryFor(j, Words - behind, n, "reg"))
             direct == SubSeq(bs, 2, Direct + 1)
             rest == SubSeq(bs, Direct + 3, Len(bs))
             f == Dead(<<bs[1]>>, 0)
             g == Dead(direct, last)
             text == ToSet(bs) \ {last}
  <1>1. UsedDisk(m, n) = Leaves(two, i, f, j, g, last, rest, text)
    BY DEF UsedDisk, Leaves, Dead, EntryFor
  <1>2. i \in Inode \ {Root} /\ j \in Inode \ {Root} /\ i # j
    BY TwoInodes
  <1> HIDE DEF i, j
  <1>3. /\ actual_len(m) \in 3 .. 4 /\ actual_len(n) \in 3 .. 4 /\ Words \in Nat /\ Words >= 13
        /\ actual_len(m) = 3 \/ actual_len(n) = 3
    BY LengthIs, WordsNat DEF actual_len
  <1>4. behind \in Nat /\ behind >= 6 /\ 6 + actual_len(m) <= Words /\ behind + actual_len(n) <= Words
    BY <1>3
  <1>5. OnlyRoot(EmptyDisk) /\ Unused(EmptyDisk.records[RootBlock], 6)
    BY EmptyDiskIs, EmptyDiskFields, RootRecordsAre, RootBlockIs
  <1>6. OnlyRoot(one) /\ Unused(one.records[RootBlock], behind)
    BY <1>2, <1>4, <1>5, NameLeft
  <1> HIDE DEF one, behind
  <1>7. OnlyRoot(two)
    BY <1>2, <1>4, <1>6, NameLeft
  <1> HIDE DEF two
  <1> DEFINE c == Cardinality(Block) - 1
  <1>8. /\ Direct \in Nat /\ Direct >= 1 /\ Pointers \in Nat /\ c \in 0 .. Cardinality(FreeBlocks(EmptyDisk))
        /\ Direct + 3 <= c /\ c <= Direct + 2 + Pointers
    <2>1. Cardinality(Block) \in Nat
      BY NumbersFinite
    <2> QED
      BY <2>1, SizeAssumption, DiskAssumption, EmptyDiskCounted
  <1>9. /\ bs \in Seq(Block) /\ Len(bs) = c /\ Ascending(bs) /\ ToSet(bs) \in SUBSET Block
    BY <1>8, BlocksInOrder
  <1> HIDE DEF bs
  <1>10. Slice(bs, 2, Direct + 1, direct) /\ Slice(bs, Direct + 3, Len(bs), rest)
    <2>1. /\ 2 \in Nat \ {0} /\ Direct + 1 \in Nat /\ Direct + 1 <= Len(bs) /\ 2 <= (Direct + 1) + 1
          /\ Direct + 3 \in Nat \ {0} /\ Len(bs) \in Nat /\ Len(bs) <= Len(bs) /\ Direct + 3 <= Len(bs) + 1
      BY <1>8, <1>9
    <2>2. Slice(bs, 2, Direct + 1, direct)
      BY <1>9, <2>1, SliceIs
    <2>3. Slice(bs, Direct + 3, Len(bs), rest)
      BY <1>9, <2>1, SliceIs
    <2> QED
      BY <2>2, <2>3
  <1> HIDE DEF direct, rest, c
  <1>11. PartsOK({bs[k] : k \in 2 .. Len(bs)}, direct, last, rest)
    <2> DEFINE a == 2
               x == a + Direct
               z == Len(bs)
    <2>1. a \in Nat \ {0} /\ x <= z /\ z <= x + Pointers /\ x - 1 = Direct + 1 /\ x + 1 = Direct + 3
          /\ x = Direct + 2
      BY <1>8, <1>9
    <2>2. Slice(bs, a, x - 1, direct) /\ Slice(bs, x + 1, z, rest)
      BY <1>10, <2>1
    <2> HIDE DEF x, z
    <2>3. PartsOK({bs[k] : k \in a .. z}, direct, bs[x], rest)
      BY <1>9, <2>1, <2>2, ManyBlocksParted DEF x, z
    <2> QED
      BY <2>1, <2>3 DEF z
  <1>12. last \in Block /\ HeldOK(direct, last) /\ rest \in Seq(Block) /\ PointersOK(last, rest)
    <2>1. last \in Block
      BY <1>8, <1>9
    <2>2. last # 0
      BY <2>1, NumbersFinite
    <2> QED
      BY <1>11, <2>1, <2>2 DEF PartsOK
  <1>13. HeldOK(<<bs[1]>>, 0)
    <2>1. bs[1] \in Block
      BY <1>8, <1>9
    <2>2. <<bs[1]>> \in Seq(Block) /\ Len(<<bs[1]>>) = 1
      BY <2>1
    <2> QED
      BY <1>8, <2>2 DEF HeldOK, Once
  <1> DEFINE three == PutFile(two, i, f)
             four == PutFile(three, j, g)
  <1>14. OnlyRoot(three)
    BY <1>2, <1>7, <1>13, FileLeft
  <1> HIDE DEF three, f
  <1>15. OnlyRoot(four)
    BY <1>2, <1>12, <1>14, FileLeft
  <1> HIDE DEF four, g
  <1>16. two \in Image /\ three \in Image /\ four \in Image /\ text \in SUBSET Block
    BY <1>7, <1>9, <1>14, <1>15 DEF OnlyRoot, Typed
  <1> HIDE DEF text, last
  <1>17. UsedDisk(m, n) = PutText(PutPointersOf(four, last, rest), text)
    BY <1>1, <1>16, LeavesAre DEF three, four
  <1> QED
    BY <1>12, <1>15, <1>16, <1>17, PointersLeft

LEMMA InitWhole ==
  Init => IInv /\ OnlyRoot(image)
  <1> SUFFICES ASSUME Init
               PROVE  IInv /\ OnlyRoot(image)
    OBVIOUS
  <1>1. status = "whole" /\ runs \in 0 .. MaxRuns
    BY RunsAssumption DEF Init
  <1>2. OnlyRoot(image)
    BY EmptyDiskIs, UsedDiskIs DEF Init
  <1>3. WholeImage(image)
    BY <1>2, OnlyRootWhole
  <1> QED
    BY <1>1, <1>2, <1>3 DEF IInv, WholeImage, Sane, TypedRoot, Status
-----------------------------------------------------------------------------
THEOREM Ext2Invariant == Spec => []IInv
  BY InitWhole, StepKeeps, PTL DEF Spec

LEMMA TypesAre ==
  ASSUME IInv
  PROVE  TypeOK
  <1>1. Typed(image) /\ status \in Status /\ runs \in 0 .. MaxRuns
    BY DEF IInv
  <1>2. \A b \in Block : \E h \in 0 .. Words : image.records[b] \in [0 .. h - 1 -> Record]
    <2> TAKE b \in Block
    <2>1. image.records[b] \in Written
      BY <1>1, TypedIs
    <2> QED
      BY <2>1, WrittenIs
  <1>3. \A b \in Block : Len(image.pointers[b]) <= Pointers
    BY <1>1 DEF Typed, PointersOK
  <1>4. \A i \in Inode : /\ Len(image.inode[i].direct) <= Direct
                         /\ image.inode[i].indirect # 0 => Len(image.inode[i].direct) = Direct
    BY <1>1 DEF Typed, FileOK
  <1> QED
    BY <1>1, <1>2, <1>3, <1>4, TypedIs DEF TypeOK

LEMMA CountersAgree ==
  ASSUME IInv
  PROVE  CountersMatch
  BY DEF IInv, CountersMatch, WholeImage, Sane, Accounted, DirsCounted

(* A sequence that repeats nothing is as long as the set of what it holds. *)
LEMMA OnceCounts ==
  ASSUME NEW S, NEW s \in Seq(S), Once(s)
  PROVE  IsFiniteSet(ToSet(s)) /\ Cardinality(ToSet(s)) = Len(s)
  <1> DEFINE n == Len(s)
             T == ToSet(s)
  <1>1. n \in Nat /\ T = {s[k] : k \in 1 .. n} /\ s \in [1 .. n -> T] /\ T = {s[k] : k \in DOMAIN s}
    BY DEF ToSet
  <1>2. \A k, l \in 1 .. n : s[k] = s[l] => k = l
    BY DEF Once
  <1>3. ExistsBijection(1 .. n, T)
    <2>1. s \in Bijection(1 .. n, T)
      BY <1>1, <1>2 DEF Bijection, Injection, Surjection, IsInjective
    <2> QED
      BY <2>1 DEF ExistsBijection
  <1> QED
    BY <1>1, <1>3, FS_NatBijection, FS_CountingElements

HeldBy(f, pointers) ==
  f.direct \o (IF f.indirect = 0 THEN <<>> ELSE <<f.indirect>> \o pointers[f.indirect])

LEMMA HeldOnce ==
  ASSUME NEW img, Typed(img), NEW i \in Inode
  PROVE  Len(HeldBy(img.inode[i], img.pointers)) = Cardinality(DataBlocks(img, i))
  <1> DEFINE f == img.inode[i]
             s == f.direct
             c == f.indirect
             t == img.pointers[c]
  <1>1. s \in Seq(Block) /\ c \in Block \cup {0} /\ FileOK(f)
    BY TypedIs, InodeIs DEF Typed
  <1>2. Once(s)
    BY <1>1 DEF FileOK
  <1>3. HeldBy(f, img.pointers) = s \o (IF c = 0 THEN <<>> ELSE <<c>> \o t)
    BY DEF HeldBy
  <1>4. DataBlocks(img, i) = ToSet(s) \cup (IF c = 0 THEN {} ELSE {c} \cup ToSet(t))
    BY DEF DataBlocks
  <1>5. CASE c = 0
    <2> HIDE DEF f, s, c, t
    <2>1. HeldBy(f, img.pointers) = s
      BY <1>1, <1>3, <1>5
    <2>2. DataBlocks(img, i) = ToSet(s)
      BY <1>4, <1>5
    <2>3. Cardinality(ToSet(s)) = Len(s)
      BY <1>1, <1>2, OnceCounts
    <2> QED
      BY <2>1, <2>2, <2>3 DEF f
  <1>6. CASE c # 0
    <2>1. /\ c \in Block /\ t \in Seq(Block) /\ Once(t) /\ \A k \in 1 .. Len(t) : t[k] > c
      <3>1. c \in Block
        BY <1>1, <1>6
      <3>2. PointersOK(c, t) /\ t \in Seq(Block)
        BY <3>1, TypedIs DEF Typed
      <3> HIDE DEF t, c
      <3> QED
        BY <3>1, <3>2 DEF PointersOK
    <2>2. \A k \in 1 .. Len(s) : s[k] < c
      BY <1>1, <1>6 DEF FileOK
    <2>3. Block \subseteq Nat
      BY NumbersFinite
    <2> HIDE DEF f, s, c, t
    <2> DEFINE q == <<c>> \o t
               p == s \o q
               m == Len(s)
               n == Len(t)
    <2>4. /\ q \in Seq(Block) /\ Len(q) = n + 1 /\ q[1] = c /\ n \in Nat
          /\ \A k \in 1 .. n : q[k + 1] = t[k]
      BY <2>1
    <2>5. \A k \in 1 .. n + 1 : k = 1 \/ \E l \in 1 .. n : k = l + 1
      <3> TAKE k \in 1 .. n + 1
      <3>1. k # 1 => k - 1 \in 1 .. n /\ k = (k - 1) + 1
        BY <2>4
      <3> QED
        BY <3>1
    <2> HIDE DEF q
    <2>6. \A k \in 1 .. n + 1 : q[k] \in Nat /\ q[k] >= c /\ (q[k] = c => k = 1)
      <3> TAKE k \in 1 .. n + 1
      <3>1. CASE k = 1
        BY <2>1, <2>3, <2>4, <3>1
      <3>2. CASE \E l \in 1 .. n : k = l + 1
        <4>1. PICK l \in 1 .. n : k = l + 1
          BY <3>2
        <4>2. q[k] = t[l] /\ t[l] > c
          BY <2>1, <2>4, <4>1 DEF n
        <4>3. t[l] \in Block
          BY <2>1, <4>1 DEF n
        <4>4. t[l] \in Nat /\ c \in Nat
          BY <2>1, <2>3, <4>3
        <4> HIDE DEF n
        <4> QED
          BY <4>2, <4>4
      <3> QED
        BY <2>5, <3>1, <3>2
    <2>7. Once(q)
      <3> SUFFICES ASSUME NEW k \in 1 .. n + 1, NEW l \in 1 .. n + 1, q[k] = q[l]
                   PROVE  k = l
        BY <2>4 DEF Once
      <3>1. CASE k = 1 \/ l = 1
        BY <2>4, <2>6, <3>1
      <3>2. CASE \E x, y \in 1 .. n : k = x + 1 /\ l = y + 1
        BY <2>1, <2>4, <3>2 DEF Once
      <3> QED
        BY <2>5, <3>1, <3>2
    <2>8. /\ p \in Seq(Block) /\ Len(p) = m + (n + 1) /\ m \in Nat
          /\ \A k \in 1 .. m : p[k] = s[k]
          /\ \A k \in 1 .. n + 1 : p[m + k] = q[k]
      <3> HIDE DEF n
      <3>1. Len(s) \in Nat /\ s \in Seq(Block) /\ Len(q) = n + 1 /\ n \in Nat /\ q \in Seq(Block)
        BY <1>1, <2>4
      <3> QED
        BY <3>1
    <2> HIDE DEF p
    <2>9. \A k \in 1 .. m + (n + 1) : k \in 1 .. m \/ \E l \in 1 .. n + 1 : k = m + l
      <3> TAKE k \in 1 .. m + (n + 1)
      <3>1. k \notin 1 .. m => k - m \in 1 .. n + 1 /\ k = m + (k - m)
        BY <2>4, <2>8
      <3> QED
        BY <3>1
    <2> HIDE DEF m, n
    <2>10. Once(p)
      <3> SUFFICES ASSUME NEW k \in 1 .. m + (n + 1), NEW l \in 1 .. m + (n + 1), p[k] = p[l]
                   PROVE  k = l
        BY <2>8 DEF Once
      <3>1. CASE k \in 1 .. m /\ l \in 1 .. m
        BY <1>2, <2>8, <3>1 DEF Once, m
      <3>2. CASE \E x, y \in 1 .. n + 1 : k = m + x /\ l = m + y
        <4>1. PICK x, y \in 1 .. n + 1 : k = m + x /\ l = m + y
          BY <3>2
        <4>2. q[x] = q[y]
          BY <2>8, <4>1
        <4>3. Len(q) = n + 1
          BY <2>4
        <4>4. x = y
          BY <2>7, <4>2, <4>3 DEF Once
        <4> QED
          BY <4>1, <4>4
      <3>3. ASSUME NEW x \in 1 .. m, NEW y \in 1 .. n + 1 PROVE p[x] # p[m + y]
        <4>1. p[x] = s[x] /\ p[m + y] = q[y] /\ s[x] < c /\ q[y] >= c /\ q[y] \in Nat
          BY <2>2, <2>6, <2>8 DEF m
        <4>2. s[x] \in Nat /\ c \in Nat
          <5>1. s[x] \in Block
            BY <1>1 DEF m
          <5> QED
            BY <2>1, <2>3, <5>1
        <4> QED
          BY <4>1, <4>2
      <3> QED
        BY <2>9, <3>1, <3>2, <3>3
    <2>11. ToSet(p) = ToSet(s) \cup ({c} \cup ToSet(t))
      <3>1. ToSet(q) = {c} \cup ToSet(t)
        <4>1. ToSet(q) = {q[k] : k \in 1 .. n + 1} /\ ToSet(t) = {t[k] : k \in 1 .. n}
          BY <2>1, <2>4 DEF ToSet, n
        <4>2. 1 \in 1 .. n + 1 /\ \A k \in 1 .. n : k + 1 \in 1 .. n + 1
          BY <2>4
        <4>3. ASSUME NEW x \in ToSet(q) PROVE x = c \/ x \in ToSet(t)
          <5>1. PICK k \in 1 .. n + 1 : x = q[k]
            BY <4>1
          <5> QED
            BY <2>4, <2>5, <4>1, <5>1
        <4>4. c \in ToSet(q)
          BY <2>4, <4>1, <4>2
        <4>5. ASSUME NEW x \in ToSet(t) PROVE x \in ToSet(q)
          <5>1. PICK k \in 1 .. n : x = t[k]
            BY <4>1
          <5>2. x = q[k + 1] /\ k + 1 \in 1 .. n + 1
            BY <2>4, <4>2, <5>1
          <5> QED
            BY <4>1, <5>2
        <4> QED
          BY <4>3, <4>4, <4>5
      <3>2. /\ ToSet(p) = {p[k] : k \in 1 .. m + (n + 1)} /\ ToSet(s) = {s[k] : k \in 1 .. m}
            /\ ToSet(q) = {q[k] : k \in 1 .. n + 1}
        <4>1. Len(s) = m /\ Len(q) = n + 1
          BY <2>4 DEF m
        <4>2. DOMAIN s = 1 .. m /\ DOMAIN q = 1 .. n + 1 /\ DOMAIN p = 1 .. m + (n + 1)
          BY <1>1, <2>4, <2>8, <4>1
        <4> QED
          BY <4>2 DEF ToSet
      <3>3. /\ \A k \in 1 .. m : k \in 1 .. m + (n + 1)
            /\ \A k \in 1 .. n + 1 : m + k \in 1 .. m + (n + 1)
        BY <2>4, <2>8
      <3>4. ToSet(p) = ToSet(s) \cup ToSet(q)
        <4>1. ASSUME NEW x \in ToSet(p) PROVE x \in ToSet(s) \/ x \in ToSet(q)
          <5>1. PICK k \in 1 .. m + (n + 1) : x = p[k]
            BY <3>2
          <5> QED
            BY <2>8, <2>9, <3>2, <5>1
        <4>2. ASSUME NEW x \in ToSet(s) PROVE x \in ToSet(p)
          <5>1. PICK k \in 1 .. m : x = s[k]
            BY <3>2
          <5> QED
            BY <2>8, <3>2, <3>3, <5>1
        <4>3. ASSUME NEW x \in ToSet(q) PROVE x \in ToSet(p)
          <5>1. PICK k \in 1 .. n + 1 : x = q[k]
            BY <3>2
          <5>2. x = p[m + k] /\ m + k \in 1 .. m + (n + 1)
            BY <2>8, <3>3, <5>1
          <5> QED
            BY <3>2, <5>2
        <4> QED
          BY <4>1, <4>2, <4>3
      <3> QED
        BY <3>1, <3>4
    <2>12. Cardinality(ToSet(p)) = Len(p)
      BY <2>8, <2>10, OnceCounts
    <2>13. HeldBy(f, img.pointers) = p /\ DataBlocks(img, i) = ToSet(p)
      BY <1>3, <1>4, <1>6, <2>11 DEF p, q
    <2> QED
      BY <2>12, <2>13 DEF f
  <1> QED
    BY <1>5, <1>6

LEMMA OwnersAre ==
  ASSUME IInv
  PROVE  BlocksOwnedOnce
  <1> SUFFICES ASSUME Whole
               PROVE  BlocksOwnedOnce
    BY DEF BlocksOwnedOnce
  <1>1. Typed(image) /\ BlocksOK(image)
    BY DEF IInv, WholeImage, Sane, Accounted
  <1>2. \A i \in image.inode_bitmap :
          Len(HeldBy(image.inode[i], image.pointers)) = Cardinality(DataBlocks(image, i))
    BY <1>1, TypedIs, HeldOnce
  <1> QED
    BY <1>1, <1>2 DEF BlocksOwnedOnce, HeldBy, BlocksOK

LEMMA LinksAre ==
  ASSUME IInv
  PROVE  LinksCount
  <1> SUFFICES ASSUME Whole
               PROVE  LinksCount
    BY DEF LinksCount
  <1>1. NamesOK(image) /\ LinksOK(image)
    BY DEF IInv, WholeImage, Sane
  <1>2. ASSUME NEW i \in Inode
        PROVE  /\ i \in image.inode_bitmap => image.inode[i].links = Cardinality(Pointing(image, i))
               /\ (i \in image.inode_bitmap) = (Pointing(image, i) # {})
    <2>1. i \notin image.inode_bitmap => Pointing(image, i) = {}
      BY <1>1 DEF NamesOK, Pointing
    <2> QED
      BY <1>1, <2>1 DEF LinksOK
  <1> QED
    BY <1>2 DEF LinksCount, Pointing

(* Whatever sequence of tools, corruptions and checks is run, every field  *)
(* keeps its type, and no inode has more pointers than it has room for.    *)
THEOREM Ext2TypeCorrect == Spec => []TypeOK
  BY Ext2Invariant, TypesAre, PTL

(* The free counters and the count of directories agree with the bitmaps   *)
(* after any sequence of tools none of which exited half done.             *)
THEOREM CountersMatchCorrect == Spec => []CountersMatch
  BY Ext2Invariant, CountersAgree, PTL

(* cp, rm and restore never give two files one block, nor one file a block *)
(* twice, and none leaks.                                                  *)
THEOREM BlocksOwnedOnceCorrect == Spec => []BlocksOwnedOnce
  BY Ext2Invariant, OwnersAre, PTL

(* i_links_count is the number of live records of the inode.               *)
THEOREM LinksCountCorrect == Spec => []LinksCount
  BY Ext2Invariant, LinksAre, PTL
=============================================================================
