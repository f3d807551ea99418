---------------------------- MODULE BlockIOProofs ----------------------------
(***************************************************************************)
(* The buffer cache of BlockIO, for every number of buffers, units and     *)
(* blocks: the ring stays a ring, no block is in two buffers, the buffer   *)
(* link_fat keeps stays, and what is handed out is what was last written.  *)
(***************************************************************************)
EXTENDS BlockIO, TableFacts

-----------------------------------------------------------------------------
(* Rings.  Walking n steps from first along next gives a sequence f.       *)

IsWalk(f, N, first, next) == f = [i \in 0..N-1 |-> IF i = 0 THEN first ELSE next[f[i-1]]]
Follows(f, n, first, next) == f[0] = first /\ \A i \in 0..n-2 : f[i+1] = next[f[i]]

\* Such a walk there is, for every length.
LEMMA WalkExists ==
  ASSUME NEW first, NEW next, NEW N \in Nat
  PROVE  \E f : IsWalk(f, N, first, next)
<1> USE DEF IsWalk
<1> DEFINE Walk(n) == \E f : f = [i \in 0..n-1 |-> IF i = 0 THEN first ELSE next[f[i-1]]]
           Bad == {n \in Nat : ~Walk(n)}
<1>1. ASSUME Bad # {} PROVE FALSE
  <2>1. PICK n \in Bad : \A m \in Bad : n =< m
    BY <1>1, Least
  <2>2. n # 0
    <3> DEFINE f == [i \in 0..0-1 |-> first]
    <3>1. f = [i \in 0..0-1 |-> IF i = 0 THEN first ELSE next[f[i-1]]]
      OBVIOUS
    <3>2. Walk(0)
      BY <3>1
    <3> QED
      BY <3>2
  <2>3. n - 1 \in Nat /\ Walk(n - 1)
    <3>1. n - 1 \in Nat /\ ~(n =< n - 1)
      BY <2>1, <2>2
    <3> QED
      BY <2>1, <3>1
  <2>4. PICK f : f = [i \in 0..(n-1)-1 |-> IF i = 0 THEN first ELSE next[f[i-1]]]
    BY <2>3
  <2> DEFINE g == [i \in 0..n-1 |-> IF i = 0 THEN first ELSE next[f[i-1]]]
  <2>5. \A i \in 0..(n-1)-1 : g[i] = f[i]
    BY <2>3, <2>4
  <2>6. ASSUME NEW i \in 0..n-1, i # 0 PROVE g[i-1] = f[i-1]
    <3>1. i - 1 \in 0..(n-1)-1
      BY <2>3, <2>6
    <3> QED
      BY <2>5, <3>1
  <2>7. g = [i \in 0..n-1 |-> IF i = 0 THEN first ELSE next[g[i-1]]]
    BY <2>6
  <2>8. Walk(n)
    BY <2>7
  <2> QED
    BY <2>1, <2>8
<1> QED
  BY <1>1

\* Two walks agree.
LEMMA WalksAgree ==
  ASSUME NEW first, NEW next, NEW N \in Nat, NEW n \in 1..N, NEW c, NEW f,
         IsWalk(c, N, first, next), Follows(f, n, first, next)
  PROVE  \A i \in 0..n-1 : c[i] = f[i]
<1> USE DEF IsWalk, Follows
<1> DEFINE Bad == {i \in 0..n-1 : c[i] # f[i]}
<1>0. Bad \subseteq Nat
  OBVIOUS
<1>1. ASSUME Bad # {} PROVE FALSE
  <2>1. PICK i \in Bad : \A j \in Bad : i =< j
    BY <1>0, <1>1, Least
  <2>2. i \in 0..n-1 /\ i # 0
    BY <2>1
  <2>3. i - 1 \in 0..n-2 /\ c[i-1] = f[i-1]
    <3>1. i - 1 \in 0..n-2 /\ i - 1 \in 0..n-1 /\ ~(i =< i - 1)
      BY <2>2
    <3>2. i - 1 \notin Bad
      BY <2>1, <3>1
    <3> QED
      BY <3>1, <3>2
  <2>4. c[i] = next[c[i-1]]
    <3>1. c = [j \in 0..N-1 |-> IF j = 0 THEN first ELSE next[c[j-1]]]
      BY DEF IsWalk
    <3>2. i \in 0..N-1
      BY <2>2
    <3> QED
      BY ONLY <3>1, <3>2, <2>2
  <2>5. f[i] = next[f[i-1]]
    <3>1. \A m \in 0..n-2 : f[m+1] = next[f[m]]
      BY DEF Follows
    <3>2. (i-1) + 1 = i
      BY <2>2
    <3> QED
      BY ONLY <3>1, <3>2, <2>3
  <2> QED
    BY <2>1, <2>3, <2>4, <2>5
<1> QED
  BY <1>1

RingOf(f, n, first, next, prev) ==
  /\ f \in [0..n-1 -> Buf] /\ f[0] = first
  /\ \A i, j \in 0..n-1 : f[i] = f[j] => i = j
  /\ \A i \in 0..n-2 : next[f[i]] = f[i+1] /\ prev[f[i+1]] = f[i]
  /\ next[f[n-1]] = first /\ prev[first] = f[n-1]

Members(f, n) == {f[i] : i \in 0..n-1}

\* The links after move_buffer, and after a buffer is taken out.
Joined(next, prev, b) == [next EXCEPT ![prev[b]] = next[b]]
First2(first, next, b) == IF b = first THEN next[b] ELSE first
MovedPrev(next, prev, first, b) ==
  LET p1 == Joined(prev, next, b) IN [p1 EXCEPT ![b] = p1[first], ![first] = b]
MovedNext(next, prev, first, b) ==
  LET n1 == Joined(next, prev, b) IN [n1 EXCEPT ![b] = first, ![Joined(prev, next, b)[first]] = b]

\* What move_buffer makes of a ring when the buffer at position k goes to the
\* front.
LEMMA MoveRing ==
  ASSUME NEW n \in Nat, n >= 2, NEW f, NEW first, NEW next \in [Buf -> Buf], NEW prev \in [Buf -> Buf],
         RingOf(f, n, first, next, prev), NEW k \in 1..n-1, NEW b, b = f[k]
  PROVE  /\ MovedNext(next, prev, first, b) \in [Buf -> Buf] /\ MovedPrev(next, prev, first, b) \in [Buf -> Buf]
         /\ \E g : /\ RingOf(g, n, b, MovedNext(next, prev, first, b), MovedPrev(next, prev, first, b))
                  /\ Members(g, n) = Members(f, n)
<1> DEFINE p2 == MovedPrev(next, prev, first, b)
           n2 == MovedNext(next, prev, first, b)
           p1 == [prev EXCEPT ![next[b]] = prev[b]]
           n1 == [next EXCEPT ![prev[b]] = next[b]]
<1>0. p2 = [p1 EXCEPT ![b] = p1[first], ![first] = b] /\ n2 = [n1 EXCEPT ![b] = first, ![p1[first]] = b]
  BY DEF MovedPrev, MovedNext, Joined
<1> HIDE DEF p2, n2
<1> DEFINE g == [i \in 0..n-1 |-> IF i = 0 THEN b ELSE IF i =< k THEN f[i-1] ELSE f[i]]
<1>1. /\ b \in Buf /\ first \in Buf /\ b # first /\ prev[b] = f[k-1] /\ f[k-1] \in Buf
      /\ f[n-1] \in Buf /\ f[0] = first
      /\ next[b] = IF k = n-1 THEN first ELSE f[k+1]
  BY DEF RingOf
<1>2. p1[first] = (IF k = n-1 THEN f[n-2] ELSE f[n-1]) /\ p1[first] \in Buf
  BY <1>1 DEF RingOf
<1>3. n2 \in [Buf -> Buf] /\ p2 \in [Buf -> Buf]
  BY <1>0, <1>1, <1>2
<1>4. g \in [0..n-1 -> Buf] /\ g[0] = b
  BY <1>1 DEF RingOf
<1>5. \A i, j \in 0..n-1 : g[i] = g[j] => i = j
  <2> SUFFICES ASSUME NEW i \in 0..n-1, NEW j \in 0..n-1, g[i] = g[j] PROVE i = j
    OBVIOUS
  <2> DEFINE At(m) == IF m = 0 THEN k ELSE IF m =< k THEN m - 1 ELSE m
  <2>1. \A m \in 0..n-1 : At(m) \in 0..n-1 /\ g[m] = f[At(m)]
    OBVIOUS
  <2>2. At(i) = At(j)
    BY <2>1 DEF RingOf
  <2> QED
    BY <2>2
<1>6. Members(g, n) = Members(f, n)
  <2>1. \A m \in 0..n-1 : \E l \in 0..n-1 : g[m] = f[l]
    <3> TAKE m \in 0..n-1
    <3> WITNESS (IF m = 0 THEN k ELSE IF m =< k THEN m - 1 ELSE m) \in 0..n-1
    <3> QED
      OBVIOUS
  <2>2. \A m \in 0..n-1 : \E l \in 0..n-1 : f[m] = g[l]
    <3> TAKE m \in 0..n-1
    <3> WITNESS (IF m = k THEN 0 ELSE IF m < k THEN m + 1 ELSE m) \in 0..n-1
    <3> QED
      OBVIOUS
  <2> HIDE DEF g
  <2> QED
    BY <2>1, <2>2 DEF Members
<1>7. ASSUME NEW i \in 0..n-2
      PROVE  n2[g[i]] = g[i+1] /\ p2[g[i+1]] = g[i]
  <2>1. CASE i = 0
    BY <2>1, <1>0, <1>1, <1>2
  <2>2. CASE i > 0 /\ i < k
    <3>1. g[i] = f[i-1] /\ g[i+1] = f[i] /\ f[i-1] \in Buf /\ f[i] \in Buf
      BY <2>2 DEF RingOf
    <3>2. next[f[i-1]] = f[i] /\ prev[f[i]] = f[i-1]
      BY <2>2 DEF RingOf
    <3>3. f[i-1] # b /\ f[i] # b /\ f[i-1] # f[k-1] /\ f[i] # first /\ f[i-1] # p1[first]
      BY <2>2, <1>1, <1>2 DEF RingOf
    <3>4. f[i] # next[b]
      BY <2>2, <1>1 DEF RingOf
    <3> QED
      BY <3>1, <3>2, <3>3, <3>4, <1>0, <1>1, <1>2
  <2>3. CASE i > 0 /\ i = k
    <3>1. g[i] = f[k-1] /\ g[i+1] = f[k+1] /\ f[k+1] \in Buf /\ next[b] = f[k+1] /\ k # n-1
      BY <2>3, <1>1 DEF RingOf
    <3>2. f[k-1] # b /\ f[k+1] # b /\ f[k+1] # first /\ f[k-1] # p1[first]
      BY <2>3, <3>1, <1>1, <1>2 DEF RingOf
    <3> QED
      BY <3>1, <3>2, <1>0, <1>1, <1>2
  <2>4. CASE i > k
    <3>1. g[i] = f[i] /\ g[i+1] = f[i+1] /\ f[i] \in Buf /\ f[i+1] \in Buf /\ k # n-1
      BY <2>4 DEF RingOf
    <3>2. next[f[i]] = f[i+1] /\ prev[f[i+1]] = f[i]
      BY DEF RingOf
    <3>3. f[i] # b /\ f[i] # f[k-1] /\ f[i] # p1[first] /\ f[i+1] # first /\ f[i+1] # b /\ f[i+1] # f[k+1]
      BY <2>4, <3>1, <1>1, <1>2 DEF RingOf
    <3> QED
      BY <3>1, <3>2, <3>3, <1>0, <1>1, <1>2
  <2> QED
    BY <2>1, <2>2, <2>3, <2>4
<1>8. n2[g[n-1]] = b /\ p2[b] = g[n-1]
  <2>1. g[n-1] = p1[first]
    BY <1>2
  <2>2. p1[first] # b
    BY <1>1, <1>2 DEF RingOf
  <2> QED
    BY <2>1, <2>2, <1>0, <1>1, <1>2
<1> QED
  <2>1. RingOf(g, n, b, n2, p2)
    BY <1>4, <1>5, <1>7, <1>8 DEF RingOf
  <2> QED
    BY <2>1, <1>3, <1>6 DEF p2, n2

\* Without buffer b the links make a ring of the others.
Closes(f, n, first, next, prev, b) ==
  /\ Joined(next, prev, b) \in [Buf -> Buf] /\ Joined(prev, next, b) \in [Buf -> Buf]
  /\ \E g : /\ RingOf(g, n-1, First2(first, next, b), Joined(next, prev, b), Joined(prev, next, b))
           /\ Members(g, n-1) = Members(f, n) \ {b}

\* What AllocateHMASpace makes of it, taking the buffer at position k out.
LEMMA DropRing ==
  ASSUME NEW n \in Nat, n >= 3, NEW f, NEW first, NEW next \in [Buf -> Buf], NEW prev \in [Buf -> Buf],
         RingOf(f, n, first, next, prev), NEW k \in 0..n-1, NEW b, b = f[k]
  PROVE  Closes(f, n, first, next, prev, b)
<1> SUFFICES /\ Joined(next, prev, b) \in [Buf -> Buf] /\ Joined(prev, next, b) \in [Buf -> Buf]
             /\ \E g : /\ RingOf(g, n-1, First2(first, next, b), Joined(next, prev, b), Joined(prev, next, b))
                      /\ Members(g, n-1) = Members(f, n) \ {b}
  BY DEF Closes
<1> DEFINE n2 == Joined(next, prev, b)
           p2 == Joined(prev, next, b)
           first2 == First2(first, next, b)
<1>0. /\ n2 = [next EXCEPT ![prev[b]] = next[b]] /\ p2 = [prev EXCEPT ![next[b]] = prev[b]]
      /\ first2 = IF b = first THEN next[b] ELSE first
  BY DEF Joined, First2
<1> HIDE DEF n2, p2, first2
<1> DEFINE g == [i \in 0..(n-1)-1 |-> IF i < k THEN f[i] ELSE f[i+1]]
<1>1. /\ b \in Buf /\ f[0] = first /\ f[1] \in Buf /\ f[n-1] \in Buf /\ (b = first <=> k = 0)
      /\ prev[b] = (IF k = 0 THEN f[n-1] ELSE f[k-1])
      /\ next[b] = (IF k = n-1 THEN first ELSE f[k+1])
  BY DEF RingOf
<1>2. first2 = (IF k = 0 THEN f[1] ELSE first) /\ g[0] = first2
  BY <1>0, <1>1
<1>3. n2 \in [Buf -> Buf] /\ p2 \in [Buf -> Buf] /\ prev[b] \in Buf /\ next[b] \in Buf
  BY <1>0, <1>1
<1>4. g \in [0..(n-1)-1 -> Buf]
  BY DEF RingOf
<1>5. \A i, j \in 0..(n-1)-1 : g[i] = g[j] => i = j
  <2> SUFFICES ASSUME NEW i \in 0..(n-1)-1, NEW j \in 0..(n-1)-1, g[i] = g[j] PROVE i = j
    OBVIOUS
  <2> DEFINE At(m) == IF m < k THEN m ELSE m + 1
  <2>1. \A m \in 0..(n-1)-1 : At(m) \in 0..n-1 /\ g[m] = f[At(m)]
    OBVIOUS
  <2>2. At(i) = At(j)
    BY <2>1 DEF RingOf
  <2> QED
    BY <2>2
<1>6. Members(g, n-1) = Members(f, n) \ {b}
  <2>1. \A m \in 0..(n-1)-1 : \E l \in 0..n-1 : g[m] = f[l] /\ l # k
    <3> TAKE m \in 0..(n-1)-1
    <3> WITNESS (IF m < k THEN m ELSE m + 1) \in 0..n-1
    <3> QED
      OBVIOUS
  <2>2. \A m \in 0..n-1 : m # k => \E l \in 0..(n-1)-1 : f[m] = g[l]
    <3> SUFFICES ASSUME NEW m \in 0..n-1, m # k PROVE \E l \in 0..(n-1)-1 : f[m] = g[l]
      OBVIOUS
    <3> WITNESS (IF m < k THEN m ELSE m - 1) \in 0..(n-1)-1
    <3> QED
      OBVIOUS
  <2>3. \A l \in 0..n-1 : l # k => f[l] # b
    BY DEF RingOf
  <2> HIDE DEF g
  <2>4. \A x : x \in Members(g, n-1) <=> \E m \in 0..(n-1)-1 : x = g[m]
    BY DEF Members
  <2>5. \A x : x \in Members(f, n) <=> \E m \in 0..n-1 : x = f[m]
    BY DEF Members
  <2>6. Members(g, n-1) \subseteq Members(f, n) \ {b}
    BY <2>1, <2>3, <2>4, <2>5
  <2>7. Members(f, n) \ {b} \subseteq Members(g, n-1)
    BY <2>2, <2>4, <2>5
  <2> QED
    BY <2>6, <2>7
<1>7. ASSUME NEW i \in 0..(n-1)-2
      PROVE  n2[g[i]] = g[i+1] /\ p2[g[i+1]] = g[i]
  <2>1. CASE i + 1 < k
    <3>1. g[i] = f[i] /\ g[i+1] = f[i+1] /\ f[i] \in Buf /\ f[i+1] \in Buf
      BY <2>1 DEF RingOf
    <3>2. next[f[i]] = f[i+1] /\ prev[f[i+1]] = f[i]
      BY DEF RingOf
    <3>3. f[i] # prev[b] /\ f[i+1] # next[b]
      BY <2>1, <1>1 DEF RingOf
    <3> QED
      BY <3>1, <3>2, <3>3, <1>0, <1>3
  <2>2. CASE i + 1 = k
    BY <2>2, <1>0, <1>1, <1>3 DEF RingOf
  <2>3. CASE i + 1 > k
    <3>1. g[i] = f[i+1] /\ g[i+1] = f[i+2] /\ f[i+1] \in Buf /\ f[i+2] \in Buf
      BY <2>3 DEF RingOf
    <3>2. next[f[i+1]] = f[i+2] /\ prev[f[i+2]] = f[i+1]
      <4>1. i + 1 \in 0..n-2 /\ (i + 1) + 1 = i + 2
        OBVIOUS
      <4> QED
        BY <4>1 DEF RingOf
    <3>3. f[i+1] # prev[b] /\ f[i+2] # next[b]
      BY <2>3, <1>1 DEF RingOf
    <3> QED
      BY <3>1, <3>2, <3>3, <1>0, <1>3
  <2> QED
    BY <2>1, <2>2, <2>3
<1>8. n2[g[(n-1)-1]] = first2 /\ p2[first2] = g[(n-1)-1]
  <2>1. CASE k = n-1
    <3>1. g[(n-1)-1] = f[n-2] /\ prev[b] = f[n-2] /\ next[b] = first /\ first2 = first
      BY <2>1, <1>1, <1>2
    <3> QED
      BY <3>1, <1>0, <1>3
  <2>2. CASE k # n-1
    <3>1. g[(n-1)-1] = f[n-1]
      BY <2>2
    <3>2. CASE k = 0
      BY <2>2, <3>1, <3>2, <1>0, <1>1, <1>2, <1>3
    <3>3. CASE k # 0
      <4>1. next[b] = f[k+1] /\ prev[b] = f[k-1] /\ first2 = first
        BY <2>2, <3>3, <1>1, <1>2
      <4>2. f[n-1] # f[k-1] /\ f[k+1] # first /\ first \in Buf
        BY <2>2, <3>3, <1>1 DEF RingOf
      <4> QED
        BY <4>1, <4>2, <3>1, <1>0, <1>1, <1>3 DEF RingOf
    <3> QED
      BY <3>2, <3>3
  <2> QED
    BY <2>1, <2>2
<1> QED
  <2>1. RingOf(g, n-1, first2, n2, p2)
    BY <1>2, <1>4, <1>5, <1>7, <1>8 DEF RingOf
  <2> QED
    BY <2>1, <1>3, <1>6 DEF n2, p2, first2

-----------------------------------------------------------------------------
(* The inductive invariant, whatever may fail.                             *)

Pos == 0..nbuffers-1
Order == [i \in Pos |-> Chain[i]]

RingInv ==
  /\ nbuffers \in 2..Buffers
  /\ b_next \in [Buf -> Buf] /\ b_prev \in [Buf -> Buf]
  /\ RingOf(Order, nbuffers, firstbuf, b_next, b_prev)
  /\ Buf \ HmaBufs \subseteq Linked

DataInv ==
  /\ b_flag \in [Buf -> SUBSET Flags] /\ b_blk \in [Buf -> Blk] /\ b_data \in [Buf -> Vals]
  /\ disk \in [Blk -> Vals] /\ latest \in [Cached -> Vals] /\ told \subseteq Cached
  /\ \A b \in Buf : "VALID" \in b_flag[b] => b_blk[b] \in Cached

GetOps == {"read", "write", "over", "fat", "link", "dir"}
WalkOps == {"flush_buffers", "rebuild", "flush", "dread", "hma"}

\* Where a call is, with what.
CallInv ==
  /\ pc \in {"idle", "flush1", "load", "have", "fat", "walk", "dread", "transfer"}
  /\ pc \in {"load", "have"} => op \in GetOps
  /\ pc = "fat" => op \in {"fat", "link"}
  /\ pc = "walk" => op \in WalkOps
  /\ pc = "flush1" => op \in GetOps \cup WalkOps
  /\ pc = "dread" => op = "dread"
  /\ pc = "transfer" => op \in {"dwrite", "int26"}
  /\ op \in {"read", "write", "over", "dir"} => blk \in DataBlk
  /\ op \in {"fat", "link"} => blk \in FatBlk
  /\ op \in {"dread", "dwrite", "int26"} => blk \in DataBlk /\ cnt \in Nat /\ Run(blk, cnt) \subseteq DataBlk
  /\ op = "hma" => blk[2] \subseteq HmaBufs
  /\ op = "hma" /\ pc = "flush1" => bp \in blk[2]
  /\ pc \in {"flush1", "load", "have", "fat", "walk"} => bp \in Linked
  /\ bp \in Buf \cup {NoBuf} /\ copies \in 0..2 /\ ok \in BOOLEAN

\* The buffer getblk works on: in front, and the only one for the block.
GetInv ==
  /\ pc \in {"flush1", "load", "have", "fat"} /\ op \in GetOps => bp = firstbuf
  /\ pc \in {"flush1", "load"} /\ op \in GetOps => \A b \in Linked : ~valid(b, blk)
  /\ pc \in {"have", "fat"} => valid(bp, blk) /\ "UNCACHE" \notin b_flag[bp]
  /\ pc = "fat" => "FAT" \in b_flag[bp]

HeldInv ==
  held # NoBuf =>
    /\ pc \in {"flush1", "load", "have", "fat"} /\ op \in {"fat", "link"}
    /\ held \in Linked /\ held # bp /\ "FAT" \in b_flag[held]
    /\ blk[2] >= 1 /\ valid(held, <<blk[1], blk[2] - 1>>)

Inv == RingInv /\ DataInv /\ CallInv /\ GetInv /\ HeldInv /\ OneCopy

-----------------------------------------------------------------------------
(* The inductive invariant while nothing is read in vain or written behind *)
(* the cache.                                                              *)

\* No read fails for good, and no program writes the disk past the file
\* system: with either, buffers do go stale (ReturnsBlock).
Calm == ReadOutcomes \subseteq {"ok", "ignore"} /\ AbsCounts = {} /\ ~ExtWrites

\* FAT buffers are those of FAT blocks, at least while dirty.
FlagInv ==
  \A b \in Buf :
    /\ "FAT" \in b_flag[b] => b_blk[b] \in FatBlk
    /\ dirty(b) /\ b_blk[b] \in FatBlk => "FAT" \in b_flag[b]

\* What a loop over the ring is to leave clean.
Due(b) == IF op = "rebuild" THEN b_blk[b][1] = blk[1] ELSE op = "dread" /\ b_blk[b] \in Run(blk, cnt)

\* How far flush1 and the loops are.
ProgressInv ==
  /\ pc = "load" => "DIRTY" \notin b_flag[bp]
  /\ pc = "transfer" => op = "dwrite" /\ \A b \in Linked, c \in Run(blk, cnt) : ~valid(b, c)
  /\ pc = "flush1" /\ dirty(bp) /\ b_blk[bp] \notin told =>
       /\ copies >= 1 => disk[b_blk[bp]] = b_data[bp]
       /\ copies >= 2 => disk[Mirror(b_blk[bp])] = b_data[bp]
  /\ pc = "flush1" /\ ~ok => dirty(bp) /\ b_blk[bp] \in told
  /\ pc \in {"walk", "flush1"} => \A i, j \in Pos : bp = Chain[j] /\ i < j => ~(Due(Chain[i]) /\ dirty(Chain[i]))
  /\ pc = "dread" => \A b \in Linked : Due(b) => ~dirty(b)

CalmInv == FlagInv /\ ProgressInv /\ Coherent /\ FatMirrored
-----------------------------------------------------------------------------
(* The ring in a state and in the next one.                                *)

LEMMA Constants ==
  /\ Buffers \in Nat /\ Buffers >= 2 /\ NoBuf \notin Buf
  /\ FatSize \in Nat /\ FatSize >= 1 /\ DataSize \in Nat /\ IsFiniteSet(Buf)
  /\ HmaBufs \subseteq Buf /\ Cardinality(Buf \ HmaBufs) >= 2
<1>1. IsFiniteSet(Buf) /\ Buf \ HmaBufs \in SUBSET Buf
  BY BufAssumption DEF BufAssumption
<1>2. Cardinality(Buf) \in Nat /\ Cardinality(Buf \ HmaBufs) \in Nat /\ Cardinality(Buf \ HmaBufs) =< Cardinality(Buf)
  BY <1>1, FS_Subset, FS_CardinalityType
<1> QED
  BY <1>1, <1>2, BufAssumption DEF BufAssumption, Buffers, NoBuf

\* A walk of full length can be chosen; a sequence that follows the links is the
\* chain.
LEMMA SomeWalk ==
  ASSUME NEW first, NEW next
  PROVE  IsWalk(CHOOSE g : IsWalk(g, Buffers, first, next), Buffers, first, next)
<1>1. Buffers \in Nat
  BY Constants
<1>2. \E g : IsWalk(g, Buffers, first, next)
  BY <1>1, WalkExists, Zenon
<1> QED
  BY <1>2, Zenon

LEMMA RingWalk ==
  ASSUME NEW n \in 2..Buffers, NEW f, NEW first, NEW next, NEW prev, NEW c,
         RingOf(f, n, first, next, prev), IsWalk(c, Buffers, first, next)
  PROVE  \A i \in 0..n-1 : c[i] = f[i]
<1>1. Follows(f, n, first, next)
  BY DEF RingOf, Follows
<1>2. n \in 1..Buffers /\ Buffers \in Nat
  BY Constants
<1> QED
  BY <1>1, <1>2, WalksAgree

LEMMA RingNow ==
  ASSUME NEW f, nbuffers \in 2..Buffers, RingOf(f, nbuffers, firstbuf, b_next, b_prev)
  PROVE  Order = f /\ Linked = Members(f, nbuffers)
<1>1. Chain = CHOOSE g : IsWalk(g, Buffers, firstbuf, b_next)
  BY DEF Chain, IsWalk
<1>2. IsWalk(Chain, Buffers, firstbuf, b_next)
  BY <1>1, SomeWalk, Zenon
<1>3. \A i \in 0..nbuffers-1 : Chain[i] = f[i]
  <2> DEFINE n == nbuffers
             first == firstbuf
             next == b_next
             prev == b_prev
             c == Chain
  <2>1. n \in 2..Buffers /\ RingOf(f, n, first, next, prev) /\ IsWalk(c, Buffers, first, next)
    BY <1>2
  <2> HIDE DEF n, first, next, prev, c
  <2>2. \A i \in 0..n-1 : c[i] = f[i]
    BY ONLY <2>1, RingWalk
  <2> QED
    BY <2>2 DEF n, c
<1>4. f = [i \in 0..nbuffers-1 |-> f[i]]
  BY DEF RingOf
<1>5. Order = f
  BY <1>3, <1>4 DEF Order, Pos
<1>6. Linked = Members(f, nbuffers)
  BY <1>3 DEF Linked, Members
<1> QED
  BY <1>5, <1>6

LEMMA RingNext ==
  ASSUME NEW f, nbuffers' \in 2..Buffers, RingOf(f, nbuffers', firstbuf', b_next', b_prev')
  PROVE  Order' = f /\ Linked' = Members(f, nbuffers')
<1>1. Chain' = CHOOSE g : IsWalk(g, Buffers, firstbuf', b_next')
  BY DEF Chain, IsWalk
<1>2. IsWalk(Chain', Buffers, firstbuf', b_next')
  BY <1>1, SomeWalk, Zenon
<1>3. \A i \in 0..nbuffers'-1 : Chain'[i] = f[i]
  <2> DEFINE n == nbuffers'
             first == firstbuf'
             next == b_next'
             prev == b_prev'
             c == Chain'
  <2>1. n \in 2..Buffers /\ RingOf(f, n, first, next, prev) /\ IsWalk(c, Buffers, first, next)
    BY <1>2
  <2> HIDE DEF n, first, next, prev, c
  <2>2. \A i \in 0..n-1 : c[i] = f[i]
    BY ONLY <2>1, RingWalk
  <2> QED
    BY <2>2 DEF n, c
<1>4. f = [i \in 0..nbuffers'-1 |-> f[i]]
  BY DEF RingOf
<1>5. Order' = f
  BY <1>3, <1>4 DEF Order, Pos
<1>6. Linked' = Members(f, nbuffers')
  BY <1>3 DEF Linked, Members
<1> QED
  BY <1>5, <1>6

\* What the invariant says about the chain.
LEMMA RingFacts ==
  ASSUME RingInv
  PROVE  /\ nbuffers \in Nat /\ nbuffers >= 2 /\ Linked \subseteq Buf /\ firstbuf \in Linked
         /\ Linked = {Chain[i] : i \in Pos}
         /\ \A i \in Pos : Chain[i] \in Linked
         /\ \A i, j \in Pos : Chain[i] = Chain[j] => i = j
         /\ Chain[0] = firstbuf /\ b_prev[firstbuf] = Chain[nbuffers-1] /\ b_next[Chain[nbuffers-1]] = firstbuf
         /\ \A i \in 0..nbuffers-2 : b_next[Chain[i]] = Chain[i+1] /\ b_prev[Chain[i+1]] = Chain[i]
         /\ \A b \in Linked : b_next[b] \in Linked
<1>1. /\ nbuffers \in Nat /\ nbuffers >= 2
      /\ \A i \in Pos : Order[i] = Chain[i] /\ Chain[i] \in Buf
      /\ \A i, j \in Pos : Chain[i] = Chain[j] => i = j
      /\ Chain[0] = firstbuf
  BY Constants DEF RingInv, RingOf, Pos, Order
<1>2. Linked = {Chain[i] : i \in Pos}
  BY DEF Linked, Pos
<1>3. /\ b_prev[firstbuf] = Chain[nbuffers-1] /\ b_next[Chain[nbuffers-1]] = firstbuf
      /\ \A i \in 0..nbuffers-2 : b_next[Chain[i]] = Chain[i+1] /\ b_prev[Chain[i+1]] = Chain[i]
  <2>1. nbuffers - 1 \in Pos /\ \A i \in 0..nbuffers-2 : i \in Pos /\ i + 1 \in Pos
    BY <1>1 DEF Pos
  <2> QED
    BY <1>1, <2>1 DEF RingInv, RingOf
<1>4. \A i \in Pos : i = nbuffers - 1 \/ (i \in 0..nbuffers-2 /\ i + 1 \in Pos)
  BY <1>1 DEF Pos
<1>5. 0 \in Pos
  BY <1>1 DEF Pos
<1> QED
  BY <1>1, <1>2, <1>3, <1>4, <1>5

LEMMA RingSame ==
  ASSUME UNCHANGED ring
  PROVE  Linked' = Linked /\ Pos' = Pos /\ Chain' = Chain /\ (RingInv => RingInv')
<1>1. Chain' = Chain
  BY DEF ring, Chain
<1>2. Linked' = Linked /\ Pos' = Pos /\ Order' = Order
  BY <1>1 DEF ring, Linked, Pos, Order
<1> QED
  BY <1>1, <1>2 DEF RingInv, ring

LEMMA ToFrontRing ==
  ASSUME RingInv, NEW b \in Linked, ToFront(b), nbuffers' = nbuffers
  PROVE  RingInv' /\ Linked' = Linked /\ firstbuf' = b
<1>1. CASE b = firstbuf
  BY <1>1, RingSame DEF ToFront, ring
<1>2. CASE b # firstbuf
  <2>1. PICK k \in Pos : b = Chain[k]
    BY RingFacts
  <2>2. k \in 1..nbuffers-1 /\ b = Order[k]
    <3>1. k # 0
      BY <2>1, <1>2, RingFacts
    <3> QED
      BY <3>1, <2>1, RingFacts DEF Pos, Order
  <2>3. firstbuf' = b /\ move_buffer(b, firstbuf)
    BY <1>2 DEF ToFront
  <2>4. b_prev' = MovedPrev(b_next, b_prev, firstbuf, b) /\ b_next' = MovedNext(b_next, b_prev, firstbuf, b)
    BY <2>3 DEF move_buffer, MovedPrev, MovedNext, Joined
  <2>6. /\ nbuffers \in Nat /\ nbuffers >= 2 /\ b_next \in [Buf -> Buf] /\ b_prev \in [Buf -> Buf]
        /\ RingOf(Order, nbuffers, firstbuf, b_next, b_prev)
    BY RingFacts DEF RingInv
  <2>7. /\ b_next' \in [Buf -> Buf] /\ b_prev' \in [Buf -> Buf]
        /\ \E g : RingOf(g, nbuffers, b, b_next', b_prev') /\ Members(g, nbuffers) = Members(Order, nbuffers)
    <3> DEFINE n == nbuffers
               f == Order
               next == b_next
               prev == b_prev
               first == firstbuf
    <3>1. /\ n \in Nat /\ n >= 2 /\ next \in [Buf -> Buf] /\ prev \in [Buf -> Buf]
          /\ RingOf(f, n, first, next, prev) /\ k \in 1..n-1 /\ b = f[k]
      BY <2>2, <2>6
    <3> HIDE DEF n, f, next, prev, first
    <3>2. /\ MovedNext(next, prev, first, b) \in [Buf -> Buf] /\ MovedPrev(next, prev, first, b) \in [Buf -> Buf]
          /\ \E g : /\ RingOf(g, n, b, MovedNext(next, prev, first, b), MovedPrev(next, prev, first, b))
                   /\ Members(g, n) = Members(f, n)
      BY <3>1, MoveRing
    <3> QED
      BY <3>2, <2>4 DEF n, f, next, prev, first
  <2>8. PICK g : RingOf(g, nbuffers, b, b_next', b_prev') /\ Members(g, nbuffers) = Members(Order, nbuffers)
    BY <2>7
  <2>9. nbuffers' \in 2..Buffers /\ nbuffers \in 2..Buffers
    BY DEF RingInv
  <2>10. Order' = g /\ Linked' = Members(Order, nbuffers)
    BY <2>3, <2>8, <2>9, RingNext
  <2>11. Linked' = Linked
    BY <2>6, <2>9, <2>10, RingNow
  <2> QED
    BY <2>3, <2>7, <2>8, <2>9, <2>10, <2>11 DEF RingInv
<1> QED
  BY <1>1, <1>2

\* There is no end to the ring while a buffer of HMA is in it.
LEMMA ThreeLeft ==
  ASSUME RingInv, NEW b \in Linked, b \in HmaBufs
  PROVE  nbuffers >= 3
<1> DEFINE K == Buf \ HmaBufs
<1>1. IsFiniteSet(K) /\ Cardinality(K) \in Nat /\ Cardinality(K) >= 2
  BY Constants, FS_Subset, FS_CardinalityType
<1>2. IsFiniteSet(K \cup {b}) /\ Cardinality(K \cup {b}) = Cardinality(K) + 1
  BY <1>1, FS_AddElement
<1>3. Pos = 0..nbuffers-1 /\ nbuffers \in Nat /\ IsFiniteSet(Pos) /\ Cardinality(Pos) = nbuffers
  BY RingFacts, FS_Interval DEF Pos
<1>4. Linked = {Chain[i] : i \in Pos}
  BY RingFacts
<1>5. IsFiniteSet(Linked) /\ Cardinality(Linked) =< nbuffers
  <2>1. Order \in [Pos -> Linked] /\ \A x \in Linked : \E i \in Pos : Order[i] = x
    BY <1>4 DEF Order
  <2>2. Order \in Surjection(Pos, Linked)
    BY <2>1, Fun_IsSurj, Zenon
  <2> QED
    BY <2>2, <1>3, FS_Surjection
<1>6. K \cup {b} \in SUBSET Linked
  BY DEF RingInv
<1>7. Cardinality(K \cup {b}) =< Cardinality(Linked) /\ Cardinality(Linked) \in Nat
  BY <1>5, <1>6, FS_Subset, FS_CardinalityType
<1> HIDE DEF K
<1> QED
  BY <1>1, <1>2, <1>3, <1>5, <1>7

LEMMA SoldRing ==
  ASSUME RingInv, NEW b \in Linked, b \in HmaBufs,
         b_next' = [b_next EXCEPT ![b_prev[b]] = b_next[b]],
         b_prev' = [b_prev EXCEPT ![b_next[b]] = b_prev[b]],
         firstbuf' = IF b = firstbuf THEN b_next[b] ELSE firstbuf,
         nbuffers' = nbuffers - 1
  PROVE  RingInv' /\ Linked' = Linked \ {b} /\ b_next[b] \in Linked'
<1>1. nbuffers \in Nat /\ nbuffers >= 3 /\ nbuffers' \in 2..Buffers /\ nbuffers \in 2..Buffers
  BY ThreeLeft, Constants DEF RingInv
<1>2. PICK k \in Pos : b = Chain[k]
  BY RingFacts
<1>3. k \in 0..nbuffers-1 /\ b = Order[k]
  BY <1>2 DEF Pos, Order
<1>4. /\ b_next \in [Buf -> Buf] /\ b_prev \in [Buf -> Buf]
      /\ RingOf(Order, nbuffers, firstbuf, b_next, b_prev)
  BY DEF RingInv
<1>11. b_next' = Joined(b_next, b_prev, b) /\ b_prev' = Joined(b_prev, b_next, b) /\ firstbuf' = First2(firstbuf, b_next, b)
  BY DEF Joined, First2
<1>5. /\ b_next' \in [Buf -> Buf] /\ b_prev' \in [Buf -> Buf]
      /\ \E g : RingOf(g, nbuffers-1, firstbuf', b_next', b_prev') /\ Members(g, nbuffers-1) = Members(Order, nbuffers) \ {b}
  <2> DEFINE n == nbuffers
             f == Order
             next == b_next
             prev == b_prev
             first == firstbuf
  <2>1. /\ n \in Nat /\ n >= 3 /\ next \in [Buf -> Buf] /\ prev \in [Buf -> Buf]
        /\ RingOf(f, n, first, next, prev) /\ k \in 0..n-1 /\ b = f[k]
    BY <1>1, <1>3, <1>4
  <2> HIDE DEF n, f, next, prev, first
  <2>2. Closes(f, n, first, next, prev, b)
    BY ONLY <2>1, DropRing
  <2> QED
    BY <2>2, <1>11 DEF Closes, n, f, next, prev, first
<1>6. PICK g : RingOf(g, nbuffers-1, firstbuf', b_next', b_prev') /\ Members(g, nbuffers-1) = Members(Order, nbuffers) \ {b}
  BY <1>5
<1>7. Order' = g /\ Linked' = Members(Order, nbuffers) \ {b}
  BY <1>1, <1>6, RingNext
<1>8. Linked' = Linked \ {b}
  BY <1>1, <1>4, <1>7, RingNow
<1>9. b_next[b] \in Linked /\ b_next[b] # b
  <2>1. CASE k = nbuffers-1
    <3>1. b_next[b] = Chain[0] /\ 0 \in Pos /\ k # 0
      BY <2>1, <1>1, <1>2, RingFacts DEF Pos
    <3> QED
      BY <3>1, <1>2, RingFacts
  <2>2. CASE k # nbuffers-1
    <3>1. k \in 0..nbuffers-2 /\ k + 1 \in Pos /\ k # k + 1
      BY <2>2, <1>1, <1>3 DEF Pos
    <3>2. b_next[b] = Chain[k+1]
      BY <3>1, <1>2, RingFacts
    <3> QED
      BY <3>1, <3>2, <1>2, RingFacts
  <2> QED
    BY <2>1, <2>2
<1>10. Buf \ HmaBufs \subseteq Linked'
  BY <1>8 DEF RingInv
<1> QED
  BY <1>1, <1>5, <1>6, <1>7, <1>8, <1>9, <1>10 DEF RingInv

-----------------------------------------------------------------------------
(* The ring config_init_buffers builds.                                    *)

LEMMA FirstRing ==
  ASSUME NEW f \in Bijection(0..Buffers-1, Buf), NEW next, NEW prev,
         next = [b \in Buf |-> f[(Inverse(f, 0..Buffers-1, Buf)[b] + 1) % Buffers]],
         prev = [b \in Buf |-> f[(Inverse(f, 0..Buffers-1, Buf)[b] + Buffers - 1) % Buffers]]
  PROVE  /\ next \in [Buf -> Buf] /\ prev \in [Buf -> Buf]
         /\ RingOf(f, Buffers, f[0], next, prev) /\ Members(f, Buffers) = Buf
<1> DEFINE N == Buffers
           P == 0..N-1
           inv == Inverse(f, P, Buf)
<1>1. N \in Nat /\ N >= 2
  BY Constants
<1>2. /\ f \in [P -> Buf] /\ \A i, j \in P : f[i] = f[j] => i = j
      /\ \A b \in Buf : \E i \in P : f[i] = b
  BY Fun_IsInj, Fun_IsSurj DEF Bijection, Injection, Surjection, IsInjective, Range
<1>3. inv \in [Buf -> P] /\ \A i \in P : inv[f[i]] = i
  <2>1. inv \in Bijection(Buf, P) /\ \A i \in P : inv[f[i]] = i
    BY Fun_BijInverse, Zenon
  <2> QED
    BY <2>1 DEF Bijection, Injection
<1>4. next = [b \in Buf |-> f[(inv[b] + 1) % N]] /\ prev = [b \in Buf |-> f[(inv[b] + N - 1) % N]]
  OBVIOUS
<1> HIDE DEF N, inv
<1>5. \A i \in P : /\ (i + 1) % N = (IF i = N - 1 THEN 0 ELSE i + 1)
                    /\ (i + N - 1) % N = (IF i = 0 THEN N - 1 ELSE i - 1)
  <2>1. N >= 1
    BY <1>1
  <2> QED
    BY <2>1, <1>1, Around, Zenon
<1>6. \A i \in P : /\ next[f[i]] = (IF i = N - 1 THEN f[0] ELSE f[i+1])
                    /\ prev[f[i]] = (IF i = 0 THEN f[N-1] ELSE f[i-1])
  <2> SUFFICES ASSUME NEW i \in P
               PROVE  /\ next[f[i]] = (IF i = N - 1 THEN f[0] ELSE f[i+1])
                      /\ prev[f[i]] = (IF i = 0 THEN f[N-1] ELSE f[i-1])
    OBVIOUS
  <2>1. f[i] \in Buf /\ inv[f[i]] = i
    BY <1>2, <1>3
  <2>2. next[f[i]] = f[(i + 1) % N] /\ prev[f[i]] = f[(i + N - 1) % N]
    <3> HIDE DEF P
    <3> QED
      BY <2>1, <1>4
  <2> QED
    BY <2>2, <1>5
<1>7. next \in [Buf -> Buf] /\ prev \in [Buf -> Buf]
  <2>1. \A i \in P : (i + 1) % N \in P /\ (i + N - 1) % N \in P
    BY <1>1, <1>5
  <2> HIDE DEF P
  <2> QED
    BY <2>1, <1>2, <1>3, <1>4
<1>8. RingOf(f, N, f[0], next, prev)
  <2>1. \A i \in 0..N-2 : i \in P /\ i + 1 \in P /\ i # N - 1 /\ i + 1 # 0 /\ (i + 1) - 1 = i
    BY <1>1
  <2>2. N - 1 \in P /\ 0 \in P /\ 0 # N - 1
    BY <1>1
  <2>3. \A i \in 0..N-2 : next[f[i]] = f[i+1] /\ prev[f[i+1]] = f[i]
    BY <2>1, <1>6
  <2>4. next[f[N-1]] = f[0] /\ prev[f[0]] = f[N-1]
    BY <2>2, <1>6
  <2> QED
    BY <2>3, <2>4, <1>2 DEF RingOf
<1>9. Members(f, N) = Buf
  BY <1>2 DEF Members
<1> QED
  BY <1>7, <1>8, <1>9 DEF N

LEMMA InitInv == Init => Inv
<1> SUFFICES ASSUME Init PROVE Inv
  OBVIOUS
<1>1. /\ nbuffers = Buffers /\ nbuffers \in 2..Buffers
  BY Constants DEF Init
<1>2. PICK f \in Bijection(0..Buffers-1, Buf) :
       /\ firstbuf = f[0]
       /\ b_next = [b \in Buf |-> f[(Inverse(f, 0..Buffers-1, Buf)[b] + 1) % Buffers]]
       /\ b_prev = [b \in Buf |-> f[(Inverse(f, 0..Buffers-1, Buf)[b] + Buffers - 1) % Buffers]]
  BY DEF Init
<1>3. /\ b_next \in [Buf -> Buf] /\ b_prev \in [Buf -> Buf]
      /\ RingOf(f, Buffers, firstbuf, b_next, b_prev) /\ Members(f, Buffers) = Buf
  BY <1>2, FirstRing
<1>4. RingInv /\ Linked = Buf
  BY <1>1, <1>3, RingNow DEF RingInv
<1>5. DataInv
  BY Constants DEF Init, DataInv, Blk
<1>6. CallInv /\ GetInv /\ HeldInv
  BY DEF Init, CallInv, GetInv, HeldInv
<1>7. OneCopy
  BY <1>4 DEF Init, OneCopy
<1> QED
  BY <1>4, <1>5, <1>6, <1>7 DEF Inv

-----------------------------------------------------------------------------
(* What the steps have in common.                                          *)

LEMMA Blocks ==
  /\ Cached \subseteq Blk /\ DataBlk \subseteq Cached /\ FatBlk \subseteq Cached
  /\ \A c \in FatBlk : Mirror(c) \in Blk
BY Constants DEF Cached, DataBlk, FatBlk, Blk, Mirror

\* The block of a call of getblk.
LEMMA GetBlk ==
  ASSUME CallInv, op \in GetOps
  PROVE  blk \in Cached /\ blk \in Blk
BY Blocks DEF CallInv, GetOps

\* A call that ends, or was abandoned, leaves nothing to keep.
LEMMA EndInv == End => CallInv' /\ GetInv' /\ HeldInv'
BY DEF End, CallInv, GetInv, HeldInv, GetOps, WalkOps

\* Between calls, and in the loops over the ring, nothing is held.
LEMMA NotHeld ==
  ASSUME HeldInv, pc \in {"idle", "walk", "dread", "transfer"} \/ op \notin {"fat", "link"}
  PROVE  held = NoBuf
BY DEF HeldInv

\* Buffers that only lose their block do not come to share one.
LEMMA OneCopyLess ==
  ASSUME OneCopy, Linked' \subseteq Linked, b_blk' = b_blk,
         \A b \in Linked' : "VALID" \in b_flag'[b] => "VALID" \in b_flag[b]
  PROVE  OneCopy'
BY DEF OneCopy

\* A block put in a buffer is in no other one.
LEMMA OneCopyPut ==
  ASSUME OneCopy, Linked' = Linked, NEW x \in Linked, NEW c, b_blk' = [b_blk EXCEPT ![x] = c],
         b_blk \in [Buf -> Blk], Linked \subseteq Buf,
         \A b \in Linked : b # x => ~valid(b, c),
         \A b \in Linked : b # x => ("VALID" \in b_flag'[b] => "VALID" \in b_flag[b])
  PROVE  OneCopy'
BY DEF OneCopy, valid

\* The buffer to reuse is one of the ring; it is not the first one, if that is
\* a FAT buffer and not to be released soon.
LEMMA VictimLinked ==
  ASSUME RingInv
  PROVE  /\ victim \in Linked
         /\ "FAT" \in b_flag[firstbuf] /\ "UNCACHE" \notin b_flag[firstbuf] => victim # firstbuf
<1>1. nbuffers \in Nat /\ \A f : With(f) \subseteq 0..nbuffers-1 /\ Without(f) \subseteq 0..nbuffers-1
  BY RingFacts DEF With, Without
<1>2. \A f : With(f) # {} => Max(With(f)) \in With(f)
  BY <1>1, MaxIn
<1>3. \A f : Without(f) # {} => Max(Without(f)) \in Without(f)
  BY <1>1, MaxIn
<1>4. CASE With("UNCACHE") # {}
  <2>1. victim = Chain[Max(With("UNCACHE"))] /\ Max(With("UNCACHE")) \in With("UNCACHE")
    BY <1>2, <1>4 DEF victim
  <2> QED
    BY <2>1, <1>1, RingFacts DEF With, Pos
<1>5. CASE /\ With("UNCACHE") = {} /\ "FAT" \in b_flag[firstbuf]
           /\ Cardinality(With("FAT")) < 3 /\ Without("FAT") # {}
  <2>1. victim = Chain[Max(Without("FAT"))] /\ Max(Without("FAT")) \in Without("FAT")
    BY <1>3, <1>5 DEF victim
  <2> QED
    BY <2>1, <1>1, RingFacts DEF With, Without, Pos
<1>6. CASE ~(/\ With("UNCACHE") = {} /\ "FAT" \in b_flag[firstbuf]
             /\ Cardinality(With("FAT")) < 3 /\ Without("FAT") # {}) /\ With("UNCACHE") = {}
  <2>1. victim = b_prev[firstbuf]
    BY <1>6 DEF victim
  <2>2. victim = Chain[nbuffers-1] /\ firstbuf = Chain[0] /\ nbuffers-1 # 0 /\ 0 \in Pos /\ nbuffers-1 \in Pos
    BY <2>1, RingFacts DEF Pos
  <2> QED
    BY <2>2, RingFacts
<1> QED
  BY <1>4, <1>5, <1>6

\* searchblock: the buffer found, or the one to reuse, goes to the front.
LEMMA Search ==
  ASSUME Inv, NEW c, searchblock(c), b_blk' = b_blk
  PROVE  /\ RingInv' /\ Linked' = Linked /\ firstbuf' \in Linked /\ bp' = firstbuf' /\ blk' = c
         /\ copies' = 0 /\ ok' = TRUE /\ b_flag' \in [Buf -> SUBSET Flags]
         /\ \A b \in Buf : ("VALID" \in b_flag'[b] <=> "VALID" \in b_flag[b])
                         /\ ("FAT" \in b_flag'[b] <=> "FAT" \in b_flag[b])
                         /\ ("DIRTY" \in b_flag'[b] <=> "DIRTY" \in b_flag[b])
         /\ OneCopy'
         /\ \/ pc' = "have" /\ valid(bp', c) /\ "UNCACHE" \notin b_flag'[bp']
            \/ /\ pc' = "flush1" /\ \A b \in Linked : ~valid(b, c)
               /\ "FAT" \in b_flag[firstbuf] /\ "UNCACHE" \notin b_flag[firstbuf] => bp' # firstbuf
<1> DEFINE hits == {b \in Linked : valid(b, c)}
           places == {i \in 0..nbuffers-1 : Chain[i] \in hits}
<1>1. \E b \in Linked :
        /\ ToFront(b) /\ bp' = b /\ b = IF hits # {} THEN Chain[Min(places)] ELSE victim
  <2>1. CASE hits # {}
    <3>1. places \subseteq Nat /\ places # {}
      BY <2>1, RingFacts DEF Pos, Inv
    <3>2. Min(places) \in places
      BY <3>1, MinIn
    <3>3. Chain[Min(places)] \in Linked
      BY <3>2
    <3> QED
      BY <2>1, <3>3 DEF searchblock, Searched
  <2>2. CASE hits = {}
    BY <2>2, VictimLinked DEF searchblock, Searched, Inv
  <2> QED
    BY <2>1, <2>2
<1>2. PICK b \in Linked : ToFront(b) /\ bp' = b /\ b = IF hits # {} THEN Chain[Min(places)] ELSE victim
  BY <1>1
<1>3. nbuffers' = nbuffers
  BY DEF searchblock, Searched
<1>4. RingInv' /\ Linked' = Linked /\ firstbuf' = b
  BY <1>2, <1>3, ToFrontRing DEF Inv
<1>5. /\ blk' = c /\ copies' = 0 /\ ok' = TRUE
      /\ b_flag' = Set(b, IF hits # {} THEN b_flag[b] \ {"UNCACHE"} ELSE b_flag[b] \cup {"UNCACHE"})
      /\ pc' = IF hits # {} THEN "have" ELSE "flush1"
  BY <1>2 DEF searchblock, Searched
<1>6. b \in Buf /\ b_flag \in [Buf -> SUBSET Flags] /\ {"UNCACHE"} \subseteq Flags
  BY RingFacts DEF Inv, DataInv, Flags
<1>7. b_flag' \in [Buf -> SUBSET Flags]
  BY <1>5, <1>6 DEF Set
<1>8. \A x \in Buf, f \in Flags : f # "UNCACHE" => (f \in b_flag'[x] <=> f \in b_flag[x])
  BY <1>5, <1>6 DEF Set
<1>9. \A x \in Buf : ("VALID" \in b_flag'[x] <=> "VALID" \in b_flag[x])
                   /\ ("FAT" \in b_flag'[x] <=> "FAT" \in b_flag[x])
                   /\ ("DIRTY" \in b_flag'[x] <=> "DIRTY" \in b_flag[x])
  BY <1>8 DEF Flags
<1>10. OneCopy'
  <2>1. Linked \subseteq Buf
    BY RingFacts DEF Inv
  <2> QED
    BY <2>1, <1>4, <1>9, OneCopyLess DEF Inv
<1>11. CASE hits # {}
  <2>1. b \in hits
    <3>1. places \subseteq Nat /\ places # {}
      BY <1>11, RingFacts DEF Pos, Inv
    <3>2. Min(places) \in places
      BY <3>1, MinIn
    <3> QED
      BY <3>2, <1>2, <1>11
  <2>2. valid(bp', c)
    BY <2>1, <1>2, <1>6, <1>9 DEF valid
  <2>3. "UNCACHE" \notin b_flag'[bp']
    BY <1>2, <1>5, <1>6, <1>11 DEF Set
  <2> QED
    BY <2>2, <2>3, <1>2, <1>4, <1>5, <1>7, <1>9, <1>10, <1>11
<1>12. CASE hits = {}
  <2>1. \A x \in Linked : ~valid(x, c)
    BY <1>12
  <2>2. "FAT" \in b_flag[firstbuf] /\ "UNCACHE" \notin b_flag[firstbuf] => b # firstbuf
    BY <1>2, <1>12, VictimLinked DEF Inv
  <2> QED
    BY <2>1, <2>2, <1>2, <1>4, <1>5, <1>7, <1>9, <1>10, <1>12
<1> QED
  BY <1>11, <1>12

-----------------------------------------------------------------------------
(* Every step keeps the invariant.                                         *)

\* Blocks are handed out and used with the flags of one buffer changed.
LEMMA BeginInv ==
  ASSUME Inv, NEW c \in Cached, NEW o \in GetOps, Begin(o, c),
         o \in {"read", "write", "over", "dir"} => c \in DataBlk, o \in {"fat", "link"} => c \in FatBlk
  PROVE  Inv'
<1>1. /\ searchblock(c) /\ op' = o
      /\ UNCHANGED <<b_blk, b_data, disk, cnt, held, latest, told>> /\ pc = "idle"
  BY DEF Begin
<1>2. /\ RingInv' /\ Linked' = Linked /\ firstbuf' \in Linked /\ bp' = firstbuf' /\ blk' = c
      /\ copies' = 0 /\ ok' = TRUE /\ b_flag' \in [Buf -> SUBSET Flags]
      /\ \A b \in Buf : "VALID" \in b_flag'[b] <=> "VALID" \in b_flag[b]
      /\ OneCopy'
      /\ \/ pc' = "have" /\ valid(bp', c) /\ "UNCACHE" \notin b_flag'[bp']
         \/ pc' = "flush1" /\ \A b \in Linked : ~valid(b, c)
  BY <1>1, Search
<1>3. held' = NoBuf
  BY <1>1, NotHeld DEF Inv
<1>4. Linked \subseteq Buf
  BY RingFacts DEF Inv
<1>5. DataInv'
  BY <1>1, <1>2 DEF Inv, DataInv
<1>6. CallInv'
  BY <1>1, <1>2, <1>4 DEF CallInv, GetOps, WalkOps
<1>7. GetInv'
  BY <1>1, <1>2, <1>4 DEF GetInv, GetOps, valid
<1> QED
  BY <1>2, <1>3, <1>5, <1>6, <1>7 DEF Inv, HeldInv

LEMMA StraddleInv ==
  ASSUME Inv, Straddle
  PROVE  Inv'
<1> DEFINE c == <<blk[1], blk[2] + 1>>
<1>1. /\ searchblock(c) /\ held' = bp /\ op' = op
      /\ UNCHANGED <<b_blk, b_data, disk, cnt, latest, told>>
      /\ pc = "fat" /\ blk[2] + 1 < FatSize
  BY DEF Straddle
<1>0. /\ op \in {"fat", "link"} /\ blk \in FatBlk /\ bp = firstbuf
      /\ valid(bp, blk) /\ "FAT" \in b_flag[bp] /\ "UNCACHE" \notin b_flag[bp]
      /\ bp \in Linked /\ Linked \subseteq Buf
  BY <1>1, RingFacts DEF Inv, CallInv, GetInv, GetOps
<1>2. blk[1] \in Units /\ blk[2] \in Nat /\ blk = <<blk[1], blk[2]>> /\ c \in FatBlk
  <2>1. blk \in Units \X (0..FatSize-1)
    BY <1>0 DEF FatBlk
  <2> QED
    BY <2>1, <1>1, Constants DEF FatBlk
<1>3. /\ RingInv' /\ Linked' = Linked /\ firstbuf' \in Linked /\ bp' = firstbuf' /\ blk' = c
      /\ copies' = 0 /\ ok' = TRUE /\ b_flag' \in [Buf -> SUBSET Flags]
      /\ \A b \in Buf : ("VALID" \in b_flag'[b] <=> "VALID" \in b_flag[b])
                      /\ ("FAT" \in b_flag'[b] <=> "FAT" \in b_flag[b])
      /\ OneCopy'
      /\ \/ pc' = "have" /\ valid(bp', c) /\ "UNCACHE" \notin b_flag'[bp']
         \/ /\ pc' = "flush1" /\ \A b \in Linked : ~valid(b, c)
            /\ "FAT" \in b_flag[firstbuf] /\ "UNCACHE" \notin b_flag[firstbuf] => bp' # firstbuf
  BY <1>1, Search
<1>4. held' # bp'
  <2>1. c # blk
    BY <1>2
  <2>2. CASE pc' = "have" /\ valid(bp', c)
    BY <2>1, <2>2, <1>0, <1>1 DEF valid
  <2>3. CASE pc' = "flush1"
    BY <2>3, <1>0, <1>1, <1>3
  <2> QED
    BY <2>2, <2>3, <1>3
<1>5. DataInv'
  BY <1>1, <1>3 DEF Inv, DataInv
<1>6. CallInv'
  BY <1>0, <1>1, <1>2, <1>3 DEF CallInv, GetOps, WalkOps
<1>7. GetInv'
  BY <1>0, <1>1, <1>3 DEF GetInv, GetOps, valid
<1>8. HeldInv'
  <2>1. blk'[1] = blk[1] /\ blk'[2] = blk[2] + 1 /\ (blk[2] + 1) - 1 = blk[2]
    BY <1>2, <1>3
  <2>2. valid(held, <<blk[1], blk[2] - 1>>)'
    BY <2>1, <1>0, <1>1, <1>2, <1>3 DEF valid
  <2>3. blk'[2] >= 1
    BY <2>1, <1>2
  <2> QED
    BY <2>2, <2>3, <1>0, <1>1, <1>3, <1>4 DEF HeldInv
<1> QED
  BY <1>3, <1>5, <1>6, <1>7, <1>8 DEF Inv

LEMMA FlushCopyInv ==
  ASSUME Inv, NEW o, FlushCopy(o)
  PROVE  Inv'
<1>1. /\ pc = "flush1" /\ dirty(bp) /\ copies < Copies(bp)
      /\ UNCHANGED <<ring, b_flag, b_blk, b_data, latest>>
      /\ \E c : /\ c = b_blk[bp]
              /\ Transfers(IF copies = 0 THEN c ELSE Mirror(c), b_data[bp], o)
              /\ told' = IF o \in {"ignore", "fail"} THEN told \cup {c} ELSE told
      /\ IF o = "abort" THEN End
         ELSE /\ copies' = copies + 1 /\ ok' = (ok /\ o # "fail")
              /\ UNCHANGED <<pc, op, blk, cnt, bp, held>>
  BY DEF FlushCopy
<1>2. RingInv' /\ Linked' = Linked
  BY <1>1, RingSame DEF Inv
<1>3. bp \in Linked /\ bp \in Buf
  BY <1>1, RingFacts DEF Inv, CallInv
<1>4. DataInv'
  <2>1. b_blk[bp] \in Cached /\ b_data[bp] \in Vals
    BY <1>1, <1>3 DEF Inv, DataInv, dirty
  <2>2. disk' \in [Blk -> Vals]
    BY <1>1, <2>1 DEF Inv, DataInv, Transfers
  <2> QED
    BY <1>1, <2>1, <2>2 DEF Inv, DataInv
<1>5. OneCopy'
  BY <1>1, <1>2, OneCopyLess DEF Inv
<1>6. CASE o = "abort"
  BY <1>1, <1>2, <1>4, <1>5, <1>6, EndInv DEF Inv
<1>7. CASE o # "abort"
  <2>1. UNCHANGED <<pc, op, blk, cnt, bp, held, b_flag, b_blk, firstbuf>> /\ copies' = copies + 1 /\ ok' \in BOOLEAN
    BY <1>1, <1>7 DEF ring, Inv, CallInv
  <2>2. copies' \in 0..2
    BY <1>1, <2>1 DEF Inv, CallInv, Copies
  <2>3. CallInv'
    BY <2>1, <2>2, <1>2 DEF Inv, CallInv
  <2>4. GetInv' /\ HeldInv'
    BY <2>1, <1>2 DEF Inv, GetInv, HeldInv, valid
  <2> QED
    BY <2>3, <2>4, <1>2, <1>4, <1>5 DEF Inv
<1> QED
  BY <1>6, <1>7

\* flush1 leaves no flag that was not there.
LEMMA Flushed ==
  ASSUME DataInv, NEW b \in Buf
  PROVE  flushed(b) \subseteq b_flag[b] /\ flushed(b) \subseteq Flags /\ "DIRTY" \notin flushed(b)
BY DEF flushed, DataInv

LEMMA GetblkFlushedInv ==
  ASSUME Inv, GetblkFlushed
  PROVE  Inv'
<1>1. /\ pc = "flush1" /\ op \in GetOps /\ b_flag' = Set(bp, flushed(bp))
      /\ \/ pc' = "load" /\ UNCHANGED <<op, blk, cnt, bp, held, copies, ok>>
         \/ End
      /\ UNCHANGED <<ring, b_blk, b_data, disk, latest, told>>
  BY DEF GetblkFlushed, GetOps
<1>2. RingInv' /\ Linked' = Linked /\ firstbuf' = firstbuf
  BY <1>1, RingSame DEF Inv, ring
<1>3. bp \in Linked /\ bp \in Buf /\ Linked \subseteq Buf
  BY <1>1, RingFacts DEF Inv, CallInv
<1>4. /\ b_flag' \in [Buf -> SUBSET Flags] /\ \A b \in Buf : b_flag'[b] \subseteq b_flag[b]
      /\ \A b \in Buf : b # bp => b_flag'[b] = b_flag[b]
  BY <1>1, <1>3, Flushed DEF Inv, DataInv, Set
<1>5. DataInv' /\ OneCopy'
  BY <1>1, <1>2, <1>3, <1>4, OneCopyLess DEF Inv, DataInv
<1>6. CASE End
  BY <1>2, <1>5, <1>6, EndInv DEF Inv
<1>7. CASE pc' = "load" /\ UNCHANGED <<op, blk, cnt, bp, held, copies, ok>>
  <2>1. CallInv'
    BY <1>1, <1>2, <1>7 DEF Inv, CallInv
  <2>2. GetInv'
    BY <1>1, <1>2, <1>3, <1>4, <1>7 DEF Inv, GetInv, valid
  <2>3. HeldInv'
    BY <1>1, <1>2, <1>3, <1>4, <1>7 DEF Inv, HeldInv, valid
  <2> QED
    BY <2>1, <2>2, <2>3, <1>2, <1>5 DEF Inv
<1> QED
  BY <1>1, <1>6, <1>7

LEMMA GetblkReadInv ==
  ASSUME Inv, NEW o, GetblkRead(o)
  PROVE  Inv'
<1>1. /\ pc = "load" /\ op \in GetOps
      /\ IF o = "ok" THEN b_data' = [b_data EXCEPT ![bp] = disk[blk]]
         ELSE \E v \in Vals : b_data' = [b_data EXCEPT ![bp] = v]
      /\ told' = IF o = "ignore" THEN told \cup {blk} ELSE told
      /\ \/ /\ b_flag' = Set(bp, {"VALID"}) /\ b_blk' = [b_blk EXCEPT ![bp] = blk]
            /\ pc' = "have" /\ UNCHANGED <<op, blk, cnt, bp, held, copies, ok>>
         \/ End /\ UNCHANGED <<b_flag, b_blk>>
      /\ UNCHANGED <<ring, disk, latest>>
  BY DEF GetblkRead, Inv, CallInv
<1>2. RingInv' /\ Linked' = Linked /\ firstbuf' = firstbuf
  BY <1>1, RingSame DEF Inv, ring
<1>3. bp \in Linked /\ bp \in Buf /\ Linked \subseteq Buf
  BY <1>1, RingFacts DEF Inv, CallInv
<1>4. blk \in Cached /\ blk \in Blk
  BY <1>1, GetBlk DEF Inv
<1>5. b_data' \in [Buf -> Vals] /\ told' \subseteq Cached
  BY <1>1, <1>3, <1>4 DEF Inv, DataInv
<1>6. CASE End /\ UNCHANGED <<b_flag, b_blk>>
  <2>1. DataInv' /\ OneCopy'
    BY <1>1, <1>2, <1>5, <1>6, OneCopyLess DEF Inv, DataInv
  <2> QED
    BY <2>1, <1>2, <1>6, EndInv DEF Inv
<1>7. CASE /\ b_flag' = Set(bp, {"VALID"}) /\ b_blk' = [b_blk EXCEPT ![bp] = blk]
           /\ pc' = "have" /\ UNCHANGED <<op, blk, cnt, bp, held, copies, ok>>
  <2>1. /\ b_flag' \in [Buf -> SUBSET Flags] /\ b_blk' \in [Buf -> Blk]
        /\ b_flag'[bp] = {"VALID"} /\ b_blk'[bp] = blk
        /\ \A b \in Buf : b # bp => b_flag'[b] = b_flag[b] /\ b_blk'[b] = b_blk[b]
    BY <1>3, <1>4, <1>7 DEF Inv, DataInv, Set, Flags
  <2>2. DataInv'
    BY <1>1, <1>4, <1>5, <2>1 DEF Inv, DataInv
  <2>3. \A b \in Linked : ~valid(b, blk)
    BY <1>1 DEF Inv, GetInv
  <2>4. OneCopy'
    <3>1. \A b \in Linked : b # bp => ("VALID" \in b_flag'[b] => "VALID" \in b_flag[b])
      BY <2>1, <1>3
    <3> QED
      BY <2>3, <3>1, <1>2, <1>3, <1>7, OneCopyPut DEF Inv, DataInv
  <2>5. CallInv'
    BY <1>1, <1>2, <1>7 DEF Inv, CallInv
  <2>6. GetInv'
    BY <1>1, <1>2, <1>7, <2>1 DEF Inv, CallInv, GetInv, valid
  <2>7. HeldInv'
    BY <1>1, <1>2, <1>3, <1>7, <2>1 DEF Inv, HeldInv, valid
  <2> QED
    BY <2>2, <2>4, <2>5, <2>6, <2>7, <1>2 DEF Inv
<1> QED
  BY <1>1, <1>6, <1>7

LEMMA OverwriteInv ==
  ASSUME Inv, NEW v \in Vals, NEW more \in Soon, Overwrite(v, more)
  PROVE  Inv'
<1>1. /\ op = "over" /\ pc \in {"load", "have"}
      /\ b_data' = [b_data EXCEPT ![bp] = v] /\ b_blk' = [b_blk EXCEPT ![bp] = blk]
      /\ b_flag' = Set(bp, {"VALID", "DIRTY"} \cup more \cup (IF pc = "have" THEN b_flag[bp] ELSE {}))
      /\ latest' = [latest EXCEPT ![blk] = v]
      /\ End /\ UNCHANGED <<ring, disk, told>>
  BY DEF Overwrite
<1>2. RingInv' /\ Linked' = Linked
  BY <1>1, RingSame DEF Inv
<1>3. bp \in Linked /\ bp \in Buf /\ Linked \subseteq Buf
  BY <1>1, RingFacts DEF Inv, CallInv
<1>4. blk \in Cached /\ blk \in Blk
  BY <1>1, GetBlk DEF Inv, GetOps
<1>5. /\ b_flag' \in [Buf -> SUBSET Flags] /\ b_blk' \in [Buf -> Blk] /\ b_blk'[bp] = blk
      /\ \A b \in Buf : b # bp => b_flag'[b] = b_flag[b] /\ b_blk'[b] = b_blk[b]
  <2>1. b_flag[bp] \subseteq Flags /\ more \subseteq Flags
    BY <1>3 DEF Inv, DataInv, Soon, Flags
  <2> QED
    BY <2>1, <1>1, <1>3, <1>4 DEF Inv, DataInv, Set, Flags
<1>6. DataInv'
  BY <1>1, <1>3, <1>4, <1>5 DEF Inv, DataInv
<1>7. \A b \in Linked : b # bp => ~valid(b, blk)
  <2>1. CASE pc = "load"
    BY <2>1, <1>1 DEF Inv, GetInv, GetOps
  <2>2. CASE pc = "have"
    BY <2>2, <1>3 DEF Inv, GetInv, OneCopy, valid
  <2> QED
    BY <2>1, <2>2, <1>1
<1>8. OneCopy'
  BY <1>1, <1>2, <1>3, <1>5, <1>7, OneCopyPut DEF Inv, DataInv
<1> QED
  BY <1>1, <1>2, <1>6, <1>8, EndInv DEF Inv

LEMMA UseReadInv ==
  ASSUME Inv, NEW more \in Soon, UseRead(more)
  PROVE  Inv'
<1>1. /\ pc = "have" /\ b_flag' = Set(bp, b_flag[bp] \cup more) /\ End
      /\ UNCHANGED <<ring, b_blk, b_data, disk, latest, told>>
  BY DEF UseRead
<1>2. RingInv' /\ Linked' = Linked
  BY <1>1, RingSame DEF Inv
<1>3. bp \in Buf /\ Linked \subseteq Buf
  BY <1>1, RingFacts DEF Inv, CallInv
<1>4. b_flag' \in [Buf -> SUBSET Flags] /\ \A b \in Buf : "VALID" \in b_flag'[b] => "VALID" \in b_flag[b]
  BY <1>1, <1>3 DEF Inv, DataInv, Set, Soon, Flags
<1>5. DataInv' /\ OneCopy'
  BY <1>1, <1>2, <1>3, <1>4, OneCopyLess DEF Inv, DataInv
<1> QED
  BY <1>1, <1>2, <1>5, EndInv DEF Inv

LEMMA UseWriteInv ==
  ASSUME Inv, NEW v \in Vals, NEW more \in Soon, UseWrite(v, more)
  PROVE  Inv'
<1>1. /\ pc = "have" /\ op = "write" /\ b_data' = [b_data EXCEPT ![bp] = v]
      /\ b_flag' = Set(bp, b_flag[bp] \cup {"VALID", "DIRTY"} \cup more)
      /\ latest' = [latest EXCEPT ![blk] = v] /\ End
      /\ UNCHANGED <<ring, b_blk, disk, told>>
  BY DEF UseWrite
<1>2. RingInv' /\ Linked' = Linked
  BY <1>1, RingSame DEF Inv
<1>3. bp \in Buf /\ Linked \subseteq Buf /\ "VALID" \in b_flag[bp]
  BY <1>1, RingFacts DEF Inv, CallInv, GetInv, valid
<1>4. b_flag' \in [Buf -> SUBSET Flags] /\ \A b \in Buf : "VALID" \in b_flag'[b] => "VALID" \in b_flag[b]
  BY <1>1, <1>3 DEF Inv, DataInv, Set, Soon, Flags
<1>5. DataInv' /\ OneCopy'
  BY <1>1, <1>2, <1>3, <1>4, OneCopyLess DEF Inv, DataInv
<1> QED
  BY <1>1, <1>2, <1>5, EndInv DEF Inv

LEMMA UseDirInv ==
  ASSUME Inv, NEW v \in Vals, UseDir(v)
  PROVE  Inv'
<1>1. /\ pc = "have" /\ op = "dir" /\ b_data' = [b_data EXCEPT ![bp] = v]
      /\ b_flag' = Set(bp, (b_flag[bp] \ {"FAT"}) \cup {"VALID", "DIRTY"})
      /\ latest' = [latest EXCEPT ![blk] = v]
      /\ pc' = "walk" /\ op' = "flush_buffers" /\ bp' = firstbuf /\ held' = NoBuf
      /\ copies' = 0 /\ ok' = TRUE
      /\ UNCHANGED <<ring, b_blk, disk, told>>
  BY DEF UseDir, WalkFrom
<1>2. RingInv' /\ Linked' = Linked
  BY <1>1, RingSame DEF Inv
<1>3. bp \in Buf /\ Linked \subseteq Buf /\ "VALID" \in b_flag[bp] /\ firstbuf \in Linked
  BY <1>1, RingFacts DEF Inv, CallInv, GetInv, valid
<1>4. b_flag' \in [Buf -> SUBSET Flags] /\ \A b \in Buf : "VALID" \in b_flag'[b] => "VALID" \in b_flag[b]
  BY <1>1, <1>3 DEF Inv, DataInv, Set, Flags
<1>5. DataInv' /\ OneCopy'
  BY <1>1, <1>2, <1>3, <1>4, OneCopyLess DEF Inv, DataInv
<1>6. CallInv' /\ GetInv' /\ HeldInv'
  BY <1>1, <1>2, <1>3 DEF CallInv, GetInv, HeldInv, GetOps, WalkOps
<1> QED
  BY <1>2, <1>5, <1>6 DEF Inv

LEMMA getFATblockInv ==
  ASSUME Inv, getFATblock
  PROVE  Inv'
<1>1. /\ pc = "have" /\ op \in {"fat", "link"} /\ pc' = "fat"
      /\ b_flag' = Set(bp, b_flag[bp] \cup {"FAT", "VALID"})
      /\ UNCHANGED <<op, blk, cnt, bp, held, copies, ok, ring, b_blk, b_data, disk, latest, told>>
  BY DEF getFATblock
<1>2. RingInv' /\ Linked' = Linked /\ firstbuf' = firstbuf
  BY <1>1, RingSame DEF Inv, ring
<1>3. bp \in Buf /\ bp \in Linked /\ Linked \subseteq Buf /\ "VALID" \in b_flag[bp]
  BY <1>1, RingFacts DEF Inv, CallInv, GetInv, valid
<1>4. /\ b_flag' \in [Buf -> SUBSET Flags] /\ \A b \in Buf : "VALID" \in b_flag'[b] <=> "VALID" \in b_flag[b]
      /\ "FAT" \in b_flag'[bp] /\ ("UNCACHE" \in b_flag'[bp] <=> "UNCACHE" \in b_flag[bp])
      /\ \A b \in Buf : b # bp => b_flag'[b] = b_flag[b]
  BY <1>1, <1>3 DEF Inv, DataInv, Set, Flags
<1>5. DataInv' /\ OneCopy'
  BY <1>1, <1>2, <1>3, <1>4, OneCopyLess DEF Inv, DataInv
<1>6. CallInv'
  BY <1>1, <1>2, <1>3 DEF Inv, CallInv, GetOps, WalkOps
<1>7. GetInv'
  BY <1>1, <1>2, <1>3, <1>4 DEF Inv, GetInv, GetOps, valid
<1>8. HeldInv'
  BY <1>1, <1>2, <1>3, <1>4 DEF Inv, HeldInv, valid
<1> QED
  BY <1>2, <1>5, <1>6, <1>7, <1>8 DEF Inv

LEMMA UseFatInv ==
  ASSUME Inv, NEW v \in Vals, UseFat(v)
  PROVE  Inv'
<1>1. /\ pc = "fat" /\ End /\ UNCHANGED <<ring, b_blk, disk, told>>
      /\ \/ UNCHANGED <<b_flag, b_data, latest>>
         \/ /\ b_flag' = [b \in Buf |-> b_flag[b] \cup IF b \in Mine THEN {"VALID", "DIRTY"} ELSE {}]
            /\ b_data' = [b \in Buf |-> IF b \in Mine THEN v ELSE b_data[b]]
            /\ latest' = [c \in Cached |-> IF c \in {b_blk[b] : b \in Mine} THEN v ELSE latest[c]]
  BY DEF UseFat
<1>2. RingInv' /\ Linked' = Linked
  BY <1>1, RingSame DEF Inv
<1>3. Linked \subseteq Buf
  BY RingFacts DEF Inv
<1>4. \A b \in Mine : "VALID" \in b_flag[b]
  BY <1>1 DEF Mine, Inv, GetInv, HeldInv, valid
<1>5. b_flag' \in [Buf -> SUBSET Flags] /\ \A b \in Buf : "VALID" \in b_flag'[b] => "VALID" \in b_flag[b]
  BY <1>1, <1>4 DEF Inv, DataInv, Flags
<1>6. DataInv'
  BY <1>1, <1>5 DEF Inv, DataInv
<1>7. OneCopy'
  BY <1>1, <1>2, <1>3, <1>5, OneCopyLess DEF Inv
<1> QED
  BY <1>1, <1>2, <1>6, <1>7, EndInv DEF Inv

LEMMA WalkVisitInv ==
  ASSUME Inv, WalkVisit
  PROVE  Inv'
<1>1. /\ pc = "walk" /\ Target(bp) /\ pc' = "flush1" /\ copies' = 0 /\ ok' = TRUE
      /\ UNCHANGED <<op, blk, cnt, bp, held, ring, b_flag, b_blk, b_data, disk, latest, told>>
  BY DEF WalkVisit
<1>2. RingInv' /\ Linked' = Linked
  BY <1>1, RingSame DEF Inv
<1>3. DataInv' /\ OneCopy'
  BY <1>1, <1>2, OneCopyLess DEF Inv, DataInv
<1>4. op \in WalkOps /\ (op = "hma" => bp \in blk[2])
  BY <1>1 DEF Inv, CallInv, Target
<1>5. CallInv' /\ GetInv'
  BY <1>1, <1>2, <1>4 DEF Inv, CallInv, GetInv, GetOps, WalkOps
<1>6. HeldInv'
  BY <1>1, NotHeld DEF Inv, HeldInv
<1> QED
  BY <1>2, <1>3, <1>5, <1>6 DEF Inv

\* The loop over the ring goes on to a buffer of the ring, or ends.
LEMMA AdvanceInv ==
  ASSUME Inv, NEW f, Advance(f), op \in WalkOps, pc \in {"walk", "flush1"}, b_next[bp] \in Linked'
  PROVE  CallInv' /\ GetInv' /\ HeldInv'
<1>1. held = NoBuf
  BY NotHeld DEF Inv, WalkOps
<1>2. CASE /\ pc' = "walk" /\ bp' = b_next[bp] /\ copies' = 0 /\ ok' = TRUE
           /\ cnt' = (IF op = "hma" THEN cnt - 1 ELSE cnt) /\ UNCHANGED <<op, blk, held>>
  <2>1. b_next[bp] \in Buf
    BY RingFacts DEF Inv, CallInv, RingInv
  <2> QED
    BY <1>1, <1>2, <2>1 DEF Inv, CallInv, GetInv, HeldInv, GetOps, WalkOps
<1>3. CASE op = "dread" /\ pc' = "dread" /\ bp' = NoBuf /\ copies' = 0 /\ ok' = TRUE /\ UNCHANGED <<op, blk, cnt, held>>
  BY <1>1, <1>3 DEF Inv, CallInv, GetInv, HeldInv, GetOps, WalkOps
<1>4. CASE End
  BY <1>4, EndInv
<1> QED
  BY <1>2, <1>3, <1>4 DEF Advance

\* Buffers of a unit forgotten.
LEMMA Invalidated ==
  ASSUME NEW f \in [Buf -> SUBSET Flags], NEW u
  PROVE  setinvld(f, u) \in [Buf -> SUBSET Flags] /\ \A b \in Buf : setinvld(f, u)[b] \subseteq f[b]
BY DEF setinvld

LEMMA AdvanceFlags ==
  ASSUME NEW f \in [Buf -> SUBSET Flags], Advance(f)
  PROVE  b_flag' \in [Buf -> SUBSET Flags] /\ \A b \in Buf : b_flag'[b] \subseteq f[b]
<1>1. b_flag' = f \/ b_flag' = setinvld(f, blk[1])
  BY DEF Advance
<1> QED
  BY <1>1, Invalidated

LEMMA WalkSkipInv ==
  ASSUME Inv, WalkSkip
  PROVE  Inv'
<1>1. /\ pc = "walk" /\ op \in WalkOps /\ Advance(b_flag)
      /\ UNCHANGED <<ring, b_blk, b_data, disk, latest, told>>
  BY DEF WalkSkip, Inv, CallInv
<1>2. RingInv' /\ Linked' = Linked
  BY <1>1, RingSame DEF Inv
<1>3. b_next[bp] \in Linked' /\ Linked \subseteq Buf
  BY <1>1, <1>2, RingFacts DEF Inv, CallInv
<1>4. b_flag' \in [Buf -> SUBSET Flags] /\ \A b \in Buf : b_flag'[b] \subseteq b_flag[b]
  BY <1>1, AdvanceFlags DEF Inv, DataInv
<1>5. DataInv' /\ OneCopy'
  BY <1>1, <1>2, <1>3, <1>4, OneCopyLess DEF Inv, DataInv
<1> QED
  BY <1>1, <1>2, <1>3, <1>5, AdvanceInv DEF Inv

LEMMA WalkFlushedInv ==
  ASSUME Inv, WalkFlushed
  PROVE  Inv'
<1> DEFINE f == Set(bp, IF op = "flush" THEN flushed(bp) \ {"VALID"} ELSE flushed(bp))
<1>1. /\ pc = "flush1" /\ op \in WalkOps /\ Advance(f)
      /\ IF op # "hma" THEN UNCHANGED ring
         ELSE /\ b_next' = [b_next EXCEPT ![b_prev[bp]] = b_next[bp]]
              /\ b_prev' = [b_prev EXCEPT ![b_next[bp]] = b_prev[bp]]
              /\ firstbuf' = IF bp = firstbuf THEN b_next[bp] ELSE firstbuf
              /\ nbuffers' = nbuffers - 1
      /\ UNCHANGED <<b_blk, b_data, disk, latest, told>>
  BY DEF WalkFlushed, WalkOps
<1>2. bp \in Linked /\ bp \in Buf /\ Linked \subseteq Buf
  BY <1>1, RingFacts DEF Inv, CallInv
<1>3. RingInv' /\ Linked' \subseteq Linked /\ b_next[bp] \in Linked'
  <2>1. CASE op # "hma"
    BY <2>1, <1>1, <1>2, RingSame, RingFacts DEF Inv
  <2>2. CASE op = "hma"
    <3>1. bp \in HmaBufs
      BY <2>2, <1>1 DEF Inv, CallInv
    <3> QED
      BY <2>2, <3>1, <1>1, <1>2, SoldRing DEF Inv
  <2> QED
    BY <2>1, <2>2
<1>4. f \in [Buf -> SUBSET Flags] /\ \A b \in Buf : f[b] \subseteq b_flag[b]
  <2>1. flushed(bp) \subseteq b_flag[bp] /\ flushed(bp) \subseteq Flags
    BY <1>2, Flushed DEF Inv
  <2> QED
    BY <2>1, <1>2 DEF Inv, DataInv, Set
<1> HIDE DEF f
<1>5. b_flag' \in [Buf -> SUBSET Flags] /\ \A b \in Buf : b_flag'[b] \subseteq b_flag[b]
  BY <1>1, <1>4, AdvanceFlags
<1>6. DataInv' /\ OneCopy'
  BY <1>1, <1>2, <1>3, <1>5, OneCopyLess DEF Inv, DataInv
<1> QED
  BY <1>1, <1>3, <1>6, AdvanceInv DEF Inv

LEMMA WalksInv ==
  ASSUME Inv, NEW o \in WalkOps, NEW c, NEW n, Walks(o, c, n),
         o = "dread" => c \in DataBlk /\ n \in Nat /\ Run(c, n) \subseteq DataBlk,
         o = "hma" => c[2] \subseteq HmaBufs
  PROVE  Inv'
<1>1. /\ pc' = "walk" /\ op' = o /\ blk' = c /\ cnt' = n
      /\ bp' = firstbuf /\ held' = NoBuf /\ copies' = 0 /\ ok' = TRUE
      /\ UNCHANGED <<ring, b_flag, b_blk, b_data, disk, latest, told>>
  BY DEF Walks, WalkFrom
<1>2. RingInv' /\ Linked' = Linked /\ firstbuf \in Linked /\ Linked \subseteq Buf
  BY <1>1, RingSame, RingFacts DEF Inv
<1>3. DataInv' /\ OneCopy'
  BY <1>1, <1>2, OneCopyLess DEF Inv, DataInv
<1>4. CallInv' /\ GetInv' /\ HeldInv'
  BY <1>1, <1>2 DEF CallInv, GetInv, HeldInv, GetOps, WalkOps
<1> QED
  BY <1>2, <1>3, <1>4 DEF Inv

LEMMA PastCacheInv ==
  ASSUME Inv, NEW o \in {"dwrite", "int26"}, NEW c \in DataBlk, NEW n \in Nat, NEW S, PastCache(o, c, n, S),
         Run(c, n) \subseteq DataBlk
  PROVE  Inv'
<1>1. /\ pc = "idle" /\ pc' = "transfer" /\ op' = o /\ blk' = c /\ cnt' = n /\ b_flag' = Forget(S)
      /\ UNCHANGED <<bp, held, copies, ok, ring, b_blk, b_data, disk, latest, told>>
  BY DEF PastCache
<1>2. RingInv' /\ Linked' = Linked /\ Linked \subseteq Buf
  BY <1>1, RingSame, RingFacts DEF Inv
<1>3. b_flag' \in [Buf -> SUBSET Flags] /\ \A b \in Buf : b_flag'[b] \subseteq b_flag[b]
  BY <1>1 DEF Inv, DataInv, Forget
<1>4. DataInv' /\ OneCopy'
  BY <1>1, <1>2, <1>3, OneCopyLess DEF Inv, DataInv
<1>5. held = NoBuf
  BY <1>1, NotHeld DEF Inv
<1>6. CallInv' /\ GetInv' /\ HeldInv'
  BY <1>1, <1>2, <1>5 DEF Inv, CallInv, GetInv, HeldInv, GetOps, WalkOps
<1> QED
  BY <1>2, <1>4, <1>6 DEF Inv

LEMMA TransferDoneInv ==
  ASSUME Inv, NEW v \in Vals, NEW o, TransferDone(v, o)
  PROVE  Inv'
<1>1. /\ pc = "transfer" /\ disk' \in [Blk -> Vals] /\ latest' \in [Cached -> Vals]
      /\ told' = told \/ told' = told \cup Run(blk, cnt)
      /\ b_flag' = b_flag \/ b_flag' = setinvld(b_flag, blk[1])
      /\ End /\ UNCHANGED <<ring, b_blk, b_data>>
  BY DEF TransferDone, Inv, DataInv
<1>2. RingInv' /\ Linked' = Linked /\ Linked \subseteq Buf
  BY <1>1, RingSame, RingFacts DEF Inv
<1>3. b_flag' \in [Buf -> SUBSET Flags] /\ \A b \in Buf : b_flag'[b] \subseteq b_flag[b]
  BY <1>1, Invalidated DEF Inv, DataInv
<1>4. told' \subseteq Cached
  <2>1. Run(blk, cnt) \subseteq DataBlk
    BY <1>1 DEF Inv, CallInv
  <2> QED
    BY <2>1, <1>1, Blocks DEF Inv, DataInv
<1>5. DataInv' /\ OneCopy'
  BY <1>1, <1>2, <1>3, <1>4, OneCopyLess DEF Inv, DataInv
<1> QED
  BY <1>1, <1>2, <1>5, EndInv DEF Inv

\* Between calls buffers may be forgotten and the disk change.
LEMMA IdleInv ==
  ASSUME Inv, pc = "idle", UNCHANGED <<ring, b_blk, b_data, call>>,
         NEW u, b_flag' = b_flag \/ b_flag' = setinvld(b_flag, u),
         disk' \in [Blk -> Vals], latest' \in [Cached -> Vals], told' \subseteq Cached
  PROVE  Inv'
<1>1. RingInv' /\ Linked' = Linked /\ Linked \subseteq Buf
  BY RingSame, RingFacts DEF Inv
<1>2. b_flag' \in [Buf -> SUBSET Flags] /\ \A b \in Buf : b_flag'[b] \subseteq b_flag[b]
  BY Invalidated DEF Inv, DataInv
<1>3. DataInv' /\ OneCopy'
  BY <1>1, <1>2, OneCopyLess DEF Inv, DataInv
<1>4. held = NoBuf
  BY NotHeld DEF Inv
<1>5. CallInv' /\ GetInv' /\ HeldInv'
  BY <1>1, <1>4 DEF call, Inv, CallInv, GetInv, HeldInv
<1> QED
  BY <1>1, <1>3, <1>5 DEF Inv

LEMMA NextInv == Inv /\ [Next]_vars => Inv'
<1> SUFFICES ASSUME Inv, [Next]_vars PROVE Inv'
  OBVIOUS
<1>0. CASE UNCHANGED vars
  <2>1. RingInv' /\ Linked' = Linked
    BY <1>0, RingSame DEF vars, Inv
  <2>2. DataInv' /\ OneCopy'
    BY <1>0, <2>1, OneCopyLess DEF vars, Inv, DataInv
  <2>3. CallInv' /\ GetInv' /\ HeldInv'
    BY <1>0, <2>1 DEF vars, ring, call, Inv, CallInv, GetInv, HeldInv, valid
  <2> QED
    BY <2>1, <2>2, <2>3 DEF Inv
<1>1. ASSUME NEW c \in DataBlk, NEW o \in {"read", "write", "over", "dir"}, Begin(o, c) PROVE Inv'
  BY <1>1, BeginInv, Blocks DEF GetOps
<1>2. ASSUME NEW c \in FatBlk, NEW o \in {"fat", "link"}, Begin(o, c) PROVE Inv'
  BY <1>2, BeginInv, Blocks DEF GetOps
<1>3. ASSUME NEW o \in WriteOutcomes, FlushCopy(o) PROVE Inv'
  BY <1>3, FlushCopyInv
<1>4. CASE GetblkFlushed
  BY <1>4, GetblkFlushedInv
<1>5. ASSUME NEW o \in ReadOutcomes, GetblkRead(o) PROVE Inv'
  BY <1>5, GetblkReadInv
<1>6. ASSUME NEW v \in Vals, NEW more \in Soon, Overwrite(v, more) \/ UseWrite(v, more) PROVE Inv'
  BY <1>6, OverwriteInv, UseWriteInv
<1>7. ASSUME NEW more \in Soon, UseRead(more) PROVE Inv'
  BY <1>7, UseReadInv
<1>8. ASSUME NEW v \in Vals, UseDir(v) \/ UseFat(v) PROVE Inv'
  BY <1>8, UseDirInv, UseFatInv
<1>9. CASE getFATblock \/ Straddle
  BY <1>9, getFATblockInv, StraddleInv
<1>10. CASE WalkVisit \/ WalkSkip \/ WalkFlushed
  BY <1>10, WalkVisitInv, WalkSkipInv, WalkFlushedInv
<1>11. ASSUME NEW u \in Units, FlushUnit(u) \/ Rebuild(u) PROVE Inv'
  BY <1>11, WalksInv DEF FlushUnit, Rebuild, WalkOps
<1>12. ASSUME NEW u \in Units, MediaUnsure(u) PROVE Inv'
  <2>1. /\ pc = "idle" /\ b_flag' = setinvld(b_flag, u)
        /\ UNCHANGED <<ring, b_blk, b_data, disk, call, latest, told>>
    BY <1>12 DEF MediaUnsure
  <2> QED
    BY <2>1, IdleInv DEF Inv, DataInv
<1>13. CASE Flush
  BY <1>13, WalksInv DEF Flush, WalkOps
<1>14. ASSUME NEW S \in SUBSET HmaBufs, AllocateHMASpace(S) PROVE Inv'
  <2>1. <<"hma", S>>[2] \subseteq HmaBufs
    OBVIOUS
  <2> QED
    BY <2>1, <1>14, WalksInv DEF AllocateHMASpace, WalkOps
<1>15. ASSUME NEW c \in DataBlk, NEW n \in 1..DataSize,
              Run(c, n) \subseteq DataBlk, DirectRead(c, n) \/ DirectWrite(c, n)
       PROVE  Inv'
  <2>1. n \in Nat
    OBVIOUS
  <2>2. CASE DirectRead(c, n)
    BY <2>1, <2>2, <1>15, WalksInv DEF DirectRead, WalkOps
  <2>3. CASE DirectWrite(c, n)
    BY <2>1, <2>3, <1>15, PastCacheInv DEF DirectWrite
  <2> QED
    BY <2>2, <2>3, <1>15
<1>16. ASSUME NEW c \in DataBlk, NEW n \in AbsCounts, Run(c, n) \subseteq DataBlk, Int26(c, n) PROVE Inv'
  <2>1. n \in Nat
    BY Constants, BufAssumption DEF BufAssumption
  <2> QED
    BY <2>1, <1>16, PastCacheInv DEF Int26
<1>17. CASE DirectReadDone
  <2>1. End /\ UNCHANGED <<ring, b_flag, b_blk, b_data, disk, latest, told>>
    BY <1>17 DEF DirectReadDone
  <2>2. RingInv' /\ Linked' = Linked
    BY <2>1, RingSame DEF Inv
  <2>3. DataInv' /\ OneCopy'
    BY <2>1, <2>2, OneCopyLess DEF Inv, DataInv
  <2> QED
    BY <2>1, <2>2, <2>3, EndInv DEF Inv
<1>18. ASSUME NEW v \in Vals, NEW o \in WriteOutcomes, TransferDone(v, o) PROVE Inv'
  BY <1>18, TransferDoneInv
<1>19. ASSUME NEW c \in DataBlk, NEW v \in Vals, NEW o \in WriteOutcomes, ExtWrite(c, v, o) PROVE Inv'
  <2>1. /\ pc = "idle" /\ (b_flag' = b_flag \/ b_flag' = setinvld(b_flag, c[1]))
        /\ told' = told \/ told' = told \cup {c}
        /\ latest' = latest \/ latest' = [latest EXCEPT ![c] = v]
        /\ disk' = disk \/ disk' = [disk EXCEPT ![c] = v]
        /\ UNCHANGED <<ring, b_blk, b_data, call>>
    BY <1>19 DEF ExtWrite, Transfers
  <2>2. disk' \in [Blk -> Vals] /\ latest' \in [Cached -> Vals] /\ told' \subseteq Cached
    BY <2>1, Blocks DEF Inv, DataInv
  <2> QED
    BY <2>1, <2>2, IdleInv
<1>20. ASSUME NEW u \in Units, NEW v \in Vals, MediaChanged(u, v) PROVE Inv'
  <2>1. /\ pc = "idle" /\ b_flag' = setinvld(b_flag, u)
        /\ disk' = [c \in Blk |-> IF c[1] = u THEN v ELSE disk[c]]
        /\ latest' = [c \in Cached |-> IF c[1] = u THEN v ELSE latest[c]]
        /\ told' \subseteq told
        /\ UNCHANGED <<ring, b_blk, b_data, call>>
    BY <1>20 DEF MediaChanged
  <2>2. disk' \in [Blk -> Vals] /\ latest' \in [Cached -> Vals] /\ told' \subseteq Cached
    BY <2>1 DEF Inv, DataInv
  <2> QED
    BY <2>1, <2>2, IdleInv
<1> QED
  BY <1>0, <1>1, <1>2, <1>3, <1>4, <1>5, <1>6, <1>7, <1>8, <1>9, <1>10, <1>11, <1>12,
     <1>13, <1>14, <1>15, <1>16, <1>17, <1>18, <1>19, <1>20 DEF Next

LEMMA InvHolds == Spec => []Inv
<1>1. Init => Inv
  BY InitInv
<1>2. Inv /\ [Next]_vars => Inv'
  BY NextInv
<1> QED
  BY <1>1, <1>2, PTL DEF Spec

-----------------------------------------------------------------------------
(* What holds whatever fails: for every number of buffers, units and       *)
(* blocks, and every outcome of every transfer.                            *)

\* Every variable of blockio.c's cache keeps its type: links are buffers,
\* flags the four flags, errors are told of blocks the cache was asked for.
THEOREM TypeHolds == Spec => []TypeOK
<1>1. Inv => TypeOK
  <2> SUFFICES ASSUME Inv PROVE TypeOK
    OBVIOUS
  <2>1. firstbuf \in Buf
    BY RingFacts DEF Inv
  <2>2. held \in Buf \cup {NoBuf}
    BY RingFacts DEF Inv, HeldInv
  <2> QED
    BY <2>1, <2>2 DEF Inv, RingInv, DataInv, CallInv, TypeOK
<1> QED
  BY <1>1, InvHolds, PTL

\* move_buffer and AllocateHMASpace leave one ring: every linked buffer is
\* reached once from firstbuf along b_next, and b_prev leads back.
THEOREM RingHolds == Spec => []RingIntact
<1>1. Inv => RingIntact
  <2> SUFFICES ASSUME RingInv PROVE RingIntact
    BY DEF Inv
  <2>1. /\ nbuffers \in Nat /\ nbuffers >= 2 /\ Linked = {Chain[i] : i \in Pos}
        /\ \A i, j \in Pos : Chain[i] = Chain[j] => i = j
        /\ b_next[Chain[nbuffers-1]] = firstbuf /\ b_prev[firstbuf] = Chain[nbuffers-1]
        /\ \A i \in 0..nbuffers-2 : b_next[Chain[i]] = Chain[i+1] /\ b_prev[Chain[i+1]] = Chain[i]
    BY RingFacts
  <2>2. Cardinality(Linked) = nbuffers
    <3>1. Order \in [Pos -> Linked] /\ \A x \in Linked : \E i \in Pos : Order[i] = x
      BY <2>1 DEF Order
    <3>2. \A i, j \in Pos : Order[i] = Order[j] => i = j
      BY <2>1 DEF Order
    <3>3. Order \in Bijection(Pos, Linked)
      BY <3>1, <3>2, Fun_IsBij, Zenon
    <3>4. Pos = 0..nbuffers-1 /\ IsFiniteSet(Pos) /\ Cardinality(Pos) = nbuffers
      BY <2>1, FS_Interval DEF Pos
    <3>5. ExistsBijection(Pos, Linked)
      BY <3>3 DEF ExistsBijection
    <3> QED
      BY <3>3, <3>4, <3>5, FS_Bijection
  <2>3. ASSUME NEW b \in Linked PROVE b_prev[b_next[b]] = b
    <3>1. PICK i \in Pos : b = Chain[i]
      BY <2>1
    <3>2. i = nbuffers - 1 \/ i \in 0..nbuffers-2
      BY <2>1 DEF Pos
    <3> QED
      BY <3>1, <3>2, <2>1
  <2> QED
    BY <2>1, <2>2, <2>3 DEF RingIntact
<1> QED
  BY <1>1, InvHolds, PTL

\* searchblock and getblock never leave a block in two buffers, with the
\* flushes, errors and aborts in between.
THEOREM OneCopyHolds == Spec => []OneCopy
<1>1. Inv => OneCopy
  BY DEF Inv
<1> QED
  BY <1>1, InvHolds, PTL

\* link_fat's remark "LRU logic ensures that bp != bp1" is right, for rings
\* of any length: the buffer of the first sector of a straddling entry is not
\* reused, and keeps its block, while the second sector is got.
THEOREM HeldHolds == Spec => []HeldStays
<1>1. Inv => HeldStays
  BY DEF Inv, HeldInv, HeldStays
<1> QED
  BY <1>1, InvHolds, PTL

-----------------------------------------------------------------------------
(* Nothing written is lost: what the steps have in common.                 *)

\* FAT sectors, their copies and the other blocks are apart.
LEMMA Mirrors ==
  /\ \A c \in FatBlk : c \notin DataBlk /\ Mirror(c) \in Blk /\ Mirror(c) \notin Cached /\ Mirror(c)[1] = c[1]
  /\ \A c, d \in FatBlk : Mirror(c) = Mirror(d) => c = d
BY Constants DEF Cached, DataBlk, FatBlk, Blk, Mirror

\* What a buffer holds is on the disk, in both copies of the FAT.
OnDisk(b) ==
  /\ disk[b_blk[b]] = b_data[b]
  /\ b_blk[b] \in FatBlk => disk[Mirror(b_blk[b])] = b_data[b]

\* Nothing is lost where buffers lose their block, or become clean, only with
\* what they held on the disk.
LEMMA CohClean ==
  ASSUME DataInv, RingInv, Coherent, FatMirrored, pc # "transfer",
         UNCHANGED <<disk, latest, b_data, b_blk>>, told \subseteq told', Linked' \subseteq Linked,
         \A b \in Linked' : "VALID" \in b_flag'[b] => "VALID" \in b_flag[b],
         \A b \in Linked : dirty(b) /\ b_blk[b] \notin told' => (b \in Linked' /\ dirty(b)') \/ OnDisk(b)
  PROVE  Coherent' /\ FatMirrored'
<1>1. ASSUME NEW c \in Cached, c \notin told'
      PROVE  /\ \A b \in Linked' : valid(b, c)' => b_data'[b] = latest'[c]
             /\ (\A b \in Linked' : valid(b, c)' => ~ dirty(b)') => disk'[c] = latest'[c]
  <2>1. /\ \A b \in Linked : valid(b, c) => b_data[b] = latest[c]
        /\ (\A b \in Linked : valid(b, c) => ~ dirty(b)) => disk[c] = latest[c]
    BY <1>1 DEF Coherent
  <2>2. \A b \in Linked' : valid(b, c)' => valid(b, c)
    BY DEF valid
  <2>3. \A b \in Linked : valid(b, c) /\ dirty(b) => (b \in Linked' /\ valid(b, c)' /\ dirty(b)') \/ disk[c] = b_data[b]
    BY <1>1 DEF valid, dirty, OnDisk
  <2> QED
    BY <2>1, <2>2, <2>3
<1>2. ASSUME NEW c \in FatBlk, c \notin told', \A b \in Linked' : valid(b, c)' => ~ dirty(b)'
      PROVE  disk'[Mirror(c)] = disk'[c]
  <2>1. (\A b \in Linked : valid(b, c) => ~ dirty(b)) => disk[Mirror(c)] = disk[c]
    BY <1>2 DEF FatMirrored
  <2>2. \A b \in Linked : valid(b, c) /\ dirty(b) => disk[Mirror(c)] = disk[c]
    BY <1>2 DEF valid, dirty, OnDisk
  <2> QED
    BY <2>1, <2>2
<1>3. Coherent'
  BY <1>1 DEF Coherent
<1> QED
  BY <1>2, <1>3 DEF FatMirrored

\* The flags of FAT blocks stay right where flags are only taken away.
LEMMA FlagLess ==
  ASSUME FlagInv, b_blk' = b_blk,
         \A b \in Buf : \/ b_flag'[b] = {}
                      \/ /\ "FAT" \in b_flag'[b] <=> "FAT" \in b_flag[b]
                         /\ dirty(b)' => dirty(b)
  PROVE  FlagInv'
BY DEF FlagInv, dirty

\* What flush1 has written when it is done.
LEMMA FlushedOnDisk ==
  ASSUME Inv, FlagInv, ProgressInv, pc = "flush1", FlushDone, dirty(bp), b_blk[bp] \notin told
  PROVE  OnDisk(bp)
<1>1. bp \in Buf /\ copies \in 0..2 /\ Copies(bp) \in 1..2 /\ copies >= Copies(bp)
  BY RingFacts DEF Inv, CallInv, Copies, FlushDone
<1>2. b_blk[bp] \in FatBlk => Copies(bp) = 2
  BY <1>1 DEF FlagInv, Copies
<1> QED
  BY <1>1, <1>2 DEF ProgressInv, OnDisk

\* A loop over the ring has visited nothing at firstbuf.
LEMMA AtFirst ==
  ASSUME RingInv, NEW b, b = firstbuf
  PROVE  \A i, j \in Pos : ~(b = Chain[j] /\ i < j)
<1>1. \A j \in Pos : b = Chain[j] => j = 0
  <2>1. 0 \in Pos
    BY RingFacts DEF Pos
  <2> QED
    BY <2>1, RingFacts
<1>2. Pos \subseteq Nat
  BY DEF Pos
<1> QED
  BY <1>1, <1>2

-----------------------------------------------------------------------------
(* Nothing written is lost, step by step.                                  *)

LEMMA SearchCalm ==
  ASSUME Inv, CalmInv, NEW c, searchblock(c), op' \in GetOps, pc \in {"idle", "fat"},
         UNCHANGED <<b_blk, b_data, disk, latest, told>>
  PROVE  CalmInv'
<1>1. /\ RingInv' /\ Linked' = Linked /\ copies' = 0 /\ ok' = TRUE /\ pc' \in {"have", "flush1"}
      /\ \A b \in Buf : ("VALID" \in b_flag'[b] <=> "VALID" \in b_flag[b])
                      /\ ("FAT" \in b_flag'[b] <=> "FAT" \in b_flag[b])
                      /\ ("DIRTY" \in b_flag'[b] <=> "DIRTY" \in b_flag[b])
  BY Search
<1>2. Linked \subseteq Buf
  BY RingFacts DEF Inv
<1>3. FlagInv'
  BY <1>1, FlagLess DEF CalmInv, dirty
<1>4. Coherent' /\ FatMirrored'
  <2>1. \A b \in Linked : dirty(b) => dirty(b)'
    BY <1>1, <1>2 DEF dirty
  <2> QED
    BY <2>1, <1>1, <1>2, CohClean DEF Inv, CalmInv
<1>5. ProgressInv'
  BY <1>1 DEF ProgressInv, Due, GetOps
<1> QED
  BY <1>3, <1>4, <1>5 DEF CalmInv

LEMMA FlushCopyCalm ==
  ASSUME Inv, CalmInv, NEW o \in WriteOutcomes, FlushCopy(o)
  PROVE  CalmInv'
<1> DEFINE c == b_blk[bp]
           x == IF copies = 0 THEN c ELSE Mirror(c)
<1>1. /\ pc = "flush1" /\ dirty(bp) /\ copies < Copies(bp)
      /\ UNCHANGED <<ring, b_flag, b_blk, b_data, latest>>
      /\ Transfers(x, b_data[bp], o)
      /\ told' = IF o \in {"ignore", "fail"} THEN told \cup {c} ELSE told
      /\ IF o = "abort" THEN End
         ELSE /\ copies' = copies + 1 /\ ok' = (ok /\ o # "fail")
              /\ UNCHANGED <<pc, op, blk, cnt, bp, held>>
  BY DEF FlushCopy
<1>2. Linked' = Linked /\ Pos' = Pos /\ Chain' = Chain
  BY <1>1, RingSame
<1>3. bp \in Linked /\ bp \in Buf /\ valid(bp, c) /\ c \in Cached
  BY <1>1, RingFacts DEF Inv, CallInv, DataInv, dirty, valid
<1>4. copies \in {0, 1} /\ (copies = 1 => c \in FatBlk)
  BY <1>1, <1>3 DEF Inv, CallInv, Copies, CalmInv, FlagInv
<1>5. x \in Blk /\ \A d \in Cached : d # c => x # d /\ disk'[d] = disk[d]
  <2>1. x \in Blk /\ \A d \in Cached : d # c => x # d
    BY <1>3, <1>4, Blocks, Mirrors
  <2> HIDE DEF x, c
  <2> QED
    BY <2>1, <1>1, Blocks DEF Transfers, Inv, DataInv
<1>6. \A d \in FatBlk : d # c => x # Mirror(d) /\ disk'[Mirror(d)] = disk[Mirror(d)]
  <2>1. \A d \in FatBlk : d # c => x # Mirror(d) /\ Mirror(d) \in Blk
    BY <1>3, <1>4, Mirrors
  <2> HIDE DEF x, c
  <2> QED
    BY <2>1, <1>1 DEF Transfers, Inv, DataInv
<1> HIDE DEF x, c
<1>7. told \subseteq told'
  BY <1>1
<1>8. Coherent'
  <2> SUFFICES ASSUME NEW d \in Cached, d \notin told'
               PROVE  /\ \A b \in Linked : valid(b, d) => b_data[b] = latest[d]
                      /\ (\A b \in Linked : valid(b, d) => ~ dirty(b)) => disk'[d] = latest[d]
    BY <1>1, <1>2 DEF Coherent, valid, dirty
  <2>1. /\ \A b \in Linked : valid(b, d) => b_data[b] = latest[d]
        /\ (\A b \in Linked : valid(b, d) => ~ dirty(b)) => disk[d] = latest[d]
    BY <1>1, <1>7 DEF CalmInv, Coherent
  <2> QED
    BY <2>1, <1>1, <1>3, <1>5
<1>9. FatMirrored'
  <2> SUFFICES ASSUME NEW d \in FatBlk, d \notin told', \A b \in Linked : valid(b, d) => ~ dirty(b)
               PROVE  disk'[Mirror(d)] = disk'[d]
    BY <1>1, <1>2 DEF FatMirrored, valid, dirty
  <2>1. disk[Mirror(d)] = disk[d]
    BY <1>7 DEF CalmInv, FatMirrored
  <2>2. d # c
    BY <1>1, <1>3
  <2> QED
    BY <2>1, <2>2, <1>5, <1>6, Blocks
<1>10. FlagInv'
  BY <1>1 DEF CalmInv, FlagInv, dirty
<1>11. ProgressInv'
  <2>1. CASE o = "abort"
    BY <1>1, <2>1 DEF ProgressInv, End
  <2>2. CASE o # "abort"
    <3>1. /\ copies' = copies + 1 /\ ok' = (ok /\ o # "fail")
          /\ UNCHANGED <<pc, op, blk, cnt, bp, held, b_flag, b_blk, b_data>>
      BY <1>1, <2>2
    <3>2. ASSUME c \notin told'
          PROVE  /\ copies' >= 1 => disk'[c] = b_data[bp]
                 /\ copies' >= 2 => disk'[Mirror(c)] = b_data[bp]
      <4>1. o = "ok" /\ c \notin told
        BY <1>1, <2>2, <3>2, BufAssumption DEF BufAssumption
      <4>2. disk' = [disk EXCEPT ![x] = b_data[bp]] /\ disk'[x] = b_data[bp]
        BY <4>1, <1>1, <1>5 DEF Transfers, Inv, DataInv
      <4>3. CASE copies = 0
        BY <4>2, <4>3, <3>1 DEF x
      <4>4. CASE copies = 1
        <5>1. x = Mirror(c) /\ x # c /\ c \in Blk
          BY <4>4, <1>3, <1>4, Mirrors, Blocks DEF x
        <5>2. disk[c] = b_data[bp]
          BY <4>1, <4>4, <1>1 DEF CalmInv, ProgressInv, c
        <5> QED
          BY <5>1, <5>2, <4>2 DEF Inv, DataInv
      <4> QED
        BY <4>3, <4>4, <1>4
    <3>3. ~ok' => c \in told'
      <4>1. CASE ~ok
        BY <4>1, <1>1, <1>7 DEF CalmInv, ProgressInv, c
      <4>2. CASE ok
        BY <4>2, <3>1, <1>1
      <4> QED
        BY <4>1, <4>2
    <3>4. \A i, j \in Pos : bp = Chain[j] /\ i < j => ~(Due(Chain[i]) /\ dirty(Chain[i]))
      BY <1>1 DEF CalmInv, ProgressInv
    <3>5. dirty(bp)' /\ b_blk'[bp'] = c /\ b_data'[bp'] = b_data[bp] /\ pc' = "flush1"
      BY <1>1, <3>1 DEF dirty, c
    <3>6. \A b : Due(b)' = Due(b) /\ dirty(b)' = dirty(b)
      BY <3>1 DEF Due, dirty
    <3> QED
      BY <3>1, <3>2, <3>3, <3>4, <3>5, <3>6, <1>2 DEF ProgressInv
  <2> QED
    BY <2>1, <2>2
<1> QED
  BY <1>8, <1>9, <1>10, <1>11 DEF CalmInv

LEMMA GetblkFlushedCalm ==
  ASSUME Inv, Inv', CalmInv, GetblkFlushed
  PROVE  CalmInv'
<1>1. /\ pc = "flush1" /\ FlushDone /\ b_flag' = Set(bp, flushed(bp))
      /\ (pc' = "load" /\ UNCHANGED <<op, blk, cnt, bp, held, copies, ok>>) \/ End
      /\ UNCHANGED <<ring, b_blk, b_data, disk, latest, told>>
  BY DEF GetblkFlushed
<1>2. Linked' = Linked
  BY <1>1, RingSame
<1>3. bp \in Linked /\ bp \in Buf /\ Linked \subseteq Buf
  BY <1>1, RingFacts DEF Inv, CallInv
<1>4. /\ b_flag'[bp] = flushed(bp) /\ flushed(bp) \subseteq b_flag[bp] /\ "DIRTY" \notin flushed(bp)
      /\ ("FAT" \in flushed(bp) <=> "FAT" \in b_flag[bp])
      /\ \A b \in Buf : b # bp => b_flag'[b] = b_flag[b]
  BY <1>1, <1>3, Flushed DEF Inv, DataInv, Set, flushed
<1>5. FlagInv'
  BY <1>1, <1>4, FlagLess DEF CalmInv, dirty
<1>6. Coherent' /\ FatMirrored'
  <2>1. \A b \in Linked : dirty(b) /\ b_blk[b] \notin told => (b \in Linked' /\ dirty(b)') \/ OnDisk(b)
    BY <1>1, <1>2, <1>3, <1>4, FlushedOnDisk DEF CalmInv, dirty
  <2>2. \A b \in Linked : "VALID" \in b_flag'[b] => "VALID" \in b_flag[b]
    BY <1>3, <1>4
  <2> QED
    BY <2>1, <2>2, <1>1, <1>2, CohClean DEF Inv, CalmInv
<1>7. ProgressInv'
  BY <1>1, <1>4 DEF ProgressInv, End
<1> QED
  BY <1>5, <1>6, <1>7 DEF CalmInv

\* Nothing is lost where blocks are read: what a buffer gets is what the disk
\* has, and it was clean.
LEMMA GetblkReadCalm ==
  ASSUME Inv, Inv', CalmInv, NEW o \in {"ok", "ignore"}, GetblkRead(o)
  PROVE  CalmInv'
<1>1. /\ pc = "load" /\ op \in GetOps
      /\ IF o = "ok" THEN b_data' = [b_data EXCEPT ![bp] = disk[blk]]
         ELSE \E v \in Vals : b_data' = [b_data EXCEPT ![bp] = v]
      /\ told' = IF o = "ignore" THEN told \cup {blk} ELSE told
      /\ b_flag' = Set(bp, {"VALID"}) /\ b_blk' = [b_blk EXCEPT ![bp] = blk]
      /\ pc' = "have" /\ UNCHANGED <<op, blk, cnt, bp, held, copies, ok>>
      /\ UNCHANGED <<ring, disk, latest>>
  BY DEF GetblkRead, Inv, CallInv
<1>2. Linked' = Linked
  BY <1>1, RingSame
<1>3. bp \in Linked /\ bp \in Buf /\ Linked \subseteq Buf /\ blk \in Cached
  BY <1>1, RingFacts, GetBlk DEF Inv, CallInv
<1>4. /\ b_flag'[bp] = {"VALID"} /\ b_blk'[bp] = blk /\ (blk \notin told' => b_data'[bp] = disk[blk])
      /\ \A b \in Buf : b # bp => b_flag'[b] = b_flag[b] /\ b_blk'[b] = b_blk[b] /\ b_data'[b] = b_data[b]
  BY <1>1, <1>3 DEF Inv, DataInv, Set
<1>5. \A b \in Linked : ~valid(b, blk)
  BY <1>1 DEF Inv, GetInv
<1>6. ~dirty(bp) /\ ~dirty(bp)' /\ told \subseteq told'
  BY <1>1, <1>4 DEF CalmInv, ProgressInv, dirty
<1>7. \A c : c # blk => \A b \in Linked : valid(b, c)' <=> valid(b, c) /\ b # bp
  BY <1>3, <1>4 DEF valid
<1>8. \A b \in Linked : b # bp => (dirty(b)' <=> dirty(b))
  BY <1>3, <1>4 DEF dirty
<1>9. Coherent'
  <2> SUFFICES ASSUME NEW c \in Cached, c \notin told'
               PROVE  /\ \A b \in Linked : valid(b, c)' => b_data'[b] = latest[c]
                      /\ (\A b \in Linked : valid(b, c)' => ~ dirty(b)') => disk[c] = latest[c]
    BY <1>1, <1>2 DEF Coherent
  <2>1. /\ \A b \in Linked : valid(b, c) => b_data[b] = latest[c]
        /\ (\A b \in Linked : valid(b, c) => ~ dirty(b)) => disk[c] = latest[c]
    BY <1>1, <1>6 DEF CalmInv, Coherent
  <2>2. CASE c = blk
    <3>1. disk[c] = latest[c]
      BY <2>1, <2>2, <1>5
    <3>2. \A b \in Linked : valid(b, c)' => b = bp
      BY <2>2, <1>3, <1>4, <1>5 DEF valid
    <3> QED
      BY <2>2, <3>1, <3>2, <1>4
  <2>3. CASE c # blk
    BY <2>1, <2>3, <1>3, <1>4, <1>6, <1>7, <1>8
  <2> QED
    BY <2>2, <2>3
<1>10. FatMirrored'
  <2> SUFFICES ASSUME NEW c \in FatBlk, c \notin told', \A b \in Linked : valid(b, c)' => ~ dirty(b)'
               PROVE  disk[Mirror(c)] = disk[c]
    BY <1>1, <1>2 DEF FatMirrored
  <2>1. (\A b \in Linked : valid(b, c) => ~ dirty(b)) => disk[Mirror(c)] = disk[c]
    BY <1>6 DEF CalmInv, FatMirrored
  <2>2. CASE c = blk
    BY <2>1, <2>2, <1>5
  <2>3. CASE c # blk
    BY <2>1, <2>3, <1>6, <1>7, <1>8
  <2> QED
    BY <2>2, <2>3
<1>11. FlagInv'
  BY <1>3, <1>4 DEF CalmInv, FlagInv, dirty
<1>12. ProgressInv'
  BY <1>1 DEF ProgressInv
<1> QED
  BY <1>9, <1>10, <1>11, <1>12 DEF CalmInv

\* Nothing is lost where the buffers of M get new content: they are dirty then.
LEMMA CohPut ==
  ASSUME RingInv, Coherent, FatMirrored, OneCopy', pc # "transfer",
         UNCHANGED <<disk, told>>, Linked' = Linked, NEW M, M \subseteq Linked,
         \A b \in Linked : b \notin M => b_flag'[b] = b_flag[b] /\ b_blk'[b] = b_blk[b] /\ b_data'[b] = b_data[b],
         \A b \in M : dirty(b)' /\ b_data'[b] = latest'[b_blk'[b]],
         \A d \in Cached : (\A b \in M : b_blk'[b] # d) => latest'[d] = latest[d],
         \A b \in M : dirty(b) => b_blk'[b] = b_blk[b]
  PROVE  Coherent' /\ FatMirrored'
<1>1. ASSUME NEW d, NEW m \in M, b_blk'[m] = d
      PROVE  /\ valid(m, d)' /\ dirty(m)' /\ m \in Linked
             /\ \A b \in Linked : valid(b, d)' => b_data'[b] = latest'[d]
  BY <1>1 DEF OneCopy, valid, dirty
<1>2. ASSUME NEW d, \A m \in M : b_blk'[m] # d
      PROVE  /\ \A b \in Linked : valid(b, d)' => valid(b, d) /\ b_data'[b] = b_data[b]
             /\ \A b \in Linked : valid(b, d) /\ dirty(b) => valid(b, d)' /\ dirty(b)'
  BY <1>2 DEF valid, dirty
<1>3. ASSUME NEW d \in Cached, d \notin told
      PROVE  /\ \A b \in Linked : valid(b, d)' => b_data'[b] = latest'[d]
             /\ (\A b \in Linked : valid(b, d)' => ~ dirty(b)') => disk[d] = latest'[d]
  <2>1. /\ \A b \in Linked : valid(b, d) => b_data[b] = latest[d]
        /\ (\A b \in Linked : valid(b, d) => ~ dirty(b)) => disk[d] = latest[d]
    BY <1>3 DEF Coherent
  <2>2. CASE \E m \in M : b_blk'[m] = d
    BY <1>1, <2>2
  <2>3. CASE \A m \in M : b_blk'[m] # d
    BY <2>1, <2>3, <1>2
  <2> QED
    BY <2>2, <2>3
<1>4. ASSUME NEW d \in FatBlk, d \notin told, \A b \in Linked : valid(b, d)' => ~ dirty(b)'
      PROVE  disk[Mirror(d)] = disk[d]
  <2>1. (\A b \in Linked : valid(b, d) => ~ dirty(b)) => disk[Mirror(d)] = disk[d]
    BY <1>4 DEF FatMirrored
  <2>2. CASE \E m \in M : b_blk'[m] = d
    BY <1>1, <1>4, <2>2
  <2>3. CASE \A m \in M : b_blk'[m] # d
    BY <2>1, <2>3, <1>2, <1>4
  <2> QED
    BY <2>2, <2>3
<1>5. Coherent'
  BY <1>3 DEF Coherent
<1> QED
  BY <1>4, <1>5 DEF FatMirrored

\* getblockOver and clear_dir: the buffer held this block, or was clean.
LEMMA OverwriteCalm ==
  ASSUME Inv, Inv', CalmInv, NEW v \in Vals, NEW more \in Soon, Overwrite(v, more)
  PROVE  CalmInv'
<1>1. /\ op = "over" /\ pc \in {"load", "have"}
      /\ b_data' = [b_data EXCEPT ![bp] = v] /\ b_blk' = [b_blk EXCEPT ![bp] = blk]
      /\ b_flag' = Set(bp, {"VALID", "DIRTY"} \cup more \cup (IF pc = "have" THEN b_flag[bp] ELSE {}))
      /\ latest' = [latest EXCEPT ![blk] = v]
      /\ pc' = "idle" /\ UNCHANGED <<ring, disk, told>>
  BY DEF Overwrite, End
<1>2. Linked' = Linked
  BY <1>1, RingSame
<1>3. bp \in Linked /\ bp \in Buf /\ Linked \subseteq Buf /\ blk \in DataBlk /\ blk \in Cached
  BY <1>1, RingFacts, Blocks DEF Inv, CallInv
<1>4. pc = "have" => valid(bp, blk) /\ b_blk[bp] = blk /\ "FAT" \notin b_flag[bp]
  BY <1>3, Mirrors DEF Inv, GetInv, CalmInv, FlagInv, valid
<1>5. pc = "load" => ~dirty(bp)
  BY DEF CalmInv, ProgressInv, dirty
<1>6. /\ b_blk'[bp] = blk /\ b_data'[bp] = v /\ {"VALID", "DIRTY"} \subseteq b_flag'[bp] /\ "FAT" \notin b_flag'[bp]
      /\ \A b \in Buf : b # bp => b_flag'[b] = b_flag[b] /\ b_blk'[b] = b_blk[b] /\ b_data'[b] = b_data[b]
  <2>1. /\ b_flag'[bp] = {"VALID", "DIRTY"} \cup more \cup (IF pc = "have" THEN b_flag[bp] ELSE {})
        /\ b_blk'[bp] = blk /\ b_data'[bp] = v
        /\ \A b \in Buf : b # bp => b_flag'[b] = b_flag[b] /\ b_blk'[b] = b_blk[b] /\ b_data'[b] = b_data[b]
    BY <1>1, <1>3 DEF Inv, DataInv, Set
  <2>2. "FAT" \notin b_flag'[bp]
    BY <2>1, <1>1, <1>4 DEF Soon
  <2>3. {"VALID", "DIRTY"} \subseteq b_flag'[bp]
    BY <2>1
  <2> QED
    BY <2>1, <2>2, <2>3
<1>7. latest'[blk] = v /\ \A d \in Cached : d # blk => latest'[d] = latest[d]
  BY <1>1, <1>3 DEF Inv, DataInv
<1>8. dirty(bp) => b_blk'[bp] = b_blk[bp]
  BY <1>1, <1>4, <1>5, <1>6
<1>9. Coherent' /\ FatMirrored'
  <2> DEFINE M == {bp}
  <2>1. /\ M \subseteq Linked
        /\ \A b \in Linked : b \notin M => b_flag'[b] = b_flag[b] /\ b_blk'[b] = b_blk[b] /\ b_data'[b] = b_data[b]
        /\ \A b \in M : dirty(b)' /\ b_data'[b] = latest'[b_blk'[b]]
        /\ \A d \in Cached : (\A b \in M : b_blk'[b] # d) => latest'[d] = latest[d]
        /\ \A b \in M : dirty(b) => b_blk'[b] = b_blk[b]
    BY <1>3, <1>6, <1>7, <1>8 DEF dirty
  <2> HIDE DEF M
  <2> QED
    BY <2>1, <1>1, <1>2, CohPut DEF Inv, CalmInv
<1>10. FlagInv'
  BY <1>3, <1>6, Mirrors DEF CalmInv, FlagInv, dirty
<1>11. ProgressInv'
  BY <1>1 DEF ProgressInv
<1> QED
  BY <1>9, <1>10, <1>11 DEF CalmInv

\* rwblock and dir_write_update change the block they were handed.
LEMMA UseBlock ==
  ASSUME Inv, Inv', CalmInv, NEW v \in Vals, pc = "have", op \in {"write", "dir"},
         b_data' = [b_data EXCEPT ![bp] = v], latest' = [latest EXCEPT ![blk] = v],
         NEW f, f \subseteq {"UNCACHE"}, b_flag' \in {Set(bp, b_flag[bp] \cup {"VALID", "DIRTY"} \cup f),
                                                  Set(bp, (b_flag[bp] \ {"FAT"}) \cup {"VALID", "DIRTY"})},
         UNCHANGED <<ring, b_blk, disk, told>>
  PROVE  Coherent' /\ FatMirrored' /\ FlagInv'
<1>2. Linked' = Linked
  BY RingSame
<1>3. /\ bp \in Linked /\ bp \in Buf /\ Linked \subseteq Buf /\ blk \in DataBlk /\ blk \in Cached
      /\ b_blk[bp] = blk
  BY RingFacts, Blocks DEF Inv, CallInv, GetInv, valid
<1>4. "FAT" \notin b_flag[bp]
  BY <1>3, Mirrors DEF CalmInv, FlagInv
<1>6. /\ b_blk'[bp] = blk /\ b_data'[bp] = v /\ {"VALID", "DIRTY"} \subseteq b_flag'[bp] /\ "FAT" \notin b_flag'[bp]
      /\ \A b \in Buf : b # bp => b_flag'[b] = b_flag[b] /\ b_blk'[b] = b_blk[b] /\ b_data'[b] = b_data[b]
  <2>1. /\ b_flag'[bp] \in {b_flag[bp] \cup {"VALID", "DIRTY"} \cup f, (b_flag[bp] \ {"FAT"}) \cup {"VALID", "DIRTY"}}
        /\ b_blk'[bp] = blk /\ b_data'[bp] = v
        /\ \A b \in Buf : b # bp => b_flag'[b] = b_flag[b] /\ b_blk'[b] = b_blk[b] /\ b_data'[b] = b_data[b]
    BY <1>3 DEF Inv, DataInv, Set
  <2>2. "FAT" \notin b_flag'[bp] /\ {"VALID", "DIRTY"} \subseteq b_flag'[bp]
    BY <2>1, <1>4
  <2> QED
    BY <2>1, <2>2
<1>7. latest'[blk] = v /\ \A d \in Cached : d # blk => latest'[d] = latest[d]
  BY <1>3 DEF Inv, DataInv
<1>9. Coherent' /\ FatMirrored'
  <2> DEFINE M == {bp}
  <2>1. /\ M \subseteq Linked
        /\ \A b \in Linked : b \notin M => b_flag'[b] = b_flag[b] /\ b_blk'[b] = b_blk[b] /\ b_data'[b] = b_data[b]
        /\ \A b \in M : dirty(b)' /\ b_data'[b] = latest'[b_blk'[b]]
        /\ \A d \in Cached : (\A b \in M : b_blk'[b] # d) => latest'[d] = latest[d]
        /\ \A b \in M : dirty(b) => b_blk'[b] = b_blk[b]
    BY <1>3, <1>6, <1>7 DEF dirty
  <2> HIDE DEF M
  <2> QED
    BY <2>1, <1>2, CohPut DEF Inv, CalmInv
<1>10. FlagInv'
  BY <1>3, <1>6, Mirrors DEF CalmInv, FlagInv, dirty
<1> QED
  BY <1>9, <1>10

LEMMA UseWriteCalm ==
  ASSUME Inv, Inv', CalmInv, NEW v \in Vals, NEW more \in Soon, UseWrite(v, more)
  PROVE  CalmInv'
<1>1. /\ pc = "have" /\ op \in {"write", "dir"} /\ pc' = "idle"
      /\ b_data' = [b_data EXCEPT ![bp] = v] /\ latest' = [latest EXCEPT ![blk] = v]
      /\ b_flag' = Set(bp, b_flag[bp] \cup {"VALID", "DIRTY"} \cup more)
      /\ more \subseteq {"UNCACHE"}
      /\ UNCHANGED <<ring, b_blk, disk, told>>
  BY DEF UseWrite, End, Soon
<1>2. b_flag' \in {Set(bp, b_flag[bp] \cup {"VALID", "DIRTY"} \cup more),
                  Set(bp, (b_flag[bp] \ {"FAT"}) \cup {"VALID", "DIRTY"})}
  BY <1>1
<1>3. Coherent' /\ FatMirrored' /\ FlagInv'
  BY <1>1, <1>2, UseBlock
<1>4. ProgressInv'
  BY <1>1 DEF ProgressInv
<1> QED
  BY <1>3, <1>4 DEF CalmInv

LEMMA UseDirCalm ==
  ASSUME Inv, Inv', CalmInv, NEW v \in Vals, UseDir(v)
  PROVE  CalmInv'
<1>1. /\ pc = "have" /\ op \in {"write", "dir"} /\ pc' = "walk" /\ op' = "flush_buffers" /\ bp' = firstbuf
      /\ b_data' = [b_data EXCEPT ![bp] = v] /\ latest' = [latest EXCEPT ![blk] = v]
      /\ b_flag' = Set(bp, (b_flag[bp] \ {"FAT"}) \cup {"VALID", "DIRTY"})
      /\ UNCHANGED <<ring, b_blk, disk, told>>
  BY DEF UseDir, WalkFrom
<1>2. b_flag' \in {Set(bp, b_flag[bp] \cup {"VALID", "DIRTY"} \cup {}),
                  Set(bp, (b_flag[bp] \ {"FAT"}) \cup {"VALID", "DIRTY"})}
  BY <1>1
<1>3. Coherent' /\ FatMirrored' /\ FlagInv'
  BY <1>1, <1>2, UseBlock
<1>4. ProgressInv'
  BY <1>1 DEF ProgressInv, Due
<1> QED
  BY <1>3, <1>4 DEF CalmInv

\* link_fat changes the one or two FAT sectors it was handed.
LEMMA UseFatCalm ==
  ASSUME Inv, Inv', CalmInv, NEW v \in Vals, UseFat(v)
  PROVE  CalmInv'
<1>1. /\ pc = "fat" /\ pc' = "idle" /\ UNCHANGED <<ring, b_blk, disk, told>>
  BY DEF UseFat, End
<1>2. Linked' = Linked
  BY <1>1, RingSame
<1>3. ProgressInv'
  BY <1>1 DEF ProgressInv
<1>4. CASE UNCHANGED <<b_flag, b_data, latest>>
  <2>1. Coherent' /\ FatMirrored'
    <3>1. \A b \in Linked : dirty(b) => dirty(b)'
      BY <1>4 DEF dirty
    <3> QED
      BY <3>1, <1>1, <1>2, <1>4, CohClean DEF Inv, CalmInv
  <2>2. FlagInv'
    BY <1>1, <1>4, FlagLess DEF CalmInv, dirty
  <2> QED
    BY <2>1, <2>2, <1>3 DEF CalmInv
<1>5. CASE /\ b_flag' = [b \in Buf |-> b_flag[b] \cup IF b \in Mine THEN {"VALID", "DIRTY"} ELSE {}]
           /\ b_data' = [b \in Buf |-> IF b \in Mine THEN v ELSE b_data[b]]
           /\ latest' = [c \in Cached |-> IF c \in {b_blk[b] : b \in Mine} THEN v ELSE latest[c]]
  <2>1. Linked \subseteq Buf /\ Mine \subseteq Linked /\ \A b \in Mine : valid(b, b_blk[b]) /\ "FAT" \in b_flag[b]
    BY <1>1, RingFacts DEF Mine, Inv, CallInv, GetInv, HeldInv, valid
  <2>2. \A b \in Mine : b_blk[b] \in Cached
    BY <2>1 DEF Inv, DataInv, valid
  <2>3. /\ \A b \in Linked : b \notin Mine => b_flag'[b] = b_flag[b] /\ b_blk'[b] = b_blk[b] /\ b_data'[b] = b_data[b]
        /\ \A b \in Mine : dirty(b)' /\ b_data'[b] = latest'[b_blk'[b]]
        /\ \A d \in Cached : (\A b \in Mine : b_blk'[b] # d) => latest'[d] = latest[d]
        /\ \A b \in Mine : dirty(b) => b_blk'[b] = b_blk[b]
    <3>1. \A b \in Mine : b_blk[b] \in {b_blk[a] : a \in Mine}
      OBVIOUS
    <3> QED
      BY <3>1, <2>1, <2>2, <1>1, <1>5 DEF dirty
  <2>4. Coherent' /\ FatMirrored'
    BY <2>1, <2>3, <1>1, <1>2, CohPut DEF Inv, CalmInv
  <2>5. FlagInv'
    BY <2>1, <1>1, <1>5 DEF CalmInv, FlagInv, dirty
  <2> QED
    BY <2>4, <2>5, <1>3 DEF CalmInv
<1> QED
  BY <1>4, <1>5 DEF UseFat

LEMMA UseReadCalm ==
  ASSUME Inv, CalmInv, NEW more \in Soon, UseRead(more)
  PROVE  CalmInv'
<1>1. /\ pc = "have" /\ b_flag' = Set(bp, b_flag[bp] \cup more) /\ more \subseteq {"UNCACHE"}
      /\ pc' = "idle" /\ UNCHANGED <<ring, b_blk, b_data, disk, latest, told>>
  BY DEF UseRead, End, Soon
<1>2. Linked' = Linked /\ bp \in Buf /\ Linked \subseteq Buf
  BY <1>1, RingSame, RingFacts DEF Inv, CallInv
<1>3. \A b \in Buf, f \in {"VALID", "DIRTY", "FAT"} : f \in b_flag'[b] <=> f \in b_flag[b]
  BY <1>1, <1>2 DEF Inv, DataInv, Set
<1>4. \A b \in Buf : {"VALID", "DIRTY"} \subseteq b_flag'[b] <=> dirty(b)
  BY <1>3 DEF dirty
<1>5. FlagInv'
  BY <1>1, <1>3, <1>4, FlagLess DEF CalmInv, dirty
<1>6. Coherent' /\ FatMirrored'
  <2>1. \A b \in Linked : dirty(b) => dirty(b)'
    BY <1>2, <1>4 DEF dirty
  <2> QED
    BY <2>1, <1>1, <1>2, <1>3, CohClean DEF Inv, CalmInv
<1>7. ProgressInv'
  BY <1>1 DEF ProgressInv
<1> QED
  BY <1>5, <1>6, <1>7 DEF CalmInv

LEMMA getFATblockCalm ==
  ASSUME Inv, CalmInv, getFATblock
  PROVE  CalmInv'
<1>1. /\ pc = "have" /\ op \in {"fat", "link"} /\ pc' = "fat"
      /\ b_flag' = Set(bp, b_flag[bp] \cup {"FAT", "VALID"})
      /\ UNCHANGED <<ring, b_blk, b_data, disk, latest, told>>
  BY DEF getFATblock
<1>2. Linked' = Linked /\ bp \in Buf /\ Linked \subseteq Buf
  BY <1>1, RingSame, RingFacts DEF Inv, CallInv
<1>3. "VALID" \in b_flag[bp] /\ b_blk[bp] \in FatBlk
  BY <1>1 DEF Inv, CallInv, GetInv, valid
<1>4. \A b \in Buf, f \in {"VALID", "DIRTY"} : f \in b_flag'[b] <=> f \in b_flag[b]
  BY <1>1, <1>2, <1>3 DEF Inv, DataInv, Set
<1>5. \A b \in Buf : {"VALID", "DIRTY"} \subseteq b_flag'[b] <=> dirty(b)
  BY <1>4 DEF dirty
<1>6. \A b \in Buf : b # bp => b_flag'[b] = b_flag[b]
  BY <1>1, <1>2 DEF Inv, DataInv, Set
<1>7. "FAT" \in b_flag'[bp]
  BY <1>1, <1>2 DEF Inv, DataInv, Set
<1>8. FlagInv'
  BY <1>1, <1>3, <1>5, <1>6, <1>7 DEF CalmInv, FlagInv, dirty
<1>9. Coherent' /\ FatMirrored'
  <2>1. \A b \in Linked : dirty(b) => dirty(b)'
    BY <1>2, <1>5 DEF dirty
  <2> QED
    BY <2>1, <1>1, <1>2, <1>4, CohClean DEF Inv, CalmInv
<1>10. ProgressInv'
  BY <1>1 DEF ProgressInv
<1> QED
  BY <1>8, <1>9, <1>10 DEF CalmInv

\* Steps that move no data and change no flag: a loop over the ring begins, or
\* comes to a buffer to flush, a direct read ends.
LEMMA SameCalm ==
  ASSUME Inv, CalmInv, UNCHANGED <<ring, b_flag, b_blk, b_data, disk, latest, told>>,
         pc \in {"idle", "walk", "dread"},
         \/ pc' = "idle"
         \/ pc' = "walk" /\ bp' = firstbuf
         \/ pc' = "flush1" /\ pc = "walk" /\ copies' = 0 /\ ok' = TRUE /\ UNCHANGED <<op, blk, cnt, bp>>
  PROVE  CalmInv'
<1>1. RingInv' /\ Linked' = Linked /\ Pos' = Pos /\ Chain' = Chain
  BY RingSame DEF Inv
<1>2. FlagInv'
  BY FlagLess DEF CalmInv, dirty
<1>3. Coherent' /\ FatMirrored'
  <2>1. \A b \in Linked : dirty(b) => dirty(b)'
    BY DEF dirty
  <2> QED
    BY <2>1, <1>1, CohClean DEF Inv, CalmInv
<1>4. CASE pc' = "idle"
  <2>1. ProgressInv'
    BY <1>4 DEF ProgressInv
  <2> QED
    BY <2>1, <1>2, <1>3 DEF CalmInv
<1>5. CASE pc' = "walk" /\ bp' = firstbuf
  <2>1. \A i, j \in Pos : ~(bp' = Chain[j] /\ i < j)
    BY <1>5, AtFirst DEF Inv
  <2>2. ProgressInv'
    BY <2>1, <1>1, <1>5 DEF ProgressInv
  <2> QED
    BY <2>2, <1>2, <1>3 DEF CalmInv
<1>6. CASE pc' = "flush1" /\ pc = "walk" /\ copies' = 0 /\ ok' = TRUE /\ UNCHANGED <<op, blk, cnt, bp>>
  <2>1. \A b : Due(b)' = Due(b) /\ dirty(b)' = dirty(b)
    BY <1>6 DEF Due, dirty
  <2>2. \A i, j \in Pos : bp = Chain[j] /\ i < j => ~(Due(Chain[i]) /\ dirty(Chain[i]))
    BY <1>6 DEF CalmInv, ProgressInv
  <2>3. ProgressInv'
    BY <2>1, <2>2, <1>1, <1>6 DEF ProgressInv
  <2> QED
    BY <2>3, <1>2, <1>3 DEF CalmInv
<1> QED
  BY <1>4, <1>5, <1>6

\* Where a loop over the ring is, it has been at all buffers before.
LEMMA WalkOn ==
  ASSUME RingInv, NEW b \in Linked
  PROVE  /\ b_next[b] # firstbuf =>
              \A i, j \in Pos : b_next[b] = Chain[j] /\ i < j =>
                 Chain[i] = b \/ \E k \in Pos : b = Chain[k] /\ i < k
         /\ b_next[b] = firstbuf =>
              \A a \in Linked : a # b => \E i, k \in Pos : a = Chain[i] /\ b = Chain[k] /\ i < k
<1>1. PICK k \in Pos : b = Chain[k]
  BY RingFacts
<1>2. nbuffers \in Nat /\ nbuffers >= 2 /\ Pos = 0..nbuffers-1
  BY RingFacts DEF Pos
<1>3. CASE k = nbuffers - 1
  <2>1. b_next[b] = firstbuf
    BY <1>1, <1>3, RingFacts
  <2>2. ASSUME NEW a \in Linked, a # b PROVE \E i \in Pos : a = Chain[i] /\ i < k
    <3>1. PICK i \in Pos : a = Chain[i]
      BY RingFacts
    <3> QED
      BY <3>1, <2>2, <1>1, <1>2, <1>3
  <2> QED
    BY <2>1, <2>2, <1>1
<1>4. CASE k # nbuffers - 1
  <2>1. k \in 0..nbuffers-2 /\ k + 1 \in Pos /\ 0 \in Pos /\ k + 1 # 0
    BY <1>2, <1>4
  <2>2. b_next[b] = Chain[k+1] /\ Chain[0] = firstbuf /\ \A i, j \in Pos : Chain[i] = Chain[j] => i = j
    BY <2>1, <1>1, RingFacts
  <2>3. b_next[b] # firstbuf
    BY <2>1, <2>2
  <2>4. ASSUME NEW i \in Pos, NEW j \in Pos, b_next[b] = Chain[j], i < j
        PROVE  Chain[i] = b \/ i < k
    <3>1. j = k + 1
      BY <2>1, <2>2, <2>4
    <3> QED
      BY <3>1, <2>4, <1>1, <1>2
  <2> QED
    BY <2>3, <2>4, <1>1
<1> QED
  BY <1>3, <1>4

\* The loop goes on, or ends: what it was to leave clean is clean.
LEMMA AdvanceCalm ==
  ASSUME Inv, Inv', CalmInv, NEW f \in [Buf -> SUBSET Flags], Advance(f),
         op \in WalkOps, pc \in {"walk", "flush1"},
         UNCHANGED <<b_blk, b_data, disk, latest, told>>,
         op # "hma" => UNCHANGED ring, Linked \ {bp} \subseteq Linked', Linked' \subseteq Linked,
         \A b \in Buf : b # bp => f[b] = b_flag[b],
         f[bp] \subseteq b_flag[bp], "FAT" \in f[bp] <=> "FAT" \in b_flag[bp],
         dirty(bp) /\ b_blk[bp] \notin told =>
            ({"VALID", "DIRTY"} \subseteq f[bp] /\ bp \in Linked') \/ OnDisk(bp),
         Due(bp) => ~({"VALID", "DIRTY"} \subseteq f[bp])
  PROVE  CalmInv'
<1> DEFINE Over == b_flag' = IF op = "rebuild" THEN setinvld(f, blk[1]) ELSE f
<1>1. bp \in Linked /\ bp \in Buf /\ Linked \subseteq Buf /\ Linked' \subseteq Linked
  BY RingFacts, RingSame DEF Inv, CallInv
<1>2. \A b \in Buf : f[b] \subseteq b_flag[b] /\ ("FAT" \in f[b] <=> "FAT" \in b_flag[b])
  OBVIOUS
<1>3. ASSUME NEW b \in Linked, dirty(b), b_blk[b] \notin told
      PROVE  \/ {"VALID", "DIRTY"} \subseteq f[b] /\ b \in Linked'
             \/ OnDisk(b)
  <2>1. CASE b = bp
    BY <2>1, <1>1, <1>3, RingSame
  <2>2. CASE b # bp
    BY <2>2, <1>1, <1>3, RingSame DEF dirty
  <2> QED
    BY <2>1, <2>2
<1>4. ASSUME b_flag' = f PROVE Coherent' /\ FatMirrored' /\ FlagInv'
  <2>1. \A b \in Linked : dirty(b) /\ b_blk[b] \notin told => (b \in Linked' /\ dirty(b)') \/ OnDisk(b)
    BY <1>3, <1>4 DEF dirty
  <2>2. Coherent' /\ FatMirrored'
    BY <2>1, <1>1, <1>2, <1>4, CohClean DEF Inv, CalmInv
  <2>3. FlagInv'
    BY <1>2, <1>4, FlagLess DEF CalmInv, dirty
  <2> QED
    BY <2>2, <2>3
<1>5. ASSUME op \in {"rebuild", "dread"}, b_next[bp] = firstbuf, NEW b \in Linked, Due(b)
      PROVE  ~({"VALID", "DIRTY"} \subseteq f[b])
  <2>1. CASE b = bp
    BY <2>1, <1>5
  <2>2. CASE b # bp
    <3>1. PICK i \in Pos, k \in Pos : b = Chain[i] /\ bp = Chain[k] /\ i < k
      BY <2>2, <1>1, <1>5, WalkOn DEF Inv
    <3>2. ~dirty(b)
      BY <3>1, <1>5 DEF CalmInv, ProgressInv
    <3> QED
      BY <2>2, <3>2, <1>1 DEF dirty
  <2> QED
    BY <2>1, <2>2
<1>6. CASE /\ pc' = "walk" /\ bp' = b_next[bp] /\ b_flag' = f /\ UNCHANGED <<op, blk>>
           /\ cnt' = (IF op = "hma" THEN cnt - 1 ELSE cnt)
           /\ (op # "hma" => b_next[bp] # firstbuf)
  <2>1. ASSUME op \in {"rebuild", "dread"}, NEW i \in Pos, NEW j \in Pos, bp' = Chain[j], i < j
        PROVE  ~(Due(Chain[i]) /\ {"VALID", "DIRTY"} \subseteq f[Chain[i]])
    <3>1. Chain[i] = bp \/ \E k \in Pos : bp = Chain[k] /\ i < k
      <4>1. b_next[bp] # firstbuf /\ b_next[bp] = Chain[j]
        BY <2>1, <1>6
      <4>2. RingInv
        BY DEF Inv
      <4>3. b_next[bp] # firstbuf =>
              \A m, l \in Pos : b_next[bp] = Chain[l] /\ m < l =>
                Chain[m] = bp \/ \E k \in Pos : bp = Chain[k] /\ m < k
        BY <4>2, <1>1, WalkOn
      <4> QED
        BY <4>1, <4>3, <2>1
    <3>2. CASE Chain[i] = bp
      BY <3>2
    <3>3. CASE \E k \in Pos : bp = Chain[k] /\ i < k
      <4>1. ~(Due(Chain[i]) /\ dirty(Chain[i]))
        BY <3>3 DEF CalmInv, ProgressInv
      <4>2. Chain[i] \in Buf
        BY <1>1, RingFacts DEF Inv
      <4> QED
        BY <4>1, <4>2, <1>2 DEF dirty
    <3> QED
      BY <3>1, <3>2, <3>3
  <2>2. CASE op \in {"rebuild", "dread"}
    <3>1. Pos' = Pos /\ Chain' = Chain
      BY <2>2, RingSame
    <3>2. \A b : Due(b)' = Due(b)
      BY <2>2, <1>6 DEF Due
    <3>3. ProgressInv'
      BY <3>1, <3>2, <2>1, <2>2, <1>6 DEF ProgressInv, dirty
    <3> QED
      BY <3>3, <1>4, <1>6 DEF CalmInv
  <2>3. CASE op \notin {"rebuild", "dread"}
    <3>1. ProgressInv'
      BY <2>3, <1>6 DEF ProgressInv, Due
    <3> QED
      BY <3>1, <1>4, <1>6 DEF CalmInv
  <2> QED
    BY <2>2, <2>3
<1>7. CASE op = "dread" /\ b_next[bp] = firstbuf /\ pc' = "dread" /\ b_flag' = f /\ UNCHANGED <<op, blk, cnt>>
  <2>1. \A b : Due(b)' = Due(b)
    BY <1>7 DEF Due
  <2>2. \A b \in Linked' : Due(b) => ~({"VALID", "DIRTY"} \subseteq b_flag'[b])
    BY <1>1, <1>5, <1>7
  <2>3. ProgressInv'
    BY <2>1, <2>2, <1>7 DEF ProgressInv, dirty
  <2> QED
    BY <2>3, <1>4, <1>7 DEF CalmInv
<1>8. CASE pc' = "idle" /\ Over /\ (op # "hma" => b_next[bp] = firstbuf)
  <2>1. ProgressInv'
    BY <1>8 DEF ProgressInv
  <2>2. CASE op # "rebuild"
    BY <2>1, <2>2, <1>4, <1>8 DEF CalmInv
  <2>3. CASE op = "rebuild"
    <3>1. \A b \in Buf : b_flag'[b] = (IF b \in Linked /\ b_blk[b][1] = blk[1] THEN {} ELSE f[b])
      BY <2>3, <1>8 DEF setinvld
    <3>2. \A b \in Buf : b_flag'[b] = {} \/ b_flag'[b] = f[b]
      BY <3>1
    <3>3. FlagInv'
      BY <3>2, <1>2, FlagLess DEF CalmInv, dirty
    <3>4. ASSUME NEW b \in Linked, dirty(b), b_blk[b] \notin told
          PROVE  (b \in Linked' /\ {"VALID", "DIRTY"} \subseteq b_flag'[b]) \/ OnDisk(b)
      <4>1. CASE b_blk[b][1] = blk[1]
        <5>1. ~({"VALID", "DIRTY"} \subseteq f[b])
          BY <4>1, <2>3, <1>5, <1>8 DEF Due
        <5> QED
          BY <5>1, <3>4, <1>3
      <4>2. CASE b_blk[b][1] # blk[1]
        BY <4>2, <3>1, <3>4, <1>1, <1>3
      <4> QED
        BY <4>1, <4>2
    <3>5. Coherent' /\ FatMirrored'
      <4>1. \A b \in Linked : dirty(b) /\ b_blk[b] \notin told => (b \in Linked' /\ dirty(b)') \/ OnDisk(b)
        BY <3>4 DEF dirty
      <4>2. \A b \in Linked' : "VALID" \in b_flag'[b] => "VALID" \in b_flag[b]
        BY <3>2, <1>1, <1>2
      <4> QED
        BY <4>1, <4>2, <1>1, CohClean DEF Inv, CalmInv
    <3> QED
      BY <2>1, <3>3, <3>5 DEF CalmInv
  <2> QED
    BY <2>2, <2>3
<1> QED
  BY <1>6, <1>7, <1>8 DEF Advance, End, WalkOps

LEMMA WalkSkipCalm ==
  ASSUME Inv, Inv', CalmInv, WalkSkip
  PROVE  CalmInv'
<1>1. /\ pc = "walk" /\ op \in WalkOps /\ ~Target(bp) /\ Advance(b_flag)
      /\ UNCHANGED <<ring, b_blk, b_data, disk, latest, told>>
  BY DEF WalkSkip, Inv, CallInv
<1>2. /\ bp \in Linked /\ bp \in Buf /\ Linked' = Linked
      /\ b_flag \in [Buf -> SUBSET Flags] /\ UNCHANGED ring
  BY <1>1, RingFacts, RingSame DEF Inv, CallInv, DataInv
<1>3. Due(bp) => ~({"VALID", "DIRTY"} \subseteq b_flag[bp])
  BY <1>1 DEF Due, Target, valid
<1>4. dirty(bp) => {"VALID", "DIRTY"} \subseteq b_flag[bp]
  BY DEF dirty
<1> QED
  BY <1>1, <1>2, <1>3, <1>4, AdvanceCalm

LEMMA WalkFlushedCalm ==
  ASSUME Inv, Inv', CalmInv, WalkFlushed
  PROVE  CalmInv'
<1> DEFINE f == Set(bp, IF op = "flush" THEN flushed(bp) \ {"VALID"} ELSE flushed(bp))
<1>1. /\ pc = "flush1" /\ FlushDone /\ op \in WalkOps /\ Advance(f)
      /\ IF op # "hma" THEN UNCHANGED ring
         ELSE /\ b_next' = [b_next EXCEPT ![b_prev[bp]] = b_next[bp]]
              /\ b_prev' = [b_prev EXCEPT ![b_next[bp]] = b_prev[bp]]
              /\ firstbuf' = IF bp = firstbuf THEN b_next[bp] ELSE firstbuf
              /\ nbuffers' = nbuffers - 1
      /\ UNCHANGED <<b_blk, b_data, disk, latest, told>>
  BY DEF WalkFlushed, WalkOps
<1>2. bp \in Linked /\ bp \in Buf
  BY <1>1, RingFacts DEF Inv, CallInv
<1>3. Linked \ {bp} \subseteq Linked' /\ Linked' \subseteq Linked
  <2>1. CASE op # "hma"
    BY <2>1, <1>1, RingSame
  <2>2. CASE op = "hma"
    <3>1. bp \in HmaBufs
      BY <2>2, <1>1 DEF Inv, CallInv
    <3> QED
      BY <2>2, <3>1, <1>1, <1>2, SoldRing DEF Inv
  <2> QED
    BY <2>1, <2>2
<1>4. /\ f \in [Buf -> SUBSET Flags] /\ f[bp] \subseteq b_flag[bp] /\ "DIRTY" \notin f[bp]
      /\ ("FAT" \in f[bp] <=> "FAT" \in b_flag[bp])
      /\ \A b \in Buf : b # bp => f[b] = b_flag[b]
  <2>1. /\ flushed(bp) \subseteq b_flag[bp] /\ flushed(bp) \subseteq Flags /\ "DIRTY" \notin flushed(bp)
        /\ ("FAT" \in flushed(bp) <=> "FAT" \in b_flag[bp])
    BY <1>2, Flushed DEF Inv, flushed
  <2> QED
    BY <2>1, <1>2 DEF Inv, DataInv, Set
<1> HIDE DEF f
<1>5. dirty(bp) /\ b_blk[bp] \notin told => OnDisk(bp)
  BY <1>1, FlushedOnDisk DEF CalmInv
<1>6. ~({"VALID", "DIRTY"} \subseteq f[bp])
  BY <1>4
<1> QED
  BY <1>1, <1>3, <1>4, <1>5, <1>6, AdvanceCalm

\* A direct write: its blocks are in no buffer while it lasts.
LEMMA DirectWriteCalm ==
  ASSUME Inv, CalmInv, NEW c, NEW n, Run(c, n) \subseteq DataBlk, DirectWrite(c, n)
  PROVE  CalmInv'
<1>1. /\ pc = "idle" /\ pc' = "transfer" /\ op' = "dwrite" /\ blk' = c /\ cnt' = n /\ b_flag' = Forget(Run(c, n))
      /\ UNCHANGED <<ring, b_blk, b_data, disk, latest, told>>
  BY DEF DirectWrite, PastCache
<1>2. Linked' = Linked /\ Linked \subseteq Buf
  BY <1>1, RingSame, RingFacts DEF Inv
<1>3. \A b \in Buf : b_flag'[b] = {} \/ b_flag'[b] = b_flag[b]
  BY <1>1 DEF Forget
<1>4. \A b \in Linked, d \in Run(c, n) : ~valid(b, d)'
  BY <1>1, <1>2 DEF Forget, valid
<1>5. \A b \in Linked : \A d : d \notin Run(c, n) => (valid(b, d) => b_flag'[b] = b_flag[b])
  BY <1>1, <1>2 DEF Forget, valid
<1>6. \A b \in Linked : \A d : d \notin Run(c, n) => (valid(b, d)' <=> valid(b, d)) /\ (valid(b, d) => (dirty(b)' <=> dirty(b)))
  BY <1>1, <1>2, <1>3, <1>5 DEF valid, dirty
<1>7. FlagInv'
  BY <1>1, <1>3, FlagLess DEF CalmInv, dirty
<1>8. Coherent'
  <2> SUFFICES ASSUME NEW d \in Cached, d \notin told, d \notin Run(c, n)
               PROVE  /\ \A b \in Linked : valid(b, d)' => b_data[b] = latest[d]
                      /\ (\A b \in Linked : valid(b, d)' => ~ dirty(b)') => disk[d] = latest[d]
    BY <1>1, <1>2 DEF Coherent
  <2>1. /\ \A b \in Linked : valid(b, d) => b_data[b] = latest[d]
        /\ (\A b \in Linked : valid(b, d) => ~ dirty(b)) => disk[d] = latest[d]
    BY <1>1 DEF CalmInv, Coherent
  <2> QED
    BY <2>1, <1>6
<1>9. FatMirrored'
  <2> SUFFICES ASSUME NEW d \in FatBlk, d \notin told, \A b \in Linked : valid(b, d)' => ~ dirty(b)'
               PROVE  disk[Mirror(d)] = disk[d]
    BY <1>1, <1>2 DEF FatMirrored
  <2>1. d \notin Run(c, n)
    BY Mirrors
  <2>2. (\A b \in Linked : valid(b, d) => ~ dirty(b)) => disk[Mirror(d)] = disk[d]
    BY DEF CalmInv, FatMirrored
  <2> QED
    BY <2>1, <2>2, <1>6
<1>10. ProgressInv'
  BY <1>1, <1>2, <1>4 DEF ProgressInv
<1> QED
  BY <1>7, <1>8, <1>9, <1>10 DEF CalmInv

LEMMA TransferDoneCalm ==
  ASSUME Inv, CalmInv, NEW v \in Vals, NEW o, TransferDone(v, o)
  PROVE  CalmInv'
<1> DEFINE R == Run(blk, cnt)
<1>1. /\ pc = "transfer" /\ op = "dwrite" /\ pc' = "idle"
      /\ R \subseteq DataBlk /\ \A b \in Linked, c \in R : ~valid(b, c)
  BY DEF TransferDone, CalmInv, ProgressInv, Inv, CallInv, End
<1>2. /\ UNCHANGED <<ring, b_flag, b_blk, b_data>>
      /\ \E m \in (IF o = "ok" THEN {cnt} ELSE 0..cnt) :
           disk' = [c \in Blk |-> IF c \in Run(blk, m) THEN v ELSE disk[c]]
      /\ IF o = "ok"
         THEN /\ latest' = [c \in Cached |-> IF c \in R THEN v ELSE latest[c]]
              /\ UNCHANGED told
         ELSE told' = told \cup R /\ UNCHANGED latest
  BY <1>1 DEF TransferDone
<1>3. Linked' = Linked
  BY <1>2, RingSame
<1>4. \A c \in Blk : c \notin R => disk'[c] = disk[c]
  <2>1. cnt \in Nat
    BY <1>1 DEF Inv, CallInv
  <2>2. PICK m \in (IF o = "ok" THEN {cnt} ELSE 0..cnt) :
           disk' = [c \in Blk |-> IF c \in Run(blk, m) THEN v ELSE disk[c]]
    BY <1>2
  <2>3. m \in 0..cnt
    BY <2>1, <2>2
  <2>4. Run(blk, m) \subseteq R
    <3>1. 0..m-1 \subseteq 0..cnt-1
      BY <2>1, <2>3
    <3> QED
      BY <3>1 DEF Run
  <2> HIDE DEF R
  <2> QED
    BY <2>2, <2>4
<1>5. o = "ok" => \A c \in R : disk'[c] = v /\ latest'[c] = v
  <2>1. \A c \in R : c \in Blk /\ c \in Cached
    BY <1>1, Blocks
  <2> QED
    BY <2>1, <1>2
<1>6. told \subseteq told' /\ (o # "ok" => R \subseteq told') /\ \A c \in Cached : c \notin R => latest'[c] = latest[c]
  BY <1>2
<1> HIDE DEF R
<1>7. Coherent'
  <2> SUFFICES ASSUME NEW c \in Cached, c \notin told'
               PROVE  /\ \A b \in Linked : valid(b, c) => b_data[b] = latest'[c]
                      /\ (\A b \in Linked : valid(b, c) => ~ dirty(b)) => disk'[c] = latest'[c]
    BY <1>2, <1>3 DEF Coherent, valid, dirty
  <2>1. CASE c \in R
    BY <2>1, <1>1, <1>5, <1>6
  <2>2. CASE c \notin R
    <3>1. /\ \A b \in Linked : valid(b, c) => b_data[b] = latest[c]
          /\ (\A b \in Linked : valid(b, c) => ~ dirty(b)) => disk[c] = latest[c]
      BY <2>2, <1>6 DEF CalmInv, Coherent, R
    <3> QED
      BY <2>2, <3>1, <1>4, <1>6, Blocks
  <2> QED
    BY <2>1, <2>2
<1>8. FatMirrored'
  <2> SUFFICES ASSUME NEW c \in FatBlk, c \notin told', \A b \in Linked : valid(b, c) => ~ dirty(b)
               PROVE  disk'[Mirror(c)] = disk'[c]
    BY <1>2, <1>3 DEF FatMirrored, valid, dirty
  <2>1. c \notin R /\ Mirror(c) \notin R /\ c \in Blk /\ Mirror(c) \in Blk
    BY <1>1, Mirrors, Blocks
  <2>2. disk[Mirror(c)] = disk[c]
    BY <1>6 DEF CalmInv, FatMirrored
  <2> QED
    BY <2>1, <2>2, <1>4
<1>9. FlagInv'
  BY <1>2 DEF CalmInv, FlagInv, dirty
<1>10. ProgressInv'
  BY <1>1 DEF ProgressInv
<1> QED
  BY <1>7, <1>8, <1>9, <1>10 DEF CalmInv

LEMMA MediaUnsureCalm ==
  ASSUME Inv, CalmInv, NEW u, MediaUnsure(u)
  PROVE  CalmInv'
<1>1. /\ pc = "idle" /\ pc' = "idle" /\ b_flag' = setinvld(b_flag, u) /\ ~ dirty_buffers(u)
      /\ UNCHANGED <<ring, b_blk, b_data, disk, latest, told>>
  BY DEF MediaUnsure, call
<1>2. Linked' = Linked /\ Linked \subseteq Buf
  BY <1>1, RingSame, RingFacts DEF Inv
<1>3. \A b \in Buf : b_flag'[b] = {} \/ b_flag'[b] = b_flag[b]
  BY <1>1 DEF setinvld
<1>4. \A b \in Linked : dirty(b) => dirty(b)'
  BY <1>1, <1>2 DEF setinvld, dirty_buffers, dirty
<1>5. \A b \in Linked : "VALID" \in b_flag'[b] => "VALID" \in b_flag[b]
  BY <1>2, <1>3
<1>6. Coherent' /\ FatMirrored'
  BY <1>1, <1>2, <1>4, <1>5, CohClean DEF Inv, CalmInv
<1>7. FlagInv'
  BY <1>1, <1>3, FlagLess DEF CalmInv, dirty
<1>8. ProgressInv'
  BY <1>1 DEF ProgressInv
<1> QED
  BY <1>6, <1>7, <1>8 DEF CalmInv

LEMMA MediaChangedCalm ==
  ASSUME Inv, CalmInv, NEW u, NEW v \in Vals, MediaChanged(u, v)
  PROVE  CalmInv'
<1>1. /\ pc = "idle" /\ pc' = "idle" /\ b_flag' = setinvld(b_flag, u)
      /\ disk' = [c \in Blk |-> IF c[1] = u THEN v ELSE disk[c]]
      /\ latest' = [c \in Cached |-> IF c[1] = u THEN v ELSE latest[c]]
      /\ told' = {c \in told : c[1] # u}
      /\ UNCHANGED <<ring, b_blk, b_data>>
  BY DEF MediaChanged, call
<1>2. Linked' = Linked /\ Linked \subseteq Buf
  BY <1>1, RingSame, RingFacts DEF Inv
<1>3. \A b \in Buf : b_flag'[b] = {} \/ b_flag'[b] = b_flag[b]
  BY <1>1 DEF setinvld
<1>4. \A b \in Linked : \A c : c[1] = u => ~valid(b, c)'
  BY <1>1, <1>2 DEF setinvld, valid
<1>5. \A b \in Linked : \A c : c[1] # u => (valid(b, c)' <=> valid(b, c)) /\ (valid(b, c) => (dirty(b)' <=> dirty(b)))
  BY <1>1, <1>2 DEF setinvld, valid, dirty
<1>6. Coherent'
  <2> SUFFICES ASSUME NEW c \in Cached, c \notin told'
               PROVE  /\ \A b \in Linked : valid(b, c)' => b_data[b] = latest'[c]
                      /\ (\A b \in Linked : valid(b, c)' => ~ dirty(b)') => disk'[c] = latest'[c]
    BY <1>1, <1>2 DEF Coherent
  <2>1. CASE c[1] = u
    BY <2>1, <1>1, <1>4, Blocks
  <2>2. CASE c[1] # u
    <3>1. /\ \A b \in Linked : valid(b, c) => b_data[b] = latest[c]
          /\ (\A b \in Linked : valid(b, c) => ~ dirty(b)) => disk[c] = latest[c]
      BY <2>2, <1>1 DEF CalmInv, Coherent
    <3>2. disk'[c] = disk[c] /\ latest'[c] = latest[c]
      BY <2>2, <1>1, Blocks
    <3> QED
      BY <2>2, <3>1, <3>2, <1>5
  <2> QED
    BY <2>1, <2>2
<1>7. FatMirrored'
  <2> SUFFICES ASSUME NEW c \in FatBlk, c \notin told', \A b \in Linked : valid(b, c)' => ~ dirty(b)'
               PROVE  disk'[Mirror(c)] = disk'[c]
    BY <1>1, <1>2 DEF FatMirrored
  <2>1. c \in Blk /\ Mirror(c) \in Blk /\ Mirror(c)[1] = c[1]
    BY Mirrors, Blocks
  <2>2. CASE c[1] = u
    BY <2>1, <2>2, <1>1
  <2>3. CASE c[1] # u
    <3>1. disk[Mirror(c)] = disk[c]
      BY <2>3, <1>1, <1>5 DEF CalmInv, FatMirrored
    <3> QED
      BY <2>1, <2>3, <3>1, <1>1
  <2> QED
    BY <2>2, <2>3
<1>8. FlagInv'
  BY <1>1, <1>3, FlagLess DEF CalmInv, dirty
<1>9. ProgressInv'
  BY <1>1 DEF ProgressInv
<1> QED
  BY <1>6, <1>7, <1>8, <1>9 DEF CalmInv

LEMMA InitCalm == Init => CalmInv
<1> SUFFICES ASSUME Init PROVE CalmInv
  OBVIOUS
<1>1. Linked \subseteq Buf
  BY InitInv, RingFacts DEF Inv
<1>2. /\ b_flag = [b \in Buf |-> {}] /\ pc = "idle"
      /\ \E v \in Vals : disk = [c \in Blk |-> v] /\ latest = [c \in Cached |-> v]
  BY DEF Init
<1>3. FlagInv /\ ProgressInv
  BY <1>2 DEF FlagInv, ProgressInv, dirty
<1>4. Coherent
  BY <1>1, <1>2, Blocks DEF Coherent, valid, dirty
<1>5. FatMirrored
  BY <1>1, <1>2, Blocks, Mirrors DEF FatMirrored
<1> QED
  BY <1>3, <1>4, <1>5 DEF CalmInv

LEMMA NextCalm == Calm => (Inv /\ Inv' /\ CalmInv /\ [Next]_vars => CalmInv')
<1> SUFFICES ASSUME Calm, Inv, Inv', CalmInv, [Next]_vars PROVE CalmInv'
  OBVIOUS
<1>0. CASE UNCHANGED vars
  <2>1. UNCHANGED <<firstbuf, nbuffers, b_next, b_prev, b_flag, b_blk, b_data, disk, pc, op, blk, cnt, bp, copies, ok, latest, told>>
    BY <1>0 DEF vars, ring, call
  <2>2. Linked' = Linked /\ Pos' = Pos /\ Chain' = Chain
    BY <2>1, RingSame DEF ring
  <2>3. FlagInv'
    BY <2>1 DEF CalmInv, FlagInv, dirty
  <2>4. Coherent' /\ FatMirrored'
    BY <2>1, <2>2 DEF CalmInv, Coherent, FatMirrored, valid, dirty
  <2>5. ProgressInv'
    BY <2>1, <2>2 DEF CalmInv, ProgressInv, valid, dirty, Due
  <2> QED
    BY <2>3, <2>4, <2>5 DEF CalmInv
<1>1. ASSUME NEW c, NEW o \in GetOps, Begin(o, c) PROVE CalmInv'
  <2>1. /\ searchblock(c) /\ op' \in GetOps /\ pc \in {"idle", "fat"}
        /\ UNCHANGED <<b_blk, b_data, disk, latest, told>>
    BY <1>1 DEF Begin
  <2> QED
    BY <2>1, SearchCalm
<1>2. CASE Straddle
  <2>1. PICK c : /\ searchblock(c) /\ op' = op /\ pc = "fat"
                 /\ UNCHANGED <<b_blk, b_data, disk, latest, told>>
    BY <1>2 DEF Straddle
  <2>2. op' \in GetOps
    BY <2>1 DEF Inv, CallInv, GetOps
  <2> QED
    BY <2>1, <2>2, SearchCalm
<1>3. ASSUME NEW o \in WriteOutcomes, FlushCopy(o) PROVE CalmInv'
  BY <1>3, FlushCopyCalm
<1>4. CASE GetblkFlushed
  BY <1>4, GetblkFlushedCalm
<1>5. ASSUME NEW o \in ReadOutcomes, GetblkRead(o) PROVE CalmInv'
  BY <1>5, GetblkReadCalm DEF Calm
<1>6. ASSUME NEW v \in Vals, NEW more \in Soon, Overwrite(v, more) \/ UseWrite(v, more) PROVE CalmInv'
  BY <1>6, OverwriteCalm, UseWriteCalm
<1>7. ASSUME NEW more \in Soon, UseRead(more) PROVE CalmInv'
  BY <1>7, UseReadCalm
<1>8. ASSUME NEW v \in Vals, UseDir(v) \/ UseFat(v) PROVE CalmInv'
  BY <1>8, UseDirCalm, UseFatCalm
<1>9. CASE getFATblock
  BY <1>9, getFATblockCalm
<1>10. CASE WalkVisit
  <2>1. /\ UNCHANGED <<ring, b_flag, b_blk, b_data, disk, latest, told>>
        /\ pc' = "flush1" /\ pc = "walk" /\ copies' = 0 /\ ok' = TRUE /\ UNCHANGED <<op, blk, cnt, bp>>
    BY <1>10 DEF WalkVisit
  <2> QED
    BY <2>1, SameCalm
<1>11. CASE WalkSkip \/ WalkFlushed
  BY <1>11, WalkSkipCalm, WalkFlushedCalm
<1>12. ASSUME NEW o, NEW c, NEW n, Walks(o, c, n) PROVE CalmInv'
  <2>1. /\ UNCHANGED <<ring, b_flag, b_blk, b_data, disk, latest, told>>
        /\ pc = "idle" /\ pc' = "walk" /\ bp' = firstbuf
    BY <1>12 DEF Walks, WalkFrom
  <2> QED
    BY <2>1, SameCalm
<1>13. CASE DirectReadDone
  <2>1. /\ UNCHANGED <<ring, b_flag, b_blk, b_data, disk, latest, told>>
        /\ pc = "dread" /\ pc' = "idle"
    BY <1>13 DEF DirectReadDone, End
  <2> QED
    BY <2>1, SameCalm
<1>14. ASSUME NEW c, NEW n, Run(c, n) \subseteq DataBlk, DirectWrite(c, n) PROVE CalmInv'
  BY <1>14, DirectWriteCalm
<1>15. ASSUME NEW n \in AbsCounts PROVE CalmInv'
  BY <1>15 DEF Calm
<1>16. ASSUME NEW v \in Vals, NEW o, TransferDone(v, o) PROVE CalmInv'
  BY <1>16, TransferDoneCalm
<1>17. ASSUME NEW c, NEW v, NEW o, ExtWrite(c, v, o) PROVE CalmInv'
  BY <1>17 DEF Calm, ExtWrite
<1>18. ASSUME NEW u, MediaUnsure(u) PROVE CalmInv'
  BY <1>18, MediaUnsureCalm
<1>19. ASSUME NEW u, NEW v \in Vals, MediaChanged(u, v) PROVE CalmInv'
  BY <1>19, MediaChangedCalm
<1>20. {"read", "write", "over", "dir"} \subseteq GetOps /\ {"fat", "link"} \subseteq GetOps
  BY DEF GetOps
<1> QED
  BY <1>0, <1>1, <1>2, <1>3, <1>4, <1>5, <1>6, <1>7, <1>8, <1>9, <1>10, <1>11, <1>12, <1>13,
     <1>14, <1>15, <1>16, <1>17, <1>18, <1>19, <1>20
     DEF Next, FlushUnit, Rebuild, Flush, AllocateHMASpace, DirectRead

LEMMA CalmHolds == Calm => (Spec => [](Inv /\ CalmInv))
<1> SUFFICES ASSUME Calm PROVE Spec => [](Inv /\ CalmInv)
  OBVIOUS
<1>1. Init => Inv /\ CalmInv
  BY InitInv, InitCalm
<1>2. Inv /\ CalmInv /\ [Next]_vars => Inv' /\ CalmInv'
  BY NextInv, NextCalm
<1> QED
  BY <1>1, <1>2, PTL DEF Spec

-----------------------------------------------------------------------------
(* What holds while no read fails for good and no program writes the disk  *)
(* past the file system: writes may fail in every way, at any moment.      *)

\* Nothing written is lost and nothing stale is handed out: getblk, flush1, the
\* loops that flush and forget buffers, direct transfers, disk changes and the
\* sale of HMA keep every block's last content, in its buffer or on the disk,
\* unless the user was told of an error.
THEOREM CoherentHolds == Calm => (Spec => []Coherent)
<1> SUFFICES ASSUME Calm PROVE Spec => []Coherent
  OBVIOUS
<1>1. Spec => [](Inv /\ CalmInv)
  BY CalmHolds
<1>2. Inv /\ CalmInv => Coherent
  BY DEF CalmInv
<1> QED
  BY <1>1, <1>2, PTL

\* What DeleteBlockInBufferCache leaves for a direct read by rwblock is what
\* was last written, for a run of blocks of any length.
THEOREM DirectReadHolds == Calm => (Spec => []DirectReadsLatest)
<1> SUFFICES ASSUME Calm PROVE Spec => []DirectReadsLatest
  OBVIOUS
<1>1. Spec => [](Inv /\ CalmInv)
  BY CalmHolds
<1>2. Inv /\ CalmInv => DirectReadsLatest
  <2> SUFFICES ASSUME Inv, CalmInv, pc = "dread", NEW c \in Run(blk, cnt), c \notin told
               PROVE  disk[c] = latest[c]
    BY DEF DirectReadsLatest
  <2>1. op = "dread" /\ c \in Cached
    BY Blocks DEF Inv, CallInv
  <2>2. \A b \in Linked : valid(b, c) => ~dirty(b)
    BY <2>1 DEF CalmInv, ProgressInv, Due, valid
  <2> QED
    BY <2>1, <2>2 DEF CalmInv, Coherent
<1> QED
  BY <1>1, <1>2, PTL

\* flush1's loop over the copies keeps the second FAT the same as the first
\* wherever no buffer still waits to be written.
THEOREM MirrorHolds == Calm => (Spec => []FatMirrored)
<1> SUFFICES ASSUME Calm PROVE Spec => []FatMirrored
  OBVIOUS
<1>1. Spec => [](Inv /\ CalmInv)
  BY CalmHolds
<1>2. Inv /\ CalmInv => FatMirrored
  BY DEF CalmInv
<1> QED
  BY <1>1, <1>2, PTL

\* getblk's "requested block with data" is right while no read fails for good:
\* the buffer is the block's, with what was last written.  A failed read is
\* what breaks it (run buf_read_error).
THEOREM ReturnsHolds == Calm => (Spec => []ReturnsBlock)
<1> SUFFICES ASSUME Calm PROVE Spec => []ReturnsBlock
  OBVIOUS
<1>1. Spec => [](Inv /\ CalmInv)
  BY CalmHolds
<1>2. Inv /\ CalmInv => ReturnsBlock
  <2> SUFFICES ASSUME Inv, CalmInv, pc = "have", op # "over", blk \notin told
               PROVE  b_blk[bp] = blk /\ b_data[bp] = latest[blk]
    BY DEF ReturnsBlock
  <2>1. valid(bp, blk) /\ bp \in Linked /\ blk \in Cached
    BY GetBlk DEF Inv, CallInv, GetInv
  <2> QED
    BY <2>1 DEF CalmInv, Coherent, valid
<1> QED
  BY <1>1, <1>2, PTL
=============================================================================
