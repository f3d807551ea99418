---------------------------- MODULE FatFsFacts -----------------------------
(***************************************************************************)
(* What the calls of FatFs do to a sound volume, for every number of       *)
(* clusters, entries, files and names: chains as sequences, where growing, *)
(* cutting and walking them lead, and what making, renaming and deleting   *)
(* entries leaves as it was.                                               *)
(***************************************************************************)
EXTENDS FatFs, TableFacts

-----------------------------------------------------------------------------
(* Chains.                                                                 *)

FatOf == [Clusters -> Clusters \cup {FREE, LAST}]

\* Taking the clusters one after another from s on.
IsTrail(fat, s, c) ==
  c = [i \in 0..MaxCluster |->
         IF i = 0 THEN s ELSE IF c[i-1] \in Clusters THEN fat[c[i-1]] ELSE FREE]
Trail(fat, s) == CHOOSE c : IsTrail(fat, s, c)

LEMMA Sizes ==
  /\ MaxCluster \in Nat \ {0} /\ ClusterSize \in Nat \ {0} /\ DirEnts \in Nat \ {0}
  /\ RootEnts \in Nat /\ NSft \in Nat /\ MaxSize \in Nat
  BY FatFsAssumption DEF FatFsAssumption

\* Numbers that stand for something else are no clusters.
LEMMA Numbers ==
  /\ FREE \notin Clusters /\ LAST \notin Clusters /\ FREE # LAST /\ UNKNOWN \notin Clusters
  /\ Clusters \subseteq Nat /\ FREE \in Nat /\ LAST \in Nat
  BY Sizes DEF Clusters, FREE, LAST, UNKNOWN

LEMMA TrailExists ==
  ASSUME NEW fat, NEW s
  PROVE  \E c : IsTrail(fat, s, c)
<1> DEFINE Step(c, i) == IF i = 0 THEN s ELSE IF c[i-1] \in Clusters THEN fat[c[i-1]] ELSE FREE
           Some(n) == \E c : c = [i \in 0..n |-> Step(c, i)]
           Odd == {n \in Nat : ~Some(n)}
<1>1. ASSUME Odd # {} PROVE FALSE
  <2>0. Odd \subseteq Nat
    BY Zenon
  <2>1. PICK n \in Odd : \A m \in Odd : n =< m
    <3> HIDE DEF Odd
    <3> QED
      BY <1>1, <2>0, Least
  <2>2. n # 0
    <3> DEFINE c == [i \in 0..0 |-> s]
    <3>1. c = [i \in 0..0 |-> Step(c, i)]
      OBVIOUS
    <3>2. Some(0)
      BY <3>1
    <3> QED
      BY <3>2
  <2>3. n - 1 \in Nat /\ Some(n - 1)
    <3>1. n - 1 \in Nat /\ ~(n =< n - 1)
      BY <2>1, <2>2
    <3> QED
      BY <2>1, <3>1
  <2>4. PICK c : c = [i \in 0..n-1 |-> Step(c, i)]
    BY <2>3
  <2> DEFINE g == [i \in 0..n |-> Step(c, i)]
  <2>5. \A i \in 0..n-1 : g[i] = c[i]
    BY <2>3, <2>4
  <2>6. ASSUME NEW i \in 0..n, i # 0 PROVE g[i-1] = c[i-1]
    <3>1. i - 1 \in 0..n-1
      BY <2>3, <2>6
    <3> QED
      BY <2>5, <3>1
  <2>7. g = [i \in 0..n |-> Step(g, i)]
    BY <2>6
  <2>8. Some(n)
    BY <2>7
  <2> QED
    BY <2>1, <2>8
<1>2. Some(MaxCluster)
  BY <1>1, Sizes
<1> QED
  BY <1>2 DEF IsTrail

LEMMA TrailIs ==
  ASSUME NEW fat, NEW s
  PROVE  /\ Trail(fat, s)[0] = s
         /\ \A i \in 1..MaxCluster :
              Trail(fat, s)[i] = IF Trail(fat, s)[i-1] \in Clusters THEN fat[Trail(fat, s)[i-1]] ELSE FREE
<1> DEFINE c == Trail(fat, s)
<1>1. IsTrail(fat, s, c)
  BY TrailExists, Zenon DEF Trail
<1> HIDE DEF c
<1>2. c = [i \in 0..MaxCluster |->
             IF i = 0 THEN s ELSE IF c[i-1] \in Clusters THEN fat[c[i-1]] ELSE FREE]
  BY <1>1 DEF IsTrail
<1>3. c[0] = s
  BY <1>2, Sizes
<1>4. ASSUME NEW i \in 1..MaxCluster
      PROVE  c[i] = IF c[i-1] \in Clusters THEN fat[c[i-1]] ELSE FREE
  <2>1. i \in 0..MaxCluster /\ i # 0
    BY Sizes
  <2> QED
    BY <1>2, <2>1
<1> QED
  BY <1>3, <1>4 DEF c

LEMMA ChainTrail ==
  ASSUME NEW fat, NEW s
  PROVE  Chain(fat, s) =
           [i \in 1..Cardinality({j \in 0..MaxCluster : Trail(fat, s)[j] \in Clusters}) |-> Trail(fat, s)[i-1]]
  BY Zenon DEF Chain, Trail, IsTrail
\* The clusters come first, what is no cluster after them.
LEMMA TrailSegment ==
  ASSUME NEW fat, NEW s
  PROVE  \E n \in 0..MaxCluster+1 : {j \in 0..MaxCluster : Trail(fat, s)[j] \in Clusters} = 0..n-1
<1> DEFINE W == Trail(fat, s)
           Off == {j \in 0..MaxCluster : W[j] \notin Clusters}
<1>1. \A i \in 1..MaxCluster : W[i] = IF W[i-1] \in Clusters THEN fat[W[i-1]] ELSE FREE
  BY TrailIs
<1>2. MaxCluster \in Nat /\ FREE \notin Clusters
  BY Sizes, Numbers
<1> HIDE DEF W
<1>3. CASE Off = {}
  <2>1. {j \in 0..MaxCluster : W[j] \in Clusters} = 0..(MaxCluster+1)-1
    BY <1>2, <1>3
  <2>2. MaxCluster + 1 \in 0..MaxCluster+1
    BY <1>2
  <2> QED
    BY <2>1, <2>2 DEF W
<1>4. CASE Off # {}
  <2>1. Off \subseteq Nat
    BY <1>2
  <2>2. PICK n \in Off : \A m \in Off : n =< m
    BY <1>4, <2>1, Least
  <2> DEFINE Back2 == {j \in n..MaxCluster : W[j] \in Clusters}
  <2>3. n \in 0..MaxCluster /\ W[n] \notin Clusters
    BY <2>2
  <2>4. ASSUME Back2 # {} PROVE FALSE
    <3>1. Back2 \subseteq Nat
      BY <2>3
    <3>2. PICK k \in Back2 : \A m \in Back2 : k =< m
      BY <2>4, <3>1, Least
    <3>3. k \in n..MaxCluster /\ k # n /\ W[k] \in Clusters
      BY <3>2, <2>3
    <3>4. k - 1 \in n..MaxCluster /\ ~(k =< k - 1) /\ k \in 1..MaxCluster
      BY <3>3, <2>3, <1>2
    <3>5. W[k-1] \notin Clusters
      BY <3>4, <3>2
    <3>6. W[k] = FREE
      BY <3>4, <3>5, <1>1
    <3> QED
      BY <3>6, <3>3, <1>2
  <2>5. \A j \in 0..MaxCluster : W[j] \in Clusters <=> j \in 0..n-1
    <3> SUFFICES ASSUME NEW j \in 0..MaxCluster PROVE W[j] \in Clusters <=> j \in 0..n-1
      OBVIOUS
    <3>1. CASE j < n
      <4>1. j \notin Off
        BY <3>1, <2>2, <2>3
      <4> QED
        BY <4>1, <3>1, <2>3
    <3>2. CASE j >= n
      <4>1. j \in n..MaxCluster
        BY <3>2, <2>3
      <4>2. j \notin Back2
        BY <2>4
      <4> QED
        BY <4>1, <4>2, <2>3
    <3> QED
      BY <3>1, <3>2, <2>3
  <2>6. {j \in 0..MaxCluster : W[j] \in Clusters} = 0..n-1
    <3>1. \A j \in 0..n-1 : j \in 0..MaxCluster
      BY <2>3, <1>2
    <3> QED
      BY <2>5, <3>1
  <2>7. n \in 0..MaxCluster+1
    BY <2>3, <1>2
  <2> QED
    BY <2>6, <2>7 DEF W
<1> QED
  BY <1>3, <1>4

\* What any chain is, whatever is in the FAT.
LEMMA ChainShape ==
  ASSUME NEW fat, NEW s
  PROVE  \E n \in 0..MaxCluster+1 :
           /\ Chain(fat, s) \in [1..n -> Clusters]
           /\ n = 0 <=> s \notin Clusters
           /\ n > 0 => Chain(fat, s)[1] = s
           /\ \A j \in 1..n-1 : fat[Chain(fat, s)[j]] = Chain(fat, s)[j+1]
           /\ n \in 1..MaxCluster => fat[Chain(fat, s)[n]] \notin Clusters
<1> DEFINE W == Trail(fat, s)
           c == Chain(fat, s)
           S == {j \in 0..MaxCluster : W[j] \in Clusters}
<1>1. W[0] = s /\ \A i \in 1..MaxCluster : W[i] = IF W[i-1] \in Clusters THEN fat[W[i-1]] ELSE FREE
  BY TrailIs
<1>2. PICK n \in 0..MaxCluster+1 : S = 0..n-1
  BY TrailSegment
<1>3. c = [i \in 1..Cardinality(S) |-> W[i-1]]
  BY ChainTrail
<1>4. MaxCluster \in Nat
  BY Sizes
<1>5. Cardinality(S) = n
  <2>1. Cardinality(0..n-1) = IF 0 > n - 1 THEN 0 ELSE n - 1 - 0 + 1
    BY <1>2, <1>4, FS_Interval
  <2>2. Cardinality(S) = Cardinality(0..n-1)
    BY <1>2, Zenon
  <2> HIDE DEF S
  <2> QED
    BY <2>1, <2>2, <1>4
<1>6. c = [i \in 1..n |-> W[i-1]]
  BY <1>3, <1>5, Zenon
<1>7. \A j \in 0..MaxCluster : W[j] \in Clusters <=> j \in 0..n-1
  BY <1>2
<1> HIDE DEF W, c, S
<1>8. c \in [1..n -> Clusters]
  BY <1>6, <1>7, <1>4
<1>9. n = 0 <=> s \notin Clusters
  BY <1>1, <1>7, <1>4
<1>10. n > 0 => c[1] = s
  BY <1>6, <1>1, <1>4
<1>11. \A j \in 1..n-1 : fat[c[j]] = c[j+1]
  <2> SUFFICES ASSUME NEW j \in 1..n-1 PROVE fat[c[j]] = c[j+1]
    OBVIOUS
  <2>1. j \in 1..MaxCluster /\ j \in 1..n /\ j + 1 \in 1..n /\ j - 1 \in 0..n-1 /\ j - 1 \in 0..MaxCluster
    BY <1>4
  <2>2. c[j] = W[j-1] /\ c[j+1] = W[(j+1)-1]
    BY <2>1, <1>6
  <2>3. (j+1)-1 = j
    OBVIOUS
  <2>4. W[j-1] \in Clusters
    BY <2>1, <1>7
  <2> QED
    BY <2>1, <2>2, <2>3, <2>4, <1>1
<1>12. ASSUME n \in 1..MaxCluster PROVE fat[c[n]] \notin Clusters
  <2>1. n \in 1..n /\ n - 1 \in 0..n-1 /\ n - 1 \in 0..MaxCluster /\ n \in 0..MaxCluster /\ n \notin 0..n-1
    BY <1>12, <1>4
  <2>2. c[n] = W[n-1] /\ W[n-1] \in Clusters /\ W[n] \notin Clusters
    BY <2>1, <1>6, <1>7
  <2>3. W[n] = fat[W[n-1]]
    BY <1>12, <1>1, <2>2
  <2> QED
    BY <2>2, <2>3
<1> QED
  BY <1>8, <1>9, <1>10, <1>11, <1>12 DEF c
\* Clusters q, n of them, from s to the end of their chain.
Runs(fat, s, q, n) ==
  /\ n \in Nat /\ q \in [1..n -> Clusters]
  /\ s = IF n = 0 THEN FREE ELSE q[1]
  /\ \A j \in 1..n-1 : fat[q[j]] = q[j+1]
  /\ n > 0 => fat[q[n]] = LAST

LEMMA ListFacts ==
  ASSUME NEW n \in Nat, NEW q \in [1..n -> Clusters]
  PROVE  /\ Len(q) = n /\ DOMAIN q = 1..n
         /\ n = 0 <=> q = <<>>
         /\ ToSet(q) = {q[j] : j \in 1..n}
         /\ Last(q) = q[n]
<1>1. q \in Seq(Clusters) /\ Len(q) = n /\ DOMAIN q = 1..n
  OBVIOUS
<1>2. n = 0 <=> q = <<>>
  BY <1>1
<1>3. Last(q) = q[n]
  BY <1>1 DEF Last
<1>4. ToSet(q) = {q[j] : j \in 1..n}
  BY <1>1 DEF ToSet
<1> QED
  BY <1>1, <1>2, <1>3, <1>4

\* A chain that ends meets no cluster twice.
LEMMA RunsOnce ==
  ASSUME NEW fat, NEW s, NEW q, NEW n, Runs(fat, s, q, n)
  PROVE  \A i, j \in 1..n : q[i] = q[j] => i = j
<1> USE DEF Runs
<1>0. LAST \notin Clusters
  BY Numbers
<1> DEFINE Odd == {d \in 0..n : \E i \in 1..n-d-1 : q[i] = q[n-d]}
<1>1. ASSUME Odd # {} PROVE FALSE
  <2>1. Odd \subseteq Nat
    OBVIOUS
  <2>2. PICK d \in Odd : \A y \in Odd : d =< y
    BY <1>1, <2>1, Least
  <2>3. PICK i \in 1..n-d-1 : q[i] = q[n-d]
    BY <2>2
  <2>4. d \in 0..n /\ i \in 1..n-1 /\ i + 1 \in 1..n /\ n - d \in 1..n
    BY <2>2, <2>3
  <2>5. fat[q[i]] = q[i+1] /\ q[i+1] \in Clusters
    BY <2>4
  <2>6. CASE d = 0
    BY <2>3, <2>4, <2>5, <2>6, <1>0
  <2>7. CASE d # 0
    <3>1. d - 1 \in 0..n /\ n - d \in 1..n-1 /\ (n - d) + 1 = n - (d-1) /\ i + 1 \in 1..n-(d-1)-1
          /\ ~(d =< d - 1)
      <4>1. n \in Nat /\ i \in 1..n-d-1
        BY <2>3
      <4> QED
        BY ONLY <4>1, <2>4, <2>7
    <3>2. fat[q[n-d]] = q[n-(d-1)]
      BY <3>1
    <3>3. q[i+1] = q[n-(d-1)]
      BY <3>2, <2>5, <2>3
    <3>4. d - 1 \in Odd
      BY <3>1, <3>3
    <3> QED
      BY <3>4, <2>2, <3>1
  <2> QED
    BY <2>6, <2>7
<1>2. ASSUME NEW i \in 1..n, NEW j \in 1..n, q[i] = q[j], i < j PROVE FALSE
  <2>1. n - j \in 0..n /\ n - (n - j) = j /\ i \in 1..n-(n-j)-1
    BY <1>2
  <2>2. n - j \in Odd
    BY <2>1, <1>2
  <2> QED
    BY <2>2, <1>1
<1> QED
  BY <1>2

\* Clusters all different are less than there are.
LEMMA Short ==
  ASSUME NEW n \in Nat, NEW q \in [1..n -> Clusters],
         \A i, j \in 1..n : q[i] = q[j] => i = j
  PROVE  n < MaxCluster
<1>1. q \in Injection(1..n, Clusters)
  BY DEF Injection, IsInjective
<1>2. IsFiniteSet(2..MaxCluster) /\ Cardinality(2..MaxCluster) = IF 2 > MaxCluster THEN 0 ELSE MaxCluster - 2 + 1
  BY FS_Interval, Sizes
<1>3. IsFiniteSet(Clusters) /\ Cardinality(Clusters) < MaxCluster /\ Cardinality(Clusters) \in Nat
  BY <1>2, Sizes DEF Clusters
<1>4. Cardinality(1..n) =< Cardinality(Clusters)
  BY <1>1, <1>3, FS_Injection
<1>5. Cardinality(1..n) = n
  <2>1. Cardinality(1..n) = IF 1 > n THEN 0 ELSE n - 1 + 1
    BY FS_Interval
  <2> QED
    BY <2>1
<1> QED
  BY <1>3, <1>4, <1>5, Sizes

LEMMA RunsShort ==
  ASSUME NEW fat, NEW s, NEW q, NEW n, Runs(fat, s, q, n)
  PROVE  n < MaxCluster
<1>1. n \in Nat /\ q \in [1..n -> Clusters]
  BY DEF Runs
<1> QED
  BY <1>1, RunsOnce, Short

LEMMA RunsChain ==
  ASSUME NEW fat, NEW s, NEW q, NEW n, Runs(fat, s, q, n)
  PROVE  Chain(fat, s) = q
<1> DEFINE c == Chain(fat, s)
<1>1. PICK m \in 0..MaxCluster+1 :
           /\ c \in [1..m -> Clusters]
           /\ m = 0 <=> s \notin Clusters
           /\ m > 0 => c[1] = s
           /\ \A j \in 1..m-1 : fat[c[j]] = c[j+1]
           /\ m \in 1..MaxCluster => fat[c[m]] \notin Clusters
  BY ChainShape
<1> HIDE DEF c
<1>2. n < MaxCluster /\ MaxCluster \in Nat
  BY RunsShort, Sizes
<1>3. /\ n \in Nat /\ q \in [1..n -> Clusters]
      /\ s = IF n = 0 THEN FREE ELSE q[1]
      /\ \A j \in 1..n-1 : fat[q[j]] = q[j+1]
      /\ n > 0 => fat[q[n]] = LAST
  BY DEF Runs
<1>4. FREE \notin Clusters /\ LAST \notin Clusters
  BY Numbers
<1> DEFINE Odd == {j \in 1..n : j =< m /\ c[j] # q[j]}
<1>5. ASSUME Odd # {} PROVE FALSE
  <2>1. Odd \subseteq Nat
    BY <1>3
  <2>2. PICK j \in Odd : \A y \in Odd : j =< y
    BY <1>5, <2>1, Least
  <2>3. j \in 1..n /\ j \in 1..m /\ c[j] # q[j]
    BY <2>2, <1>1, <1>3
  <2>4. j # 1
    BY <2>3, <1>1, <1>3
  <2>5. j - 1 \in 1..n-1 /\ j - 1 \in 1..m-1 /\ ~(j =< j-1) /\ (j-1)+1 = j /\ j - 1 \in 1..n /\ j-1 =< m
    BY <2>3, <2>4, <1>1, <1>3
  <2>6. c[j-1] = q[j-1]
    BY <2>2, <2>5
  <2>7. fat[c[j-1]] = c[(j-1)+1] /\ fat[q[j-1]] = q[(j-1)+1]
    BY <2>5, <1>1, <1>3
  <2> QED
    BY <2>7, <2>6, <2>5, <2>3
<1>6. \A j \in 1..n : j =< m => c[j] = q[j]
  BY <1>5
<1>7. ~(m < n)
  <2> SUFFICES ASSUME m < n PROVE FALSE
    OBVIOUS
  <2>1. m # 0
    BY <1>1, <1>3
  <2>2. m \in 1..MaxCluster /\ m \in 1..n-1 /\ m \in 1..n /\ m + 1 \in 1..n
    BY <2>1, <1>1, <1>2, <1>3
  <2>3. c[m] = q[m] /\ fat[q[m]] = q[m+1] /\ q[m+1] \in Clusters
    BY <2>2, <1>6, <1>3
  <2> QED
    BY <2>2, <2>3, <1>1
<1>8. ~(n < m)
  <2> SUFFICES ASSUME n < m PROVE FALSE
    OBVIOUS
  <2>1. n # 0
    BY <1>1, <1>3, <1>4
  <2>2. n \in 1..m-1 /\ n \in 1..n /\ n + 1 \in 1..m
    BY <2>1, <1>1, <1>3
  <2>3. c[n] = q[n] /\ fat[c[n]] = c[n+1] /\ c[n+1] \in Clusters
    BY <2>2, <1>6, <1>1
  <2> QED
    BY <2>3, <2>1, <1>3, <1>4
<1>9. m = n
  BY <1>7, <1>8, <1>1, <1>3
<1>10. c \in [1..n -> Clusters] /\ \A j \in 1..n : c[j] = q[j]
  BY <1>9, <1>1, <1>6, <1>3
<1> QED
  BY <1>10, <1>3 DEF c

LEMMA RunsWhole ==
  ASSUME NEW fat, NEW s, NEW q, NEW n, Runs(fat, s, q, n)
  PROVE  Whole(fat, s) /\ Len(Chain(fat, s)) = n /\ ToSet(Chain(fat, s)) = {q[j] : j \in 1..n}
<1>1. Chain(fat, s) = q
  BY RunsChain
<1>2. n \in Nat /\ q \in [1..n -> Clusters] /\ (n = 0 => s = FREE) /\ (n > 0 => fat[q[n]] = LAST)
  BY DEF Runs
<1>3. ToSet(q) = {q[j] : j \in 1..n}
  <2>1. n \in Nat /\ q \in [1..n -> Clusters]
    BY <1>2
  <2> QED
    BY <2>1, ListFacts, Zenon
<1>5. Len(q) = n /\ Last(q) = q[n] /\ (n = 0 <=> q = <<>>)
  BY <1>2, ListFacts
<1>4. Whole(fat, s)
  BY <1>1, <1>2, <1>5 DEF Whole
<1> QED
  BY <1>1, <1>3, <1>4, <1>5

LEMMA WholeRuns ==
  ASSUME NEW fat, NEW s, s \in Clusters \cup {FREE}, Whole(fat, s)
  PROVE  Runs(fat, s, Chain(fat, s), Len(Chain(fat, s)))
<1> DEFINE c == Chain(fat, s)
<1>1. PICK m \in 0..MaxCluster+1 :
           /\ c \in [1..m -> Clusters]
           /\ m = 0 <=> s \notin Clusters
           /\ m > 0 => c[1] = s
           /\ \A j \in 1..m-1 : fat[c[j]] = c[j+1]
           /\ m \in 1..MaxCluster => fat[c[m]] \notin Clusters
  BY ChainShape
<1>2. s # FREE => c # <<>> /\ fat[Last(c)] = LAST
  BY DEF Whole
<1> HIDE DEF c
<1>3. m \in Nat
  BY <1>1, Sizes
<1>4. Len(c) = m /\ Last(c) = c[m] /\ (m = 0 <=> c = <<>>)
  BY <1>1, <1>3, ListFacts
<1>5. FREE \notin Clusters
  BY Numbers
<1>6. Runs(fat, s, c, m)
  BY <1>1, <1>2, <1>3, <1>4, <1>5 DEF Runs
<1> QED
  BY <1>6, <1>4 DEF c
\* What is known of a chain that ends.
LEMMA ChainFacts ==
  ASSUME NEW fat, NEW s \in Clusters \cup {FREE}, Whole(fat, s)
  PROVE  /\ Len(Chain(fat, s)) \in Nat /\ Len(Chain(fat, s)) < MaxCluster
         /\ Chain(fat, s) \in [1..Len(Chain(fat, s)) -> Clusters]
         /\ s = IF Len(Chain(fat, s)) = 0 THEN FREE ELSE Chain(fat, s)[1]
         /\ \A j \in 1..Len(Chain(fat, s))-1 : fat[Chain(fat, s)[j]] = Chain(fat, s)[j+1]
         /\ Len(Chain(fat, s)) > 0 => fat[Chain(fat, s)[Len(Chain(fat, s))]] = LAST
         /\ \A i, j \in 1..Len(Chain(fat, s)) : Chain(fat, s)[i] = Chain(fat, s)[j] => i = j
         /\ ToSet(Chain(fat, s)) = {Chain(fat, s)[j] : j \in 1..Len(Chain(fat, s))}
         /\ Len(Chain(fat, s)) = 0 <=> Chain(fat, s) = <<>>
         /\ \A x \in ToSet(Chain(fat, s)) : x \in Clusters /\ fat[x] # FREE
<1> DEFINE c == Chain(fat, s)
           n == Len(c)
<1>1. Runs(fat, s, c, n)
  BY WholeRuns
<1> HIDE DEF c, n
<1>2. n < MaxCluster /\ \A i, j \in 1..n : c[i] = c[j] => i = j
  BY <1>1, RunsShort, RunsOnce
<1>3. ToSet(c) = {c[j] : j \in 1..n}
  BY <1>1, RunsWhole DEF c
<1>4. /\ n \in Nat /\ c \in [1..n -> Clusters]
      /\ s = IF n = 0 THEN FREE ELSE c[1]
      /\ \A j \in 1..n-1 : fat[c[j]] = c[j+1]
      /\ n > 0 => fat[c[n]] = LAST
  BY <1>1 DEF Runs
<1>5. n = 0 <=> c = <<>>
  BY <1>4, ListFacts
<1>6. ASSUME NEW j \in 1..n PROVE c[j] \in Clusters /\ fat[c[j]] # FREE
  <2>1. CASE j = n
    BY <2>1, <1>4, Numbers
  <2>2. CASE j # n
    <3>1. j \in 1..n-1 /\ j + 1 \in 1..n
      BY <2>2, <1>4
    <3>2. fat[c[j]] = c[j+1] /\ c[j+1] \in Clusters /\ c[j] \in Clusters
      BY <3>1, <1>4
    <3> QED
      BY <3>2, Numbers
  <2> QED
    BY <2>1, <2>2
<1>7. \A x \in ToSet(c) : x \in Clusters /\ fat[x] # FREE
  BY <1>3, <1>6
<1> QED
  BY <1>2, <1>3, <1>4, <1>5, <1>7 DEF c, n

\* A chain is what it was while its entries are.
LEMMA ChainKept ==
  ASSUME NEW fat, NEW fat2, NEW s \in Clusters \cup {FREE}, Whole(fat, s),
         \A x \in ToSet(Chain(fat, s)) : fat2[x] = fat[x]
  PROVE  Chain(fat2, s) = Chain(fat, s) /\ Whole(fat2, s)
<1> DEFINE c == Chain(fat, s)
           n == Len(c)
<1>1. /\ n \in Nat /\ c \in [1..n -> Clusters]
      /\ s = IF n = 0 THEN FREE ELSE c[1]
      /\ \A j \in 1..n-1 : fat[c[j]] = c[j+1]
      /\ n > 0 => fat[c[n]] = LAST
      /\ ToSet(c) = {c[j] : j \in 1..n}
  BY ChainFacts
<1>2. \A x \in ToSet(c) : fat2[x] = fat[x]
  OBVIOUS
<1> HIDE DEF c, n
<1>3. \A j \in 1..n : fat2[c[j]] = fat[c[j]]
  BY <1>1, <1>2
<1>4. Runs(fat2, s, c, n)
  BY <1>1, <1>3 DEF Runs
<1>5. Chain(fat2, s) = c /\ Whole(fat2, s)
  BY <1>4, RunsChain, RunsWhole
<1> QED
  BY <1>5 DEF c

\* There is no chain of a file without clusters.
LEMMA NoChain ==
  ASSUME NEW fat
  PROVE  Chain(fat, FREE) = <<>> /\ Whole(fat, FREE) /\ Room(fat, FREE) = 0 /\ ToSet(Chain(fat, FREE)) = {}
<1> DEFINE q == [j \in 1..0 |-> FREE]
<1>1. Runs(fat, FREE, q, 0)
  BY DEF Runs
<1>2. Whole(fat, FREE) /\ Len(Chain(fat, FREE)) = 0 /\ ToSet(Chain(fat, FREE)) = {q[j] : j \in 1..0}
  BY <1>1, RunsWhole
<1>3. FREE \in Clusters \cup {FREE}
  OBVIOUS
<1>4. Chain(fat, FREE) = <<>>
  BY <1>2, <1>3, ChainFacts
<1>5. Room(fat, FREE) = 0
  BY <1>2, Sizes DEF Room
<1>6. {q[j] : j \in 1..0} = {}
  OBVIOUS
<1> QED
  BY <1>2, <1>4, <1>5, <1>6

-----------------------------------------------------------------------------
(* The number of free clusters.                                            *)

VolOf == [fat : FatOf, hint : Clusters \cup {UNKNOWN}, nfree : 0..MaxCluster \cup {UNKNOWN}]
CountOK(v) == v.nfree # UNKNOWN => v.nfree = Cardinality(Free(v.fat))

LEMMA FreeFinite ==
  ASSUME NEW fat
  PROVE  /\ IsFiniteSet(Clusters) /\ IsFiniteSet(Free(fat))
         /\ Cardinality(Free(fat)) \in 0..MaxCluster
<1>1. IsFiniteSet(2..MaxCluster) /\ Cardinality(2..MaxCluster) = IF 2 > MaxCluster THEN 0 ELSE MaxCluster - 2 + 1
  BY FS_Interval, Sizes
<1>2. IsFiniteSet(Clusters) /\ Cardinality(Clusters) =< MaxCluster /\ Cardinality(Clusters) \in Nat
  BY <1>1, Sizes DEF Clusters
<1>3. Free(fat) \in SUBSET Clusters
  BY DEF Free
<1>4. IsFiniteSet(Free(fat)) /\ Cardinality(Free(fat)) =< Cardinality(Clusters)
  BY <1>2, <1>3, FS_Subset
<1>5. Cardinality(Free(fat)) \in Nat
  BY <1>4, FS_CardinalityType
<1> QED
  BY <1>2, <1>4, <1>5, Sizes

LEMMA LinkOK ==
  ASSUME NEW v \in VolOf, CountOK(v), NEW c \in Clusters, NEW x \in Clusters \cup {FREE, LAST}
  PROVE  /\ link_fat(v, c, x) \in VolOf /\ CountOK(link_fat(v, c, x))
         /\ link_fat(v, c, x).fat = [v.fat EXCEPT ![c] = x]
         /\ link_fat(v, c, x).hint = v.hint
<1> DEFINE w == link_fat(v, c, x)
           f == v.fat
           g == [f EXCEPT ![c] = x]
           A == Adjust(v, c, x)
<1>1. f \in FatOf /\ v.nfree \in 0..MaxCluster \cup {UNKNOWN} /\ v.hint \in Clusters \cup {UNKNOWN}
  BY DEF VolOf
<1>2. w.fat = g /\ w.hint = v.hint /\ w.nfree = v.nfree + A /\ w = [fat |-> g, hint |-> v.hint, nfree |-> v.nfree + A]
  <2>1. v = [fat |-> v.fat, hint |-> v.hint, nfree |-> v.nfree]
    BY DEF VolOf
  <2>2. link_fat(v, c, x) = [v EXCEPT !.fat[c] = x, !.nfree = @ + A]
    BY DEF link_fat
  <2> HIDE DEF A
  <2>3. w = [fat |-> g, hint |-> v.hint, nfree |-> v.nfree + A]
    BY <2>1, <2>2
  <2> QED
    BY <2>3
<1>3. g \in FatOf
  BY <1>1 DEF FatOf
<1>4. IsFiniteSet(Free(f)) /\ Cardinality(Free(f)) \in 0..MaxCluster /\ Cardinality(Free(g)) \in 0..MaxCluster
  BY FreeFinite
<1>5. UNKNOWN = -1 /\ MaxCluster \in Nat /\ FREE \notin Clusters
  BY Sizes, Numbers DEF UNKNOWN
<1>6. v.nfree # UNKNOWN => v.nfree = Cardinality(Free(f))
  BY DEF CountOK
<1>7. CASE v.nfree = UNKNOWN
  <2>1. A = 0
    BY <1>7 DEF Adjust
  <2>2. w.nfree = UNKNOWN
    BY <2>1, <1>2, <1>7, <1>5
  <2> QED
    BY <2>2, <1>1, <1>2, <1>3 DEF VolOf, CountOK
<1>8. CASE v.nfree # UNKNOWN
  <2>1. A = (IF x = FREE /\ f[c] # FREE THEN 1 ELSE 0) - (IF x # FREE /\ f[c] = FREE THEN 1 ELSE 0)
    BY <1>8 DEF Adjust
  <2>2. Cardinality(Free(g)) = Cardinality(Free(f)) + A
    <3>1. CASE x = FREE /\ f[c] # FREE
      <4>1. Free(g) = Free(f) \cup {c} /\ c \notin Free(f)
        BY <3>1, <1>1 DEF Free, FatOf
      <4>2. Cardinality(Free(f) \cup {c}) = Cardinality(Free(f)) + 1
        BY <4>1, <1>4, FS_AddElement
      <4>3. Cardinality(Free(g)) = Cardinality(Free(f)) + 1
        BY <4>1, <4>2, Zenon
      <4> QED
        BY <4>3, <2>1, <3>1
    <3>2. CASE x # FREE /\ f[c] = FREE
      <4>1. Free(g) = Free(f) \ {c} /\ c \in Free(f)
        BY <3>2, <1>1 DEF Free, FatOf
      <4>2. Cardinality(Free(f) \ {c}) = Cardinality(Free(f)) - 1
        BY <4>1, <1>4, FS_RemoveElement
      <4>3. Cardinality(Free(g)) = Cardinality(Free(f)) - 1
        BY <4>1, <4>2, Zenon
      <4> QED
        BY <4>3, <2>1, <3>2, <1>4
    <3>3. CASE (x = FREE <=> f[c] = FREE)
      <4>1. Free(g) = Free(f)
        BY <3>3, <1>1 DEF Free, FatOf
      <4>2. Cardinality(Free(g)) = Cardinality(Free(f))
        BY <4>1, Zenon
      <4> QED
        BY <4>2, <2>1, <3>3, <1>4
    <3> QED
      BY <3>1, <3>2, <3>3
  <2>3. w.nfree = Cardinality(Free(g))
    BY <2>2, <1>2, <1>6, <1>8
  <2>4. w.nfree \in 0..MaxCluster
    BY <2>3, <1>4
  <2>5. w \in VolOf
    BY <2>4, <1>1, <1>2, <1>3 DEF VolOf
  <2>6. CountOK(w)
    BY <2>3, <1>2 DEF CountOK
  <2> QED
    BY <2>5, <2>6, <1>2
<1> QED
  BY <1>7, <1>8

\* The cluster found is free, and taken after that.
LEMMA TakenOK ==
  ASSUME NEW v \in VolOf, CountOK(v)
  PROVE  /\ Taken(v) \in VolOf /\ CountOK(Taken(v))
         /\ find_fat_free(v) = LAST <=> Free(v.fat) = {}
         /\ find_fat_free(v) # LAST =>
              /\ find_fat_free(v) \in Clusters /\ v.fat[find_fat_free(v)] = FREE
              /\ Taken(v).fat = [v.fat EXCEPT ![find_fat_free(v)] = LAST]
         /\ find_fat_free(v) = LAST => Taken(v).fat = v.fat /\ Taken(v).nfree = v.nfree
<1> DEFINE x == find_fat_free(v)
<1>0. x = find_fat_free(v)
  OBVIOUS
<1> HIDE DEF x
<1> DEFINE F == Free(v.fat)
           up == {c \in F : c >= v.hint}
<1>1. F \subseteq Clusters /\ \A c \in F : v.fat[c] = FREE
  BY DEF Free
<1>2. F \subseteq Nat /\ LAST \notin Clusters
  BY <1>1, Numbers
<1>3. x = IF F = {} THEN LAST ELSE Min(IF up # {} THEN up ELSE F)
  BY <1>0 DEF find_fat_free
<1>4. CASE F = {}
  <2>1. x = LAST
    BY <1>3, <1>4
  <2>2. Taken(v) = [v EXCEPT !.hint = UNKNOWN]
    BY <2>1, <1>0 DEF Taken
  <2>3. v.fat \in FatOf /\ v.nfree \in 0..MaxCluster \cup {UNKNOWN} /\ v = [fat |-> v.fat, hint |-> v.hint, nfree |-> v.nfree]
    BY DEF VolOf
  <2>4. Taken(v) \in VolOf /\ Taken(v).fat = v.fat /\ Taken(v).nfree = v.nfree
    BY <2>2, <2>3 DEF VolOf
  <2>5. CountOK(Taken(v))
    BY <2>4 DEF CountOK
  <2> QED
    BY <2>1, <2>4, <2>5, <1>4, <1>0
<1>5. CASE F # {}
  <2>1. \A S : S \subseteq Nat /\ S # {} => Min(S) \in S
    BY MinIn
  <2>2. x \in F
    <3>1. CASE up # {}
      <4>1. x = Min(up)
        BY <1>3, <1>5, <3>1
      <4>2. Min(up) \in up
        BY <2>1, <3>1, <1>2
      <4> QED
        BY <4>1, <4>2
    <3>2. CASE up = {}
      <4>1. x = Min(F)
        BY <1>3, <1>5, <3>2
      <4> QED
        BY <4>1, <2>1, <1>5, <1>2
    <3> QED
      BY <3>1, <3>2
  <2>3. x \in Clusters /\ v.fat[x] = FREE /\ x # LAST
    BY <2>2, <1>1, <1>2
  <2> DEFINE w == link_fat(v, x, LAST)
  <2>4. w \in VolOf /\ CountOK(w) /\ w.fat = [v.fat EXCEPT ![x] = LAST]
    BY <2>3, LinkOK
  <2>5. Taken(v) = [w EXCEPT !.hint = x]
    BY <2>3, <1>0 DEF Taken
  <2> HIDE DEF w
  <2>6. w.fat \in FatOf /\ w.nfree \in 0..MaxCluster \cup {UNKNOWN} /\ w = [fat |-> w.fat, hint |-> w.hint, nfree |-> w.nfree]
    BY <2>4 DEF VolOf
  <2>7. Taken(v) = [fat |-> w.fat, hint |-> x, nfree |-> w.nfree]
    BY <2>5, <2>6
  <2>8. Taken(v) \in VolOf /\ Taken(v).fat = w.fat /\ Taken(v).nfree = w.nfree
    BY <2>7, <2>6, <2>3 DEF VolOf
  <2>9. CountOK(Taken(v))
    BY <2>8, <2>4 DEF CountOK
  <2> QED
    BY <2>3, <2>4, <2>8, <2>9, <1>5, <1>0
<1> QED
  BY <1>4, <1>5, <1>0
LEMMA WipedOK ==
  ASSUME NEW v \in VolOf, CountOK(v), NEW S \in SUBSET Clusters, \A c \in S : v.fat[c] # FREE
  PROVE  /\ Wiped(v, S) \in VolOf /\ CountOK(Wiped(v, S))
         /\ Wiped(v, S).fat = [c \in Clusters |-> IF c \in S THEN FREE ELSE v.fat[c]]
<1> DEFINE f == v.fat
           g == [c \in Clusters |-> IF c \in S THEN FREE ELSE f[c]]
           H == S \cup ({v.hint} \ {UNKNOWN})
           h == IF S = {} THEN v.hint ELSE Min(H)
           k == IF v.nfree = UNKNOWN THEN UNKNOWN ELSE v.nfree + Cardinality(S)
<1>1. Wiped(v, S) = [fat |-> g, hint |-> h, nfree |-> k]
  BY DEF Wiped
<1>2. f \in FatOf /\ v.nfree \in 0..MaxCluster \cup {UNKNOWN} /\ v.hint \in Clusters \cup {UNKNOWN}
  BY DEF VolOf
<1>3. g \in FatOf
  BY <1>2 DEF FatOf
<1>4. h \in Clusters \cup {UNKNOWN}
  <2>1. CASE S = {}
    BY <2>1, <1>2
  <2>2. CASE S # {}
    <3>1. H \subseteq Clusters /\ H # {}
      BY <2>2, <1>2
    <3>2. H \subseteq Nat
      BY <3>1, Numbers
    <3>3. Min(H) \in H
      BY <3>1, <3>2, MinIn
    <3> QED
      BY <3>1, <3>3, <2>2
  <2> QED
    BY <2>1, <2>2
<1>5. IsFiniteSet(Clusters) /\ IsFiniteSet(Free(f)) /\ Cardinality(Free(f)) \in 0..MaxCluster /\ Cardinality(Free(g)) \in 0..MaxCluster
  BY FreeFinite
<1>6. IsFiniteSet(S)
  BY <1>5, FS_Subset
<1>7. Cardinality(S) \in Nat
  BY <1>6, FS_CardinalityType
<1>8. Free(g) = Free(f) \cup S /\ Free(f) \cap S = {}
  BY DEF Free
<1>9. Cardinality(Free(f) \cup S) = Cardinality(Free(f)) + Cardinality(S) - Cardinality(Free(f) \cap S)
  BY <1>5, <1>6, FS_Union
<1>10. Cardinality(Free(g)) = Cardinality(Free(f)) + Cardinality(S) - Cardinality({})
  BY <1>8, <1>9, Zenon
<1>11. Cardinality(Free(g)) = Cardinality(Free(f)) + Cardinality(S)
  <2>1. Cardinality({}) = 0
    BY FS_EmptySet
  <2> QED
    BY <2>1, <1>10, <1>5, <1>7
<1>12. k # UNKNOWN => k = Cardinality(Free(g))
  BY <1>11 DEF CountOK
<1>13. k \in 0..MaxCluster \cup {UNKNOWN}
  BY <1>12, <1>5
<1> HIDE DEF g, h, k
<1>14. Wiped(v, S) \in VolOf /\ Wiped(v, S).fat = g
  BY <1>1, <1>3, <1>4, <1>13 DEF VolOf
<1>15. CountOK(Wiped(v, S))
  BY <1>1, <1>12 DEF CountOK
<1> QED
  BY <1>14, <1>15 DEF g

-----------------------------------------------------------------------------
(* Positions in files.                                                     *)

\* A position cached for a file that starts at `start'.
Placed(fat, start, cu, rel) ==
  IF cu = FREE THEN Chain(fat, start) = <<>> /\ rel = 0
  ELSE rel < Len(Chain(fat, start)) /\ cu = Chain(fat, start)[rel + 1]

FnodeOf == [vol : VolOf, start : Clusters \cup {FREE}, cu : Clusters \cup {FREE}, rel : 0..MaxCluster]

\* What map_cluster is called with and returns.
FnodeOK(m) ==
  /\ m \in FnodeOf /\ CountOK(m.vol)
  /\ Whole(m.vol.fat, m.start) /\ Placed(m.vol.fat, m.start, m.cu, m.rel)

\* What becomes of the FAT f when the chain from s is made longer: the chain from
\* s2 in f2.
Lengthened(f, s, f2, s2) ==
  /\ Len(Chain(f, s)) =< Len(Chain(f2, s2))
  /\ \A j \in 1..Len(Chain(f, s)) : Chain(f2, s2)[j] = Chain(f, s)[j]
  /\ \A x \in ToSet(Chain(f2, s2)) : x \in ToSet(Chain(f, s)) \/ x \in Free(f)
  /\ \A x \in Clusters : f2[x] = f[x] \/ x \in Free(f) \/ (f[x] = LAST /\ x \in ToSet(Chain(f, s)))
  /\ \A x \in Free(f2) : x \in Free(f)
  /\ s # FREE => s2 = s

\* A chain with one more cluster, x, at its end.
LEMMA OneMore ==
  ASSUME NEW f \in FatOf, NEW s, NEW c, NEW n, Runs(f, s, c, n), NEW x \in Clusters, f[x] = FREE,
         NEW g \in FatOf, \A y \in Clusters : g[y] = IF y = x THEN LAST ELSE IF n > 0 /\ y = c[n] THEN x ELSE f[y],
         NEW q, q = [j \in 1..n+1 |-> IF j = n + 1 THEN x ELSE c[j]]
  PROVE  Runs(g, IF n = 0 THEN x ELSE s, q, n + 1)
<1>1. /\ n \in Nat /\ c \in [1..n -> Clusters]
      /\ s = IF n = 0 THEN FREE ELSE c[1]
      /\ \A j \in 1..n-1 : f[c[j]] = c[j+1]
      /\ n > 0 => f[c[n]] = LAST
  BY DEF Runs
<1>2. \A i, j \in 1..n : c[i] = c[j] => i = j
  BY RunsOnce
<1>3. FREE \notin Clusters /\ LAST \notin Clusters /\ FREE # LAST
  BY Numbers
<1>4. ASSUME NEW j \in 1..n PROVE c[j] # x
  <2>1. CASE j = n
    BY <2>1, <1>1, <1>3
  <2>2. CASE j # n
    <3>1. j \in 1..n-1 /\ j + 1 \in 1..n
      BY <2>2, <1>1
    <3>2. f[c[j]] \in Clusters
      BY <3>1, <1>1
    <3> QED
      BY <3>2, <1>3
  <2> QED
    BY <2>1, <2>2
<1>5. q \in [1..n+1 -> Clusters] /\ q[n+1] = x /\ \A j \in 1..n : q[j] = c[j]
  BY <1>1
<1>6. ASSUME NEW j \in 1..(n+1)-1 PROVE g[q[j]] = q[j+1]
  <2>1. CASE j = n
    <3>1. j \in 1..n /\ n > 0 /\ q[j] = c[n] /\ c[n] \in Clusters /\ c[n] # x /\ j + 1 = n + 1
      BY <2>1, <1>1, <1>4, <1>5
    <3> QED
      BY <3>1, <1>5
  <2>2. CASE j # n
    <3>1. j \in 1..n-1 /\ j \in 1..n /\ j + 1 \in 1..n /\ n \in 1..n
      BY <2>2, <1>1
    <3>2. q[j] = c[j] /\ q[j+1] = c[j+1] /\ c[j] # c[n] /\ c[j] \in Clusters /\ c[j] # x
      BY <3>1, <2>2, <1>1, <1>2, <1>4, <1>5
    <3>3. g[c[j]] = f[c[j]]
      BY <3>2
    <3>4. f[c[j]] = c[j+1]
      BY <3>1, <1>1
    <3> QED
      BY <3>2, <3>3, <3>4
  <2> QED
    BY <2>1, <2>2
<1>7. g[q[n+1]] = LAST
  BY <1>5
<1>8. (IF n = 0 THEN x ELSE s) = q[1]
  BY <1>5, <1>1
<1>9. n + 1 \in Nat /\ n + 1 # 0
  BY <1>1
<1> HIDE DEF Runs
<1> QED
  BY ONLY <1>5, <1>6, <1>7, <1>8, <1>9 DEF Runs

\* A position in the last cluster.
LEMMA AtLast ==
  ASSUME NEW f, NEW s \in Clusters \cup {FREE}, Whole(f, s), NEW cu \in Clusters, NEW rel \in Nat,
         Placed(f, s, cu, rel), f[cu] = LAST
  PROVE  Len(Chain(f, s)) = rel + 1 /\ cu = Chain(f, s)[rel + 1] /\ s \in Clusters
<1> DEFINE c == Chain(f, s)
           n == Len(c)
<1>1. /\ n \in Nat /\ c \in [1..n -> Clusters]
      /\ s = IF n = 0 THEN FREE ELSE c[1]
      /\ \A j \in 1..n-1 : f[c[j]] = c[j+1]
  BY ChainFacts
<1>2. FREE \notin Clusters /\ LAST \notin Clusters
  BY Numbers
<1>3. rel < n /\ cu = c[rel + 1]
  BY <1>2 DEF Placed
<1> HIDE DEF c, n
<1>4. CASE rel + 1 = n
  BY <1>4, <1>3, <1>1 DEF c, n
<1>5. CASE rel + 1 # n
  <2>1. rel + 1 \in 1..n-1 /\ (rel + 1) + 1 \in 1..n
    BY <1>5, <1>1, <1>3
  <2>2. f[c[rel + 1]] \in Clusters
    BY <2>1, <1>1
  <2> QED
    BY <2>2, <1>3, <1>2
<1> QED
  BY <1>4, <1>5
LEMMA FnodeFacts ==
  ASSUME NEW m, FnodeOK(m)
  PROVE  /\ m = [vol |-> m.vol, start |-> m.start, cu |-> m.cu, rel |-> m.rel]
         /\ m.vol \in VolOf /\ CountOK(m.vol) /\ m.vol.fat \in FatOf
         /\ m.start \in Clusters \cup {FREE} /\ m.cu \in Clusters \cup {FREE}
         /\ m.rel \in Nat
         /\ Whole(m.vol.fat, m.start) /\ Placed(m.vol.fat, m.start, m.cu, m.rel)
<1>1. m \in FnodeOf /\ CountOK(m.vol) /\ Whole(m.vol.fat, m.start) /\ Placed(m.vol.fat, m.start, m.cu, m.rel)
  BY DEF FnodeOK
<1>2. m.vol \in VolOf
  BY <1>1 DEF FnodeOf
<1>3. m.vol.fat \in FatOf
  BY <1>2 DEF VolOf
<1>4. m = [vol |-> m.vol, start |-> m.start, cu |-> m.cu, rel |-> m.rel]
  BY <1>1 DEF FnodeOf
<1>5. m.start \in Clusters \cup {FREE} /\ m.cu \in Clusters \cup {FREE} /\ m.rel \in 0..MaxCluster
  BY <1>1 DEF FnodeOf
<1> QED
  BY <1>1, <1>2, <1>3, <1>4, <1>5, Sizes

LEMMA FnodeIs ==
  ASSUME NEW v \in VolOf, CountOK(v), NEW s \in Clusters \cup {FREE}, NEW cu \in Clusters \cup {FREE},
         NEW rel \in Nat, Whole(v.fat, s), Placed(v.fat, s, cu, rel)
  PROVE  FnodeOK([vol |-> v, start |-> s, cu |-> cu, rel |-> rel])
<1>1. Len(Chain(v.fat, s)) \in Nat /\ Len(Chain(v.fat, s)) < MaxCluster
  BY ChainFacts
<1>2. rel \in 0..MaxCluster
  <2>1. rel = 0 \/ rel < Len(Chain(v.fat, s))
    BY DEF Placed
  <2> QED
    BY <1>1, <2>1, Sizes
<1> QED
  BY <1>2 DEF FnodeOK, FnodeOf

LEMMA LengthenedTwice ==
  ASSUME NEW f, NEW s, NEW g, NEW t, NEW h, NEW u, Lengthened(f, s, g, t), Lengthened(g, t, h, u),
         Len(Chain(f, s)) \in Nat, Len(Chain(g, t)) \in Nat, Len(Chain(h, u)) \in Nat
  PROVE  Lengthened(f, s, h, u)
<1> DEFINE a == Chain(f, s)
           b == Chain(g, t)
           c == Chain(h, u)
<1>1. /\ Len(a) =< Len(b) /\ \A j \in 1..Len(a) : b[j] = a[j]
      /\ \A x \in ToSet(b) : x \in ToSet(a) \/ x \in Free(f)
      /\ \A x \in Clusters : g[x] = f[x] \/ x \in Free(f) \/ (f[x] = LAST /\ x \in ToSet(a))
      /\ \A x \in Free(g) : x \in Free(f)
      /\ s # FREE => t = s
  BY DEF Lengthened
<1>2. /\ Len(b) =< Len(c) /\ \A j \in 1..Len(b) : c[j] = b[j]
      /\ \A x \in ToSet(c) : x \in ToSet(b) \/ x \in Free(g)
      /\ \A x \in Clusters : h[x] = g[x] \/ x \in Free(g) \/ (g[x] = LAST /\ x \in ToSet(b))
      /\ \A x \in Free(h) : x \in Free(g)
      /\ t # FREE => u = t
  BY DEF Lengthened
<1> HIDE DEF a, b, c
<1>0. Len(a) \in Nat /\ Len(b) \in Nat /\ Len(c) \in Nat
  BY DEF a, b, c
<1>3. Len(a) =< Len(c) /\ \A j \in 1..Len(a) : c[j] = a[j]
  BY <1>0, <1>1, <1>2
<1>4. \A x \in ToSet(c) : x \in ToSet(a) \/ x \in Free(f)
  BY <1>1, <1>2
<1>5. \A x \in Clusters : h[x] = f[x] \/ x \in Free(f) \/ (f[x] = LAST /\ x \in ToSet(a))
  BY <1>1, <1>2
<1>6. (\A x \in Free(h) : x \in Free(f)) /\ (s # FREE => u = s)
  BY <1>1, <1>2
<1> QED
  BY <1>3, <1>4, <1>5, <1>6 DEF Lengthened, a, b, c

LEMMA LengthenedNot ==
  ASSUME NEW f, NEW s, Len(Chain(f, s)) \in Nat
  PROVE  Lengthened(f, s, f, s)
  BY DEF Lengthened

\* extend puts the cluster found at the end of the chain.
LEMMA ExtendLinks ==
  ASSUME NEW m, FnodeOK(m), AtEnd(m), NEW x, x = find_fat_free(m.vol), x # LAST, NEW e, e = extend(m)
  PROVE  /\ e = [vol |-> e.vol, start |-> e.start, cu |-> x, rel |-> Len(Chain(m.vol.fat, m.start))]
         /\ e.vol \in VolOf /\ CountOK(e.vol) /\ e.vol.fat \in FatOf
         /\ x \in Clusters /\ m.vol.fat[x] = FREE
         /\ e.start = IF Len(Chain(m.vol.fat, m.start)) = 0 THEN x ELSE m.start
         /\ \A y \in Clusters : e.vol.fat[y] = IF y = x THEN LAST
              ELSE IF Len(Chain(m.vol.fat, m.start)) > 0 /\ y = Chain(m.vol.fat, m.start)[Len(Chain(m.vol.fat, m.start))]
              THEN x ELSE m.vol.fat[y]
<1> DEFINE f == m.vol.fat
           c == Chain(f, m.start)
           n == Len(c)
           v == Taken(m.vol)
<1>1. /\ m = [vol |-> m.vol, start |-> m.start, cu |-> m.cu, rel |-> m.rel]
      /\ m.vol \in VolOf /\ CountOK(m.vol) /\ f \in FatOf
      /\ m.start \in Clusters \cup {FREE} /\ m.cu \in Clusters \cup {FREE}
      /\ m.rel \in Nat
      /\ Whole(f, m.start) /\ Placed(f, m.start, m.cu, m.rel)
  BY FnodeFacts
<1>2. v \in VolOf /\ CountOK(v) /\ x \in Clusters /\ f[x] = FREE /\ v.fat = [f EXCEPT ![x] = LAST]
  BY <1>1, TakenOK
<1>3. n \in Nat /\ c \in [1..n -> Clusters] /\ (n = 0 <=> c = <<>>) /\ (n > 0 => f[c[n]] = LAST)
  BY <1>1, ChainFacts
<1>4. FREE \notin Clusters /\ LAST \notin Clusters /\ FREE # LAST
  BY Numbers
<1>5. v.fat \in FatOf
  BY <1>2 DEF VolOf
<1>6. CASE m.cu = FREE
  <2>1. n = 0 /\ m.rel = 0
    BY <1>6, <1>1, <1>3 DEF Placed
  <2>2. extend(m) = [m EXCEPT !.vol = v, !.start = x, !.cu = x]
    BY <1>6, Zenon DEF extend
  <2>3. e = [vol |-> v, start |-> x, cu |-> x, rel |-> 0]
    <3> HIDE DEF v
    <3> QED
      BY <2>1, <2>2, <1>1
  <2>4. \A y \in Clusters : v.fat[y] = IF y = x THEN LAST ELSE f[y]
    BY <1>1, <1>2 DEF FatOf
  <2> HIDE DEF v, n
  <2>5. e.vol = v /\ e.start = x
    BY <2>3
  <2>6. e = [vol |-> e.vol, start |-> e.start, cu |-> x, rel |-> n]
    BY <2>1, <2>3, <2>5
  <2>7. e.start = IF n = 0 THEN x ELSE m.start
    BY <2>1, <2>5
  <2>8. \A y \in Clusters : e.vol.fat[y] = IF y = x THEN LAST ELSE IF n > 0 /\ y = c[n] THEN x ELSE f[y]
    BY <2>1, <2>4, <2>5
  <2>9. e.vol \in VolOf /\ CountOK(e.vol) /\ e.vol.fat \in FatOf
    BY <2>5, <1>2, <1>5
  <2> QED
    BY ONLY <2>6, <2>7, <2>8, <2>9, <1>2 DEF n, c, f
<1>7. CASE m.cu # FREE
  <2> DEFINE w == link_fat(v, m.cu, x)
  <2>1. m.cu \in Clusters /\ f[m.cu] = LAST
    BY <1>7, <1>1 DEF AtEnd
  <2>2. n = m.rel + 1 /\ m.cu = c[m.rel + 1]
    BY <2>1, <1>1, AtLast
  <2>3. w \in VolOf /\ CountOK(w) /\ w.fat = [v.fat EXCEPT ![m.cu] = x]
    BY <2>1, <1>2, LinkOK
  <2>4. extend(m) = [m EXCEPT !.vol = w, !.cu = x, !.rel = @ + 1]
    BY <1>7, Zenon DEF extend
  <2> HIDE DEF w, v
  <2>5. e = [vol |-> w, start |-> m.start, cu |-> x, rel |-> n]
    <3>1. e = [vol |-> w, start |-> m.start, cu |-> x, rel |-> m.rel + 1]
      BY <2>4, <1>1
    <3> QED
      BY <3>1, <2>2
  <2>6. m.cu # x
    BY <2>1, <1>2, <1>4
  <2>7. w.fat \in FatOf
    BY <2>3 DEF VolOf
  <2>8. \A y \in Clusters : w.fat[y] = IF y = x THEN LAST ELSE IF y = m.cu THEN x ELSE f[y]
    <3>1. \A y \in Clusters : v.fat[y] = IF y = x THEN LAST ELSE f[y]
      BY <1>1, <1>2 DEF FatOf
    <3>2. \A y \in Clusters : w.fat[y] = IF y = m.cu THEN x ELSE v.fat[y]
      BY <2>3, <1>5 DEF FatOf
    <3> QED
      BY <3>1, <3>2, <2>6
  <2> HIDE DEF n, c
  <2>9. n > 0 /\ m.cu = c[n]
    BY <2>2, <1>1
  <2>10. e.vol = w /\ e.start = m.start
    BY <2>5
  <2>11. \A y \in Clusters : w.fat[y] = IF y = x THEN LAST ELSE IF n > 0 /\ y = c[n] THEN x ELSE f[y]
    BY <2>8, <2>9
  <2>12. n # 0
    BY <2>9, <1>3
  <2> QED
    BY <2>3, <2>5, <2>7, <2>10, <2>11, <2>12, <1>2 DEF n, c
<1> QED
  BY <1>6, <1>7

\* After extend the position is in the last cluster, if there is one more.
LEMMA ExtendOK ==
  ASSUME NEW m, FnodeOK(m), AtEnd(m)
  PROVE  /\ FnodeOK(extend(m)) /\ Lengthened(m.vol.fat, m.start, extend(m).vol.fat, extend(m).start)
         /\ Free(m.vol.fat) = {} => extend(m).cu = m.cu /\ extend(m).rel = m.rel /\ extend(m).start = m.start /\ extend(m).vol.fat = m.vol.fat
         /\ Free(m.vol.fat) # {} =>
              /\ extend(m).cu \in Free(m.vol.fat) /\ extend(m).cu = find_fat_free(m.vol)
              /\ Len(Chain(extend(m).vol.fat, extend(m).start)) = Len(Chain(m.vol.fat, m.start)) + 1
              /\ extend(m).rel = Len(Chain(m.vol.fat, m.start))
              /\ ToSet(Chain(extend(m).vol.fat, extend(m).start)) = ToSet(Chain(m.vol.fat, m.start)) \cup {extend(m).cu}
              /\ \A y \in Clusters : extend(m).vol.fat[y] # FREE <=> m.vol.fat[y] # FREE \/ y = extend(m).cu
              /\ extend(m).vol.fat[extend(m).cu] = LAST
<1> DEFINE e == extend(m)
<1>0. e = extend(m)
  OBVIOUS
<1> HIDE DEF e
<1> DEFINE f == m.vol.fat
           c == Chain(f, m.start)
           n == Len(c)
           x == find_fat_free(m.vol)
<1>1. /\ m = [vol |-> m.vol, start |-> m.start, cu |-> m.cu, rel |-> m.rel]
      /\ m.vol \in VolOf /\ CountOK(m.vol) /\ f \in FatOf
      /\ m.start \in Clusters \cup {FREE} /\ m.cu \in Clusters \cup {FREE}
      /\ m.rel \in Nat
      /\ Whole(f, m.start) /\ Placed(f, m.start, m.cu, m.rel)
  BY FnodeFacts
<1>2. /\ n \in Nat /\ n < MaxCluster /\ c \in [1..n -> Clusters]
      /\ n > 0 => f[c[n]] = LAST
      /\ ToSet(c) = {c[j] : j \in 1..n}
  BY <1>1, ChainFacts
<1>3. x = LAST <=> Free(f) = {}
  BY <1>1, TakenOK
<1>4. FREE \notin Clusters /\ LAST \notin Clusters /\ FREE # LAST
  BY Numbers
<1>5. CASE x = LAST
  <2> DEFINE v == Taken(m.vol)
  <2>1. v \in VolOf /\ CountOK(v) /\ v.fat = f
    BY <1>5, <1>1, TakenOK
  <2>2. e = [m EXCEPT !.vol = v]
    BY <1>0, <1>5, Zenon DEF extend
  <2> HIDE DEF v
  <2>3. e = [vol |-> v, start |-> m.start, cu |-> m.cu, rel |-> m.rel]
    BY <2>2, <1>1
  <2>4. FnodeOK([vol |-> v, start |-> m.start, cu |-> m.cu, rel |-> m.rel])
    BY <1>1, <2>1, FnodeIs
  <2>5. e.vol = v /\ e.start = m.start /\ e.cu = m.cu /\ e.rel = m.rel
    BY <2>3
  <2>6. Lengthened(f, m.start, e.vol.fat, e.start)
    BY <2>1, <2>5, <1>2, LengthenedNot
  <2> QED
    BY <2>1, <2>3, <2>4, <2>5, <2>6, <1>3, <1>5, <1>0
<1>6. CASE x # LAST
  <2> DEFINE q == [j \in 1..n+1 |-> IF j = n + 1 THEN x ELSE c[j]]
             g == e.vol.fat
  <2>1. /\ e = [vol |-> e.vol, start |-> e.start, cu |-> x, rel |-> n]
        /\ e.vol \in VolOf /\ CountOK(e.vol) /\ g \in FatOf
        /\ x \in Clusters /\ f[x] = FREE
        /\ e.start = IF n = 0 THEN x ELSE m.start
        /\ \A y \in Clusters : g[y] = IF y = x THEN LAST ELSE IF n > 0 /\ y = c[n] THEN x ELSE f[y]
    BY <1>0, <1>6, ExtendLinks
  <2>2. Runs(f, m.start, c, n)
    BY <1>1, WholeRuns
  <2>a. e.cu = x /\ e.rel = n
    BY <2>1
  <2> HIDE DEF f, g, c, n, x, q
  <2>3. Runs(g, IF n = 0 THEN x ELSE m.start, q, n + 1)
    BY <2>1, <2>2, <1>1, OneMore DEF q
  <2>4. Runs(g, e.start, q, n + 1)
    BY <2>1, <2>3
  <2>5. Chain(g, e.start) = q /\ Whole(g, e.start) /\ Len(Chain(g, e.start)) = n + 1
        /\ ToSet(Chain(g, e.start)) = {q[j] : j \in 1..n+1}
    BY <2>4, RunsChain, RunsWhole
  <2>6. q[n+1] = x /\ \A j \in 1..n : q[j] = c[j]
    BY <1>2 DEF q
  <2>7. Placed(g, e.start, x, n)
    <3>1. n < Len(Chain(g, e.start)) /\ Chain(g, e.start)[n+1] = x
      BY <2>5, <2>6, <1>2
    <3>2. x # FREE
      BY <2>1, <1>4
    <3> QED
      BY <3>1, <3>2 DEF Placed
  <2>8. e.start \in Clusters \cup {FREE}
    BY <2>1, <1>1
  <2>9. FnodeOK(e)
    <3>1. FnodeOK([vol |-> e.vol, start |-> e.start, cu |-> x, rel |-> n])
      BY <2>1, <2>5, <2>7, <2>8, <1>2, FnodeIs DEF g
    <3> QED
      BY <3>1, <2>1
  <2>10. ToSet(Chain(g, e.start)) = ToSet(c) \cup {x}
    <3>1. {q[j] : j \in 1..n+1} = {c[j] : j \in 1..n} \cup {x}
      BY <2>6, <1>2
    <3> QED
      BY <3>1, <2>5, <1>2
  <2>11. x \in Free(f)
    BY <2>1 DEF Free
  <2>12. n > 0 => c[n] \in ToSet(c) /\ c[n] \in Clusters
    BY <1>2
  <2>13. \A y \in Clusters : g[y] # FREE <=> f[y] # FREE \/ y = x
    BY <2>1, <2>12, <1>2, <1>4
  <2>14. \A y \in Free(g) : y \in Free(f)
    BY <2>13 DEF Free
  <2>15. \A y \in Clusters : g[y] = f[y] \/ y \in Free(f) \/ (f[y] = LAST /\ y \in ToSet(c))
    BY <2>1, <2>11, <2>12, <1>2
  <2>16. g[x] = LAST
    BY <2>1
  <2>17. Lengthened(f, m.start, g, e.start)
    <3>1. Len(c) =< Len(Chain(g, e.start))
      BY <2>5, <1>2 DEF n
    <3>2. \A j \in 1..Len(c) : Chain(g, e.start)[j] = c[j]
      BY <2>5, <2>6 DEF n
    <3>3. \A y \in ToSet(Chain(g, e.start)) : y \in ToSet(c) \/ y \in Free(f)
      BY <2>10, <2>11
    <3>4. m.start # FREE => e.start = m.start
      <4>1. m.start = IF n = 0 THEN FREE ELSE c[1]
        BY <1>1, ChainFacts DEF n, c, f
      <4> QED
        BY <4>1, <2>1
    <3> QED
      BY <3>1, <3>2, <3>3, <3>4, <2>14, <2>15 DEF Lengthened, c
  <2>18. Len(Chain(g, e.start)) = n + 1
    BY <2>5
  <2> QED
    BY <2>a, <2>9, <2>10, <2>11, <2>13, <2>16, <2>17, <2>18, <1>3, <1>6, <1>0 DEF f, g, c, n, x
<1> QED
  BY <1>0, <1>5, <1>6

\* The fnode m after some turns from m0 towards the cluster rel.
Gone(m0, m, rel) ==
  FnodeOK(m) /\ Lengthened(m0.vol.fat, m0.start, m.vol.fat, m.start) /\ m.rel =< rel

\* Clusters taken are all in the chain, and there are none beyond the position.
NoLoss(m0, m) ==
  \A y \in Clusters : m.vol.fat[y] # FREE <=> m0.vol.fat[y] # FREE \/ y \in ToSet(Chain(m.vol.fat, m.start))
Exact(m0, m) ==
  \/ Len(Chain(m.vol.fat, m.start)) = Len(Chain(m0.vol.fat, m0.start))
  \/ Len(Chain(m.vol.fat, m.start)) = m.rel + 1

\* There is nothing more to do, and how far it is.
Done(m, rel, write) == Mapped(m, rel) \/ (AtEnd(m) /\ (write => Free(m.vol.fat) = {}))
Far(m) == IF m.cu = FREE THEN 0 ELSE m.rel + 1

LEMMA FnodeLen ==
  ASSUME NEW m, FnodeOK(m)
  PROVE  /\ Len(Chain(m.vol.fat, m.start)) \in Nat /\ Len(Chain(m.vol.fat, m.start)) < MaxCluster
         /\ m.cu # FREE => m.rel < Len(Chain(m.vol.fat, m.start)) /\ m.cu = Chain(m.vol.fat, m.start)[m.rel + 1]
         /\ m.cu = FREE => m.rel = 0 /\ Len(Chain(m.vol.fat, m.start)) = 0
         /\ NoLoss(m, m) /\ Lengthened(m.vol.fat, m.start, m.vol.fat, m.start)
<1> DEFINE c == Chain(m.vol.fat, m.start)
<1>1. Whole(m.vol.fat, m.start) /\ Placed(m.vol.fat, m.start, m.cu, m.rel) /\ m.start \in Clusters \cup {FREE}
  BY FnodeFacts
<1>2. Len(c) \in Nat /\ Len(c) < MaxCluster /\ (Len(c) = 0 <=> c = <<>>)
      /\ (\A x \in ToSet(c) : x \in Clusters /\ m.vol.fat[x] # FREE)
  BY <1>1, ChainFacts
<1>3. Lengthened(m.vol.fat, m.start, m.vol.fat, m.start)
  BY <1>2, LengthenedNot
<1>4. NoLoss(m, m)
  BY <1>2 DEF NoLoss
<1>5. /\ m.cu # FREE => m.rel < Len(c) /\ m.cu = c[m.rel + 1]
      /\ m.cu = FREE => m.rel = 0 /\ Len(c) = 0
  BY <1>1, <1>2 DEF Placed
<1> QED
  BY <1>2, <1>3, <1>4, <1>5

\* A position at the end of the chain, and one before it.
LEMMA FnodeEnd ==
  ASSUME NEW m, FnodeOK(m), m.cu # FREE
  PROVE  /\ m.rel + 1 = Len(Chain(m.vol.fat, m.start)) <=> AtEnd(m)
         /\ m.rel + 1 # Len(Chain(m.vol.fat, m.start)) =>
              /\ m.vol.fat[m.cu] \in Clusters
              /\ m.rel + 1 < Len(Chain(m.vol.fat, m.start))
              /\ m.vol.fat[m.cu] = Chain(m.vol.fat, m.start)[(m.rel + 1) + 1]
<1> DEFINE f == m.vol.fat
           c == Chain(f, m.start)
           n == Len(c)
<1>1. Whole(f, m.start) /\ m.start \in Clusters \cup {FREE} /\ m.rel \in Nat
  BY FnodeFacts
<1>2. m.rel < n /\ m.cu = c[m.rel + 1]
  BY FnodeLen
<1>3. /\ n \in Nat /\ c \in [1..n -> Clusters]
      /\ \A j \in 1..n-1 : f[c[j]] = c[j+1]
      /\ n > 0 => f[c[n]] = LAST
  BY <1>1, ChainFacts
<1>4. LAST \notin Clusters
  BY Numbers
<1>5. AtEnd(m) <=> f[m.cu] = LAST
  BY DEF AtEnd
<1> HIDE DEF f, c, n
<1>6. CASE m.rel + 1 = n
  <2>1. f[m.cu] = LAST
    BY <1>6, <1>1, <1>2, <1>3
  <2> QED
    BY <2>1, <1>5, <1>6 DEF f, c, n
<1>7. CASE m.rel + 1 # n
  <2>1. m.rel + 1 \in 1..n-1 /\ (m.rel + 1) + 1 \in 1..n /\ m.rel + 1 < n
    BY <1>7, <1>1, <1>2, <1>3
  <2>2. f[m.cu] = c[(m.rel + 1) + 1] /\ c[(m.rel + 1) + 1] \in Clusters
    BY <2>1, <1>2, <1>3
  <2>3. ~AtEnd(m)
    BY <2>2, <1>4, <1>5
  <2> QED
    BY <2>1, <2>2, <2>3, <1>7 DEF f, c, n
<1> QED
  BY <1>6, <1>7

TurnGood(m, t, rel) ==
  /\ Gone(m, t, rel) /\ NoLoss(m, t) /\ Exact(m, t)
  /\ m.rel + 1 = Len(Chain(m.vol.fat, m.start)) => t.rel + 1 = Len(Chain(t.vol.fat, t.start))

LEMMA TurnSame ==
  ASSUME NEW m, FnodeOK(m), NEW rel \in Nat, m.rel =< rel
  PROVE  TurnGood(m, m, rel)
<1>1. NoLoss(m, m) /\ Lengthened(m.vol.fat, m.start, m.vol.fat, m.start)
  BY FnodeLen
<1> QED
  BY <1>1 DEF TurnGood, Gone, Exact

LEMMA TurnExtends ==
  ASSUME NEW m, FnodeOK(m), NEW rel \in Nat, m.rel =< rel, ~Mapped(m, rel), AtEnd(m), NEW t, t = extend(m)
  PROVE  /\ TurnGood(m, t, rel)
         /\ Free(m.vol.fat) = {} => Done(t, rel, TRUE)
         /\ Free(m.vol.fat) # {} => Far(t) = Far(m) + 1
<1> DEFINE f == m.vol.fat
           n == Len(Chain(f, m.start))
           g == t.vol.fat
           k == Len(Chain(g, t.start))
<1>1. /\ FnodeOK(t) /\ Lengthened(f, m.start, g, t.start)
      /\ Free(f) = {} => t.cu = m.cu /\ t.rel = m.rel /\ t.start = m.start /\ g = f
      /\ Free(f) # {} =>
           /\ t.cu \in Free(f) /\ k = n + 1 /\ t.rel = n
           /\ ToSet(Chain(g, t.start)) = ToSet(Chain(f, m.start)) \cup {t.cu}
           /\ \A y \in Clusters : g[y] # FREE <=> f[y] # FREE \/ y = t.cu
  BY ExtendOK
<1>2. n \in Nat /\ NoLoss(m, m) /\ (m.cu = FREE => m.rel = 0 /\ n = 0)
  BY FnodeLen
<1>3. m.cu # FREE => m.rel + 1 = n
  BY FnodeEnd
<1>4. m.rel \in Nat /\ t.rel \in Nat
  BY <1>1, FnodeFacts
<1>5. CASE Free(f) = {}
  <2>0. t.cu = m.cu /\ t.rel = m.rel /\ t.start = m.start /\ g = f
    BY <1>1, <1>5
  <2>1. Gone(m, t, rel) /\ NoLoss(m, t) /\ Exact(m, t)
    BY <2>0, <1>1, <1>2 DEF Gone, NoLoss, Exact
  <2>2. TurnGood(m, t, rel)
    BY <2>0, <2>1 DEF TurnGood
  <2>3. AtEnd(t) /\ Free(g) = {}
    BY <2>0, <1>5 DEF AtEnd
  <2> QED
    BY <2>2, <2>3, <1>5 DEF Done
<1>6. CASE Free(f) # {}
  <2>0. /\ t.cu \in Free(f) /\ k = n + 1 /\ t.rel = n
        /\ ToSet(Chain(g, t.start)) = ToSet(Chain(f, m.start)) \cup {t.cu}
        /\ \A y \in Clusters : g[y] # FREE <=> f[y] # FREE \/ y = t.cu
    BY <1>1, <1>6
  <2>1. t.cu # FREE
    BY <2>0, Numbers DEF Free
  <2>2. t.rel =< rel
    <3>1. CASE m.cu = FREE
      BY <3>1, <1>2, <2>0
    <3>2. CASE m.cu # FREE
      <4>1. m.rel # rel
        BY <3>2 DEF Mapped
      <4> QED
        BY <4>1, <3>2, <2>0, <1>3, <1>4
    <3> QED
      BY <3>1, <3>2
  <2>3. NoLoss(m, t)
    <3>1. \A y \in Clusters : f[y] # FREE <=> f[y] # FREE \/ y \in ToSet(Chain(f, m.start))
      BY <1>2 DEF NoLoss
    <3>2. \A y \in Clusters : g[y] # FREE <=> f[y] # FREE \/ y \in ToSet(Chain(g, t.start))
      BY <2>0, <3>1
    <3> QED
      BY <3>2 DEF NoLoss
  <2>4. Exact(m, t)
    BY <2>0 DEF Exact
  <2>5. Gone(m, t, rel)
    BY <1>1, <2>2 DEF Gone
  <2>6. t.rel + 1 = k
    BY <2>0
  <2>7. TurnGood(m, t, rel)
    BY <2>3, <2>4, <2>5, <2>6 DEF TurnGood
  <2>8. Far(t) = Far(m) + 1
    <3>1. Far(t) = n + 1
      BY <2>0, <2>1 DEF Far
    <3>2. Far(m) = n
      BY <1>2, <1>3 DEF Far
    <3> QED
      BY <3>1, <3>2
  <2> QED
    BY <2>7, <2>8, <1>6
<1> QED
  BY <1>5, <1>6

LEMMA TurnMoves ==
  ASSUME NEW m, FnodeOK(m), NEW rel \in Nat, m.rel =< rel, ~Mapped(m, rel), ~AtEnd(m),
         NEW t, t = [m EXCEPT !.cu = m.vol.fat[m.cu], !.rel = @ + 1]
  PROVE  TurnGood(m, t, rel) /\ m.vol.fat[m.cu] \in Clusters /\ Far(t) = Far(m) + 1
         /\ t.vol = m.vol /\ t.start = m.start
<1> DEFINE f == m.vol.fat
           c == Chain(f, m.start)
<1>1. m.cu # FREE
  BY DEF AtEnd
<1>2. f[m.cu] \in Clusters /\ m.rel + 1 < Len(c) /\ f[m.cu] = c[(m.rel + 1) + 1]
  BY <1>1, FnodeEnd
<1>3. /\ m = [vol |-> m.vol, start |-> m.start, cu |-> m.cu, rel |-> m.rel]
      /\ m.vol \in VolOf /\ CountOK(m.vol)
      /\ m.start \in Clusters \cup {FREE} /\ m.rel \in Nat
      /\ Whole(f, m.start)
  BY FnodeFacts
<1>4. t = [vol |-> m.vol, start |-> m.start, cu |-> f[m.cu], rel |-> m.rel + 1]
  BY <1>3
<1>5. Placed(f, m.start, f[m.cu], m.rel + 1) /\ f[m.cu] # FREE
  BY <1>2, Numbers DEF Placed
<1>6. FnodeOK([vol |-> m.vol, start |-> m.start, cu |-> f[m.cu], rel |-> m.rel + 1])
  <2> HIDE DEF f
  <2>1. f[m.cu] \in Clusters \cup {FREE} /\ m.rel + 1 \in Nat
    BY <1>2, <1>3
  <2>2. Placed(m.vol.fat, m.start, f[m.cu], m.rel + 1) /\ Whole(m.vol.fat, m.start)
    BY <1>5, <1>3 DEF f
  <2> QED
    BY <2>1, <2>2, <1>3, FnodeIs
<1>7. t.vol = m.vol /\ t.start = m.start /\ t.rel = m.rel + 1 /\ t.cu = f[m.cu]
  BY <1>4
<1>8. m.rel # rel
  BY <1>1 DEF Mapped
<1>9. NoLoss(m, m) /\ Lengthened(f, m.start, f, m.start)
  BY FnodeLen
<1>10. Gone(m, t, rel)
  <2>1. FnodeOK(t)
    BY <1>4, <1>6
  <2>2. t.rel =< rel
    BY <1>7, <1>8, <1>3
  <2> QED
    BY <2>1, <2>2, <1>7, <1>9 DEF Gone
<1>11. NoLoss(m, t) /\ Exact(m, t)
  BY <1>7, <1>9 DEF NoLoss, Exact
<1>12. m.rel + 1 # Len(c)
  BY <1>2, <1>3
<1>13. Far(t) = Far(m) + 1
  BY <1>1, <1>5, <1>7 DEF Far
<1> QED
  BY <1>2, <1>7, <1>10, <1>11, <1>12, <1>13 DEF TurnGood

\* A turn gets on, or there is no more to do.
LEMMA TurnOK ==
  ASSUME NEW m, FnodeOK(m), NEW rel \in Nat, m.rel =< rel, NEW write \in BOOLEAN,
         NEW t, t = Turn(m, rel, write)
  PROVE  /\ TurnGood(m, t, rel)
         /\ write = FALSE => t.vol = m.vol /\ t.start = m.start
         /\ Done(t, rel, write) \/ Far(t) = Far(m) + 1
         /\ Done(m, rel, write) => Done(t, rel, write)
<1>1. CASE Mapped(m, rel)
  <2>1. t = m
    BY <1>1, Zenon DEF Turn
  <2> QED
    BY <2>1, <1>1, TurnSame DEF Done
<1>2. CASE ~Mapped(m, rel) /\ AtEnd(m) /\ write = TRUE
  <2>1. t = extend(m)
    BY <1>2, Zenon DEF Turn
  <2>2. /\ TurnGood(m, t, rel)
        /\ Free(m.vol.fat) = {} => Done(t, rel, TRUE)
        /\ Free(m.vol.fat) # {} => Far(t) = Far(m) + 1
    BY <2>1, <1>2, TurnExtends
  <2>3. Done(m, rel, TRUE) => Free(m.vol.fat) = {}
    BY <1>2, Zenon DEF Done
  <2> QED
    BY <2>2, <2>3, <1>2
<1>3. CASE ~Mapped(m, rel) /\ AtEnd(m) /\ write = FALSE
  <2>1. t = m
    BY <1>3, Zenon DEF Turn
  <2>2. Done(m, rel, FALSE)
    BY <1>3, Zenon DEF Done
  <2> QED
    BY <2>1, <2>2, <1>3, TurnSame
<1>4. CASE ~Mapped(m, rel) /\ ~AtEnd(m)
  <2> DEFINE u == [m EXCEPT !.cu = m.vol.fat[m.cu], !.rel = @ + 1]
  <2>1. TurnGood(m, u, rel) /\ m.vol.fat[m.cu] \in Clusters /\ Far(u) = Far(m) + 1
         /\ u.vol = m.vol /\ u.start = m.start
    BY <1>4, TurnMoves
  <2>2. t = u
    BY <1>4, <2>1, Zenon DEF Turn
  <2>3. ~Done(m, rel, write)
    BY <1>4, Zenon DEF Done
  <2> HIDE DEF u
  <2> QED
    BY <2>1, <2>2, <2>3
<1> QED
  BY <1>1, <1>2, <1>3, <1>4

LEMMA RewoundOK ==
  ASSUME NEW m, FnodeOK(m), NEW rel \in Nat
  PROVE  /\ FnodeOK(Rewound(m, rel)) /\ Rewound(m, rel).rel =< rel
         /\ Rewound(m, rel).vol = m.vol /\ Rewound(m, rel).start = m.start
<1> DEFINE f == m.vol.fat
           c == Chain(f, m.start)
<1>1. /\ m = [vol |-> m.vol, start |-> m.start, cu |-> m.cu, rel |-> m.rel]
      /\ m.vol \in VolOf /\ CountOK(m.vol)
      /\ m.start \in Clusters \cup {FREE} /\ m.rel \in Nat /\ m.cu \in Clusters \cup {FREE}
      /\ Whole(f, m.start)
  BY FnodeFacts
<1>2. CASE rel < m.rel
  <2>1. m.rel # 0 /\ Rewound(m, rel) = [m EXCEPT !.cu = m.start, !.rel = 0]
    BY <1>2, <1>1 DEF Rewound
  <2>2. Rewound(m, rel) = [vol |-> m.vol, start |-> m.start, cu |-> m.start, rel |-> 0]
    BY <2>1, <1>1
  <2>3. m.rel < Len(c) /\ Len(c) \in Nat
    BY <2>1, FnodeLen
  <2>4. m.start = c[1] /\ c[1] \in Clusters
    <3>1. c \in [1..Len(c) -> Clusters] /\ m.start = IF Len(c) = 0 THEN FREE ELSE c[1]
      BY <1>1, ChainFacts
    <3> QED
      BY <3>1, <2>3, <1>1
  <2>5. Placed(f, m.start, m.start, 0)
    BY <2>3, <2>4, <1>1, Numbers DEF Placed
  <2>6. FnodeOK([vol |-> m.vol, start |-> m.start, cu |-> m.start, rel |-> 0])
    BY <2>5, <1>1, FnodeIs
  <2> QED
    BY <2>2, <2>6
<1>3. CASE ~(rel < m.rel)
  <2>1. Rewound(m, rel) = m
    BY <1>3, Zenon DEF Rewound
  <2> QED
    BY <2>1, <1>1, <1>3
<1> QED
  BY <1>2, <1>3

IsSteps(m, rel, write, p) ==
  p = [k \in 0..MaxCluster+1 |-> IF k = 0 THEN Rewound(m, rel) ELSE Turn(p[k-1], rel, write)]

LEMMA StepsExist ==
  ASSUME NEW m, NEW rel, NEW write
  PROVE  \E p : IsSteps(m, rel, write, p)
<1> DEFINE Step(c, i) == IF i = 0 THEN Rewound(m, rel) ELSE Turn(c[i-1], rel, write)
           Some(n) == \E c : c = [i \in 0..n |-> Step(c, i)]
           Odd == {n \in Nat : ~Some(n)}
<1>1. ASSUME Odd # {} PROVE FALSE
  <2>1. PICK n \in Odd : \A k \in Odd : n =< k
    <3>1. Odd \subseteq Nat
      BY Zenon
    <3> HIDE DEF Odd
    <3> QED
      BY <1>1, <3>1, Least
  <2>2. n # 0
    <3> DEFINE c == [i \in 0..0 |-> Rewound(m, rel)]
    <3>1. c = [i \in 0..0 |-> Step(c, i)]
      OBVIOUS
    <3>2. Some(0)
      BY <3>1
    <3> QED
      BY <3>2, <2>1
  <2>3. n - 1 \in Nat /\ Some(n - 1)
    <3>1. n - 1 \in Nat /\ ~(n =< n - 1)
      BY <2>1, <2>2
    <3> QED
      BY <2>1, <3>1
  <2>4. PICK c : c = [i \in 0..n-1 |-> Step(c, i)]
    BY <2>3
  <2> DEFINE g == [i \in 0..n |-> Step(c, i)]
  <2>5. \A i \in 0..n-1 : g[i] = c[i]
    BY <2>3, <2>4
  <2>6. ASSUME NEW i \in 0..n, i # 0 PROVE g[i-1] = c[i-1]
    <3>1. i - 1 \in 0..n-1
      BY <2>3, <2>6
    <3> QED
      BY <2>5, <3>1
  <2>7. g = [i \in 0..n |-> Step(g, i)]
    BY <2>6
  <2>8. Some(n)
    BY <2>7
  <2> QED
    BY <2>1, <2>8
<1>2. MaxCluster + 1 \in Nat
  BY Sizes
<1>3. Some(MaxCluster + 1)
  BY <1>1, <1>2
<1> QED
  BY <1>3 DEF IsSteps

LEMMA StepsAre ==
  ASSUME NEW m, NEW rel, NEW write
  PROVE  /\ Steps(m, rel, write)[0] = Rewound(m, rel)
         /\ \A k \in 1..MaxCluster+1 : Steps(m, rel, write)[k] = Turn(Steps(m, rel, write)[k-1], rel, write)
<1> DEFINE p == Steps(m, rel, write)
<1>1. p = CHOOSE q : IsSteps(m, rel, write, q)
  BY Zenon DEF Steps, IsSteps
<1>2. IsSteps(m, rel, write, p)
  BY <1>1, StepsExist, Zenon
<1> HIDE DEF p
<1>3. p = [k \in 0..MaxCluster+1 |-> IF k = 0 THEN Rewound(m, rel) ELSE Turn(p[k-1], rel, write)]
  BY <1>2 DEF IsSteps
<1>4. p[0] = Rewound(m, rel)
  BY <1>3, Sizes
<1>5. ASSUME NEW k \in 1..MaxCluster+1 PROVE p[k] = Turn(p[k-1], rel, write)
  <2>1. k \in 0..MaxCluster+1 /\ k # 0
    BY Sizes
  <2> QED
    BY <1>3, <2>1
<1> QED
  BY <1>4, <1>5 DEF p

\* After any number of turns.
StepGood(m, q, rel, write) ==
  /\ Gone(m, q, rel) /\ NoLoss(m, q) /\ Exact(m, q)
  /\ write = FALSE => q.vol = m.vol /\ q.start = m.start

LEMMA StepOn ==
  ASSUME NEW m, FnodeOK(m), NEW q, NEW rel \in Nat, NEW write \in BOOLEAN, StepGood(m, q, rel, write),
         NEW t, t = Turn(q, rel, write)
  PROVE  StepGood(m, t, rel, write)
<1>1. /\ FnodeOK(q) /\ Lengthened(m.vol.fat, m.start, q.vol.fat, q.start) /\ q.rel =< rel
      /\ NoLoss(m, q) /\ Exact(m, q)
      /\ write = FALSE => q.vol = m.vol /\ q.start = m.start
  BY DEF StepGood, Gone
<1>2. /\ TurnGood(q, t, rel)
      /\ write = FALSE => t.vol = q.vol /\ t.start = q.start
  BY <1>1, TurnOK
<1>3. /\ FnodeOK(t) /\ Lengthened(q.vol.fat, q.start, t.vol.fat, t.start) /\ t.rel =< rel
      /\ NoLoss(q, t) /\ Exact(q, t)
      /\ q.rel + 1 = Len(Chain(q.vol.fat, q.start)) => t.rel + 1 = Len(Chain(t.vol.fat, t.start))
  BY <1>2 DEF TurnGood, Gone
<1>4. Len(Chain(m.vol.fat, m.start)) \in Nat /\ Len(Chain(q.vol.fat, q.start)) \in Nat /\ Len(Chain(t.vol.fat, t.start)) \in Nat
  BY <1>1, <1>3, FnodeLen
<1>5. Lengthened(m.vol.fat, m.start, t.vol.fat, t.start)
  BY <1>1, <1>3, <1>4, LengthenedTwice
<1>6. Gone(m, t, rel)
  BY <1>3, <1>5 DEF Gone
<1>7. Exact(m, t)
  BY <1>1, <1>3 DEF Exact
<1>8. NoLoss(m, t)
  <2> DEFINE a == Chain(q.vol.fat, q.start)
             b == Chain(t.vol.fat, t.start)
  <2>1. /\ ToSet(a) = {a[j] : j \in 1..Len(a)} /\ ToSet(b) = {b[j] : j \in 1..Len(b)}
    <3>1. Whole(q.vol.fat, q.start) /\ q.start \in Clusters \cup {FREE}
      BY <1>1, FnodeFacts
    <3>2. Whole(t.vol.fat, t.start) /\ t.start \in Clusters \cup {FREE}
      BY <1>3, FnodeFacts
    <3>3. ToSet(a) = {a[j] : j \in 1..Len(a)}
      BY <3>1, ChainFacts
    <3>4. ToSet(b) = {b[j] : j \in 1..Len(b)}
      BY <3>2, ChainFacts
    <3> QED
      BY <3>3, <3>4
  <2>2. Len(a) =< Len(b) /\ \A j \in 1..Len(a) : b[j] = a[j]
    BY <1>3 DEF Lengthened
  <2>3. ToSet(a) \subseteq ToSet(b)
    <3> HIDE DEF a, b
    <3>1. Len(a) \in Nat /\ Len(b) \in Nat
      BY <1>4 DEF a, b
    <3> QED
      BY <2>1, <2>2, <3>1
  <2>4. \A y \in Clusters : q.vol.fat[y] # FREE <=> m.vol.fat[y] # FREE \/ y \in ToSet(a)
    BY <1>1 DEF NoLoss
  <2>5. \A y \in Clusters : t.vol.fat[y] # FREE <=> q.vol.fat[y] # FREE \/ y \in ToSet(b)
    BY <1>3 DEF NoLoss
  <2>6. \A y \in Clusters : t.vol.fat[y] # FREE <=> m.vol.fat[y] # FREE \/ y \in ToSet(b)
    BY <2>3, <2>4, <2>5
  <2> QED
    BY <2>6 DEF NoLoss
<1>9. write = FALSE => t.vol = m.vol /\ t.start = m.start
  BY <1>1, <1>2
<1> QED
  BY <1>6, <1>7, <1>8, <1>9 DEF StepGood

LEMMA TurnOn ==
  ASSUME NEW m, FnodeOK(m), NEW rel \in Nat, m.rel =< rel, NEW write \in BOOLEAN,
         NEW t, t = Turn(m, rel, write), NEW k \in Nat, Done(m, rel, write) \/ Far(m) >= k
  PROVE  Done(t, rel, write) \/ Far(t) >= k + 1
<1>1. (Done(t, rel, write) \/ Far(t) = Far(m) + 1) /\ (Done(m, rel, write) => Done(t, rel, write))
  BY TurnOK
<1>2. m.rel \in Nat
  BY FnodeFacts
<1>3. Far(m) \in Nat
  BY <1>2 DEF Far
<1>4. CASE Done(m, rel, write)
  BY <1>1, <1>4
<1>5. CASE Far(m) >= k
  <2>1. CASE Far(t) = Far(m) + 1
    BY <2>1, <1>3, <1>5
  <2> QED
    BY <2>1, <1>1
<1> QED
  BY <1>4, <1>5

LEMMA StepsOK ==
  ASSUME NEW m, FnodeOK(m), NEW rel \in Nat, NEW write \in BOOLEAN
  PROVE  \A k \in 0..MaxCluster+1 :
           /\ StepGood(m, Steps(m, rel, write)[k], rel, write)
           /\ Done(Steps(m, rel, write)[k], rel, write) \/ Far(Steps(m, rel, write)[k]) >= k
<1> DEFINE p == Steps(m, rel, write)
           N == MaxCluster + 1
           Odd == {k \in 0..N : ~(/\ StepGood(m, p[k], rel, write)
                                  /\ Done(p[k], rel, write) \/ Far(p[k]) >= k)}
<1>1. N \in Nat
  BY Sizes
<1>2. p[0] = Rewound(m, rel) /\ \A k \in 1..N : p[k] = Turn(p[k-1], rel, write)
  BY StepsAre
<1> HIDE DEF p, N
<1>3. ASSUME Odd # {} PROVE FALSE
  <2>1. PICK k \in Odd : \A y \in Odd : k =< y
    <3>1. Odd \subseteq Nat
      BY <1>1
    <3> HIDE DEF Odd
    <3> QED
      BY <1>3, <3>1, Least
  <2>2. k \in 0..N /\ ~(/\ StepGood(m, p[k], rel, write)
                        /\ Done(p[k], rel, write) \/ Far(p[k]) >= k)
    BY <2>1
  <2>3. CASE k = 0
    <3> DEFINE r == Rewound(m, rel)
    <3>1. FnodeOK(r) /\ r.rel =< rel /\ r.vol = m.vol /\ r.start = m.start
      BY RewoundOK
    <3> HIDE DEF r
    <3>2. NoLoss(m, m) /\ Lengthened(m.vol.fat, m.start, m.vol.fat, m.start)
      BY FnodeLen
    <3>3. Gone(m, r, rel) /\ NoLoss(m, r) /\ Exact(m, r)
      BY <3>1, <3>2 DEF Gone, NoLoss, Exact
    <3>4. StepGood(m, r, rel, write)
      BY <3>1, <3>3 DEF StepGood
    <3>5. Far(r) >= 0
      <4>1. r.rel \in Nat
        BY <3>1, FnodeFacts
      <4> QED
        BY <4>1 DEF Far
    <3>6. p[k] = r
      BY <2>3, <1>2 DEF r
    <3> QED
      BY <3>4, <3>5, <3>6, <2>2, <2>3
  <2>4. CASE k # 0
    <3>1. k \in 1..N /\ k - 1 \in 0..N /\ ~(k =< k - 1)
      BY <2>2, <2>4, <1>1
    <3>2. /\ StepGood(m, p[k-1], rel, write)
          /\ Done(p[k-1], rel, write) \/ Far(p[k-1]) >= k - 1
      BY <3>1, <2>1
    <3>3. p[k] = Turn(p[k-1], rel, write)
      BY <3>1, <1>2
    <3>4. StepGood(m, p[k], rel, write)
      BY <3>2, <3>3, StepOn
    <3>5. FnodeOK(p[k-1]) /\ p[k-1].rel =< rel
      BY <3>2 DEF StepGood, Gone
    <3>6. Done(p[k], rel, write) \/ Far(p[k]) >= (k - 1) + 1
      <4>1. k - 1 \in Nat
        BY <3>1
      <4> QED
        BY <3>2, <3>3, <3>5, <4>1, TurnOn
    <3>7. (k - 1) + 1 = k
      BY <3>1
    <3> QED
      BY <3>4, <3>6, <3>7, <2>2
  <2> QED
    BY <2>3, <2>4
<1>4. \A k \in 0..N : /\ StepGood(m, p[k], rel, write)
                      /\ Done(p[k], rel, write) \/ Far(p[k]) >= k
  BY <1>3
<1> QED
  BY <1>4 DEF p, N

\* map_cluster gets to the cluster, or as far as there are clusters.
LEMMA MapOK ==
  ASSUME NEW m, FnodeOK(m), NEW rel \in Nat, NEW write \in BOOLEAN,
         NEW t, t = map_cluster(m, rel, write)
  PROVE  StepGood(m, t, rel, write) /\ Done(t, rel, write)
<1> DEFINE N == MaxCluster + 1
           p == Steps(m, rel, write)
<1>1. N \in Nat /\ N \in 0..N /\ MaxCluster \in Nat
  BY Sizes
<1>2. t = p[N]
  BY Zenon DEF map_cluster
<1>3. \A k \in 0..N : StepGood(m, p[k], rel, write) /\ (Done(p[k], rel, write) \/ Far(p[k]) >= k)
  BY StepsOK
<1> HIDE DEF p
<1>4. StepGood(m, t, rel, write) /\ (Done(t, rel, write) \/ Far(t) >= N)
  BY <1>1, <1>2, <1>3
<1>5. FnodeOK(t)
  BY <1>4 DEF StepGood, Gone
<1>6. ~(Far(t) >= N)
  <2>1. /\ Len(Chain(t.vol.fat, t.start)) \in Nat /\ Len(Chain(t.vol.fat, t.start)) < MaxCluster
        /\ t.cu # FREE => t.rel < Len(Chain(t.vol.fat, t.start))
    BY <1>5, FnodeLen
  <2>2. t.rel \in Nat
    BY <1>5, FnodeFacts
  <2> QED
    BY <2>1, <2>2, <1>1 DEF Far
<1> QED
  BY <1>4, <1>6

\* A cluster taken that is in no chain.
LEMMA TakenAside ==
  ASSUME NEW v \in VolOf, CountOK(v), NEW s \in Clusters \cup {FREE}, Whole(v.fat, s)
  PROVE  /\ Chain(Taken(v).fat, s) = Chain(v.fat, s) /\ Whole(Taken(v).fat, s)
         /\ Lengthened(v.fat, s, Taken(v).fat, s)
         /\ Taken(v) \in VolOf /\ CountOK(Taken(v)) /\ Taken(v).fat \in FatOf
         /\ \A y \in Clusters : Taken(v).fat[y] = v.fat[y] \/ y \in Free(v.fat)
         /\ \A y \in Clusters : Taken(v).fat[y] = FREE => v.fat[y] = FREE
         /\ \A y \in Clusters : Taken(v).fat[y] = v.fat[y] \/ Taken(v).fat[y] = LAST
<1> DEFINE g == Taken(v).fat
           f == v.fat
           x == find_fat_free(v)
<1>1. /\ Taken(v) \in VolOf /\ CountOK(Taken(v))
      /\ x # LAST => x \in Clusters /\ f[x] = FREE /\ g = [f EXCEPT ![x] = LAST]
      /\ x = LAST => g = f
  BY TakenOK
<1>2. f \in FatOf /\ g \in FatOf
  BY <1>1 DEF VolOf
<1> HIDE DEF g, f, x
<1>3. /\ \A y \in Clusters : g[y] = f[y] \/ y \in Free(f)
      /\ \A y \in Clusters : g[y] = FREE => f[y] = FREE
      /\ \A y \in Clusters : g[y] = f[y] \/ g[y] = LAST
  <2>1. CASE x = LAST
    BY <2>1, <1>1
  <2>2. CASE x # LAST
    <3>1. \A y \in Clusters : g[y] = IF y = x THEN LAST ELSE f[y]
      BY <2>2, <1>1, <1>2 DEF FatOf
    <3>2. x \in Free(f)
      BY <2>2, <1>1 DEF Free
    <3> QED
      BY <3>1, <3>2, Numbers
  <2> QED
    BY <2>1, <2>2
<1>4. /\ Len(Chain(f, s)) \in Nat
      /\ \A y \in ToSet(Chain(f, s)) : y \in Clusters /\ f[y] # FREE
  BY ChainFacts DEF f
<1>5. \A y \in ToSet(Chain(f, s)) : g[y] = f[y]
  BY <1>3, <1>4 DEF Free
<1>6. Chain(g, s) = Chain(f, s) /\ Whole(g, s)
  BY <1>5, ChainKept DEF f
<1>7. \A y \in Free(g) : y \in Free(f)
  BY <1>3 DEF Free
<1>8. Lengthened(f, s, g, s)
  BY <1>3, <1>4, <1>6, <1>7 DEF Lengthened
<1> QED
  BY <1>1, <1>2, <1>3, <1>6, <1>8 DEF f, g

\* Ended early, it is no further and the file is as good as before.
LEMMA InterruptedOK ==
  ASSUME NEW m, FnodeOK(m), NEW rel \in Nat, NEW write \in BOOLEAN,
         NEW t \in Interrupted(m, rel, write)
  PROVE  Gone(m, t, rel) /\ (write = FALSE => t.vol = m.vol /\ t.start = m.start)
<1> DEFINE p == Steps(m, rel, write)
           S == {p[k] : k \in 0..MaxCluster}
           growing == {q \in S : write /\ q.cu # FREE /\ q.rel # rel /\ q.vol.fat[q.cu] = LAST}
<1>1. t \in S \cup {[q EXCEPT !.vol = Taken(q.vol)] : q \in growing}
  BY Zenon DEF Interrupted
<1>2. \A k \in 0..MaxCluster+1 : StepGood(m, p[k], rel, write)
  BY StepsOK
<1> HIDE DEF p
<1>3. \A q \in S : StepGood(m, q, rel, write)
  <2>1. \A k \in 0..MaxCluster : k \in 0..MaxCluster+1
    BY Sizes
  <2> QED
    BY <1>2, <2>1
<1> HIDE DEF S
<1>4. CASE t \in S
  BY <1>3, <1>4 DEF StepGood
<1>5. CASE t \in {[q EXCEPT !.vol = Taken(q.vol)] : q \in growing}
  <2>1. PICK q \in growing : t = [q EXCEPT !.vol = Taken(q.vol)]
    BY <1>5, Zenon
  <2>2. q \in S /\ write = TRUE
    BY <2>1, Zenon
  <2>3. FnodeOK(q) /\ Lengthened(m.vol.fat, m.start, q.vol.fat, q.start) /\ q.rel =< rel
    BY <2>2, <1>3 DEF StepGood, Gone
  <2>4. /\ q = [vol |-> q.vol, start |-> q.start, cu |-> q.cu, rel |-> q.rel]
        /\ q.vol \in VolOf /\ CountOK(q.vol)
        /\ q.start \in Clusters \cup {FREE} /\ q.cu \in Clusters \cup {FREE}
        /\ q.rel \in Nat
        /\ Whole(q.vol.fat, q.start) /\ Placed(q.vol.fat, q.start, q.cu, q.rel)
    BY <2>3, FnodeFacts
  <2> DEFINE v == Taken(q.vol)
  <2>5. /\ Chain(v.fat, q.start) = Chain(q.vol.fat, q.start) /\ Whole(v.fat, q.start)
        /\ Lengthened(q.vol.fat, q.start, v.fat, q.start)
        /\ v \in VolOf /\ CountOK(v)
    BY <2>4, TakenAside
  <2> HIDE DEF v
  <2>6. Placed(v.fat, q.start, q.cu, q.rel)
    BY <2>4, <2>5 DEF Placed
  <2>7. FnodeOK([vol |-> v, start |-> q.start, cu |-> q.cu, rel |-> q.rel])
    BY <2>4, <2>5, <2>6, FnodeIs
  <2>8. t = [vol |-> v, start |-> q.start, cu |-> q.cu, rel |-> q.rel]
    BY <2>1, <2>4 DEF v
  <2>9. t.vol = v /\ t.start = q.start /\ t.rel = q.rel
    BY <2>8
  <2>10. Len(Chain(m.vol.fat, m.start)) \in Nat /\ Len(Chain(q.vol.fat, q.start)) \in Nat
    BY <2>3, FnodeLen
  <2>11. Lengthened(m.vol.fat, m.start, v.fat, q.start)
    BY <2>3, <2>5, <2>10, LengthenedTwice
  <2> QED
    BY <2>2, <2>3, <2>7, <2>8, <2>9, <2>11 DEF Gone
<1> QED
  BY <1>1, <1>4, <1>5

\* The chain from the cluster after the j-th on.
LEMMA RunsTail ==
  ASSUME NEW f, NEW s, NEW c, NEW n, Runs(f, s, c, n), NEW j \in 1..n
  PROVE  /\ Len(Chain(f, f[c[j]])) = n - j
         /\ \A i \in 1..n-j : Chain(f, f[c[j]])[i] = c[j+i]
<1>1. /\ n \in Nat /\ c \in [1..n -> Clusters]
      /\ \A i \in 1..n-1 : f[c[i]] = c[i+1]
      /\ n > 0 => f[c[n]] = LAST
  BY DEF Runs
<1>2. CASE j = n
  <2>1. f[c[j]] = LAST /\ LAST \notin Clusters
    BY <1>1, <1>2, Numbers
  <2>2. PICK k \in 0..MaxCluster+1 : Chain(f, LAST) \in [1..k -> Clusters] /\ (k = 0 <=> LAST \notin Clusters)
    BY ChainShape
  <2>3. Len(Chain(f, LAST)) = 0
    <3>1. k = 0 /\ k \in Nat
      BY <2>1, <2>2
    <3>2. Len(Chain(f, LAST)) = k
      BY <2>2, <3>1, ListFacts
    <3> QED
      BY <3>1, <3>2
  <2> QED
    BY <2>1, <2>3, <1>1, <1>2
<1>3. CASE j # n
  <2> DEFINE k == n - j
             q == [i \in 1..k |-> c[j+i]]
  <2>1. k \in Nat /\ k > 0 /\ j \in 1..n-1
    BY <1>1, <1>3
  <2>2. \A i \in 1..k : j + i \in 1..n
    BY <1>1
  <2>3. q \in [1..k -> Clusters]
    BY <1>1, <2>2
  <2>4. ASSUME NEW i \in 1..k-1 PROVE f[q[i]] = q[i+1]
    <3>1. i \in 1..k /\ i + 1 \in 1..k /\ j + i \in 1..n-1 /\ (j + i) + 1 = j + (i + 1)
      BY <1>1, <2>1
    <3>2. q[i] = c[j+i] /\ q[i+1] = c[j+(i+1)]
      BY <3>1
    <3>3. f[c[j+i]] = c[(j+i)+1]
      BY <3>1, <1>1
    <3> QED
      BY <3>1, <3>2, <3>3
  <2>5. f[q[k]] = LAST
    <3>1. j + k = n /\ k \in 1..k
      BY <1>1, <2>1
    <3>2. q[k] = c[n]
      BY <3>1
    <3> QED
      BY <3>2, <1>1, <2>1
  <2>6. f[c[j]] = q[1]
    <3>1. 1 \in 1..k
      BY <2>1
    <3> QED
      BY <3>1, <2>1, <1>1
  <2> HIDE DEF q, k
  <2>7. Runs(f, f[c[j]], q, k)
    <3>1. f[c[j]] = IF k = 0 THEN FREE ELSE q[1]
      BY <2>1, <2>6
    <3> QED
      BY <3>1, <2>1, <2>3, <2>4, <2>5 DEF Runs
  <2>8. Chain(f, f[c[j]]) = q /\ Len(Chain(f, f[c[j]])) = k
    BY <2>7, RunsChain, RunsWhole
  <2> QED
    BY <2>8 DEF q, k
<1> QED
  BY <1>2, <1>3

\* The beginning of a chain whose j-th entry becomes its last.
LEMMA RunsHead ==
  ASSUME NEW f, NEW s, NEW c, NEW n, Runs(f, s, c, n), NEW j \in 1..n, NEW g, g[c[j]] = LAST,
         \A i \in 1..j-1 : g[c[i]] = f[c[i]]
  PROVE  Runs(g, s, [i \in 1..j |-> c[i]], j)
<1> DEFINE q == [i \in 1..j |-> c[i]]
<1>1. /\ n \in Nat /\ c \in [1..n -> Clusters]
      /\ s = IF n = 0 THEN FREE ELSE c[1]
      /\ \A i \in 1..n-1 : f[c[i]] = c[i+1]
  BY DEF Runs
<1>2. j \in Nat /\ j > 0 /\ n > 0 /\ \A i \in 1..j : i \in 1..n
  BY <1>1
<1>3. q \in [1..j -> Clusters]
  BY <1>1, <1>2
<1>4. s = q[1]
  BY <1>1, <1>2
<1>5. ASSUME NEW i \in 1..j-1 PROVE g[q[i]] = q[i+1]
  <2>1. i \in 1..j /\ i + 1 \in 1..j /\ i \in 1..n-1
    BY <1>1
  <2> QED
    BY <2>1, <1>1
<1>6. g[q[j]] = LAST
  BY <1>2
<1> HIDE DEF q
<1>7. Runs(g, s, q, j)
  BY <1>2, <1>3, <1>4, <1>5, <1>6 DEF Runs
<1> QED
  BY <1>7 DEF q

\* shrink_file gives back clusters after the position, or all.
ShrunkTo(m, size, k, t) ==
  /\ FnodeOK(t)
  /\ Len(Chain(t.vol.fat, t.start)) = IF size = 0 THEN 0 ELSE m.rel + 1
  /\ \A y \in ToSet(Chain(t.vol.fat, t.start)) : y \in ToSet(Chain(m.vol.fat, m.start))
  /\ \A y \in Clusters : y \notin ToSet(Chain(m.vol.fat, m.start)) => t.vol.fat[y] = m.vol.fat[y]
  /\ size # 0 /\ m.vol.fat[m.cu] = LAST => t.vol.fat = m.vol.fat /\ t.start = m.start
  /\ k = Len(Chain(m.vol.fat, m.vol.fat[m.cu])) =>
       \A y \in ToSet(Chain(m.vol.fat, m.start)) :
         t.vol.fat[y] # FREE <=> y \in ToSet(Chain(t.vol.fat, t.start))

LEMMA ShrunkOK ==
  ASSUME NEW m, FnodeOK(m), m.cu # FREE, NEW size \in Nat, size = 0 => m.rel = 0,
         NEW k \in 0..Len(Chain(m.vol.fat, m.vol.fat[m.cu]))
  PROVE  ShrunkTo(m, size, k, Shrunk(m, size, k))
<1> DEFINE t == Shrunk(m, size, k)
<1>0. t = Shrunk(m, size, k)
  OBVIOUS
<1> HIDE DEF t
<1> SUFFICES
      /\ FnodeOK(t)
      /\ Len(Chain(t.vol.fat, t.start)) = IF size = 0 THEN 0 ELSE m.rel + 1
      /\ \A y \in ToSet(Chain(t.vol.fat, t.start)) : y \in ToSet(Chain(m.vol.fat, m.start))
      /\ \A y \in Clusters : y \notin ToSet(Chain(m.vol.fat, m.start)) => t.vol.fat[y] = m.vol.fat[y]
      /\ size # 0 /\ m.vol.fat[m.cu] = LAST => t.vol.fat = m.vol.fat /\ t.start = m.start
      /\ k = Len(Chain(m.vol.fat, m.vol.fat[m.cu])) =>
           \A y \in ToSet(Chain(m.vol.fat, m.start)) :
             t.vol.fat[y] # FREE <=> y \in ToSet(Chain(t.vol.fat, t.start))
  BY DEF ShrunkTo, t
<1> DEFINE f == m.vol.fat
           c == Chain(f, m.start)
           n == Len(c)
           j == m.rel + 1
           next == f[m.cu]
           S == FirstOf(f, next, k)
           cut == link_fat(m.vol, m.cu, IF size = 0 THEN FREE ELSE LAST)
           w == Wiped(cut, S)
           g == w.fat
<1>1. /\ m = [vol |-> m.vol, start |-> m.start, cu |-> m.cu, rel |-> m.rel]
      /\ m.vol \in VolOf /\ CountOK(m.vol) /\ f \in FatOf
      /\ m.start \in Clusters \cup {FREE} /\ m.cu \in Clusters \cup {FREE}
      /\ m.rel \in Nat /\ Whole(f, m.start)
  BY FnodeFacts
<1>2. Runs(f, m.start, c, n)
  BY <1>1, WholeRuns
<1>3. /\ n \in Nat /\ n < MaxCluster /\ c \in [1..n -> Clusters]
      /\ m.start = IF n = 0 THEN FREE ELSE c[1]
      /\ \A i \in 1..n-1 : f[c[i]] = c[i+1]
      /\ n > 0 => f[c[n]] = LAST
      /\ \A i, l \in 1..n : c[i] = c[l] => i = l
      /\ ToSet(c) = {c[i] : i \in 1..n}
      /\ \A x \in ToSet(c) : x \in Clusters /\ f[x] # FREE
  BY <1>1, ChainFacts
<1>4. m.rel < n /\ m.cu = c[j]
  BY FnodeLen
<1>5. k \in 0..Len(Chain(f, next))
  OBVIOUS
<1>6. FREE \notin Clusters /\ LAST \notin Clusters /\ FREE # LAST
  BY Numbers
<1>7. m.cu \in Clusters
  BY <1>1
<1>8. cut \in VolOf /\ CountOK(cut) /\ cut.fat = [f EXCEPT ![m.cu] = IF size = 0 THEN FREE ELSE LAST]
  <2>1. (IF size = 0 THEN FREE ELSE LAST) \in Clusters \cup {FREE, LAST}
    OBVIOUS
  <2> QED
    BY <2>1, <1>1, <1>7, LinkOK
<1> HIDE DEF c, n, f, cut, w, g, S
<1>9. j \in 1..n /\ j \in Nat
  BY <1>1, <1>3, <1>4
<1>10. Len(Chain(f, next)) = n - j /\ \A i \in 1..n-j : Chain(f, next)[i] = c[j+i]
  <2>1. next = f[c[j]]
    BY <1>4
  <2>2. Len(Chain(f, f[c[j]])) = n - j /\ \A i \in 1..n-j : Chain(f, f[c[j]])[i] = c[j+i]
    BY <1>2, <1>9, RunsTail
  <2> QED
    BY <2>1, <2>2
<1> HIDE DEF next, j
<1>11. k \in 0..n-j /\ k \in Nat
  BY <1>5, <1>10
<1>12. S = {c[j+i] : i \in 1..k}
  <2>1. S = {Chain(f, next)[i] : i \in 1..k}
    BY Zenon DEF S, FirstOf
  <2>2. \A i \in 1..k : Chain(f, next)[i] = c[j+i]
    <3>1. \A i \in 1..k : i \in 1..n-j
      BY <1>3, <1>9, <1>11
    <3> QED
      BY <3>1, <1>10
  <2> QED
    BY <2>1, <2>2
<1>13. ASSUME NEW i \in 1..k PROVE j + i \in 1..n /\ j + i # j /\ c[j+i] # c[j] /\ c[j+i] \in Clusters /\ c[j+i] \in ToSet(c)
  <2>1. j + i \in 1..n /\ j + i # j
    BY <1>3, <1>9, <1>11
  <2>2. c[j+i] # c[j]
    BY <2>1, <1>9, <1>3
  <2>3. c[j+i] \in ToSet(c)
    BY <2>1, <1>3
  <2> QED
    BY <2>1, <2>2, <2>3, <1>3
<1>14. S \subseteq Clusters /\ S \subseteq ToSet(c) /\ m.cu \notin S
  BY <1>12, <1>13, <1>4
<1>15. \A y \in Clusters : cut.fat[y] = IF y = m.cu THEN (IF size = 0 THEN FREE ELSE LAST) ELSE f[y]
  BY <1>8, <1>1, <1>7 DEF FatOf
<1>16. \A y \in S : cut.fat[y] # FREE
  BY <1>14, <1>15, <1>3
<1>17. w \in VolOf /\ CountOK(w) /\ g = [y \in Clusters |-> IF y \in S THEN FREE ELSE cut.fat[y]]
  BY <1>8, <1>14, <1>16, WipedOK DEF w, g
<1>18. \A y \in Clusters : g[y] = IF y \in S THEN FREE ELSE IF y = m.cu THEN (IF size = 0 THEN FREE ELSE LAST) ELSE f[y]
  BY <1>15, <1>17
<1>19. \A y \in Clusters : y \notin ToSet(c) => g[y] = f[y]
  <2>1. m.cu \in ToSet(c)
    BY <1>3, <1>4, <1>9 DEF j
  <2> QED
    BY <2>1, <1>14, <1>18
<1>20. CASE size = 0
  <2>1. t = [m EXCEPT !.vol = w, !.start = FREE, !.cu = FREE]
    BY <1>0, <1>20, Zenon DEF Shrunk, w, cut, S, next, f
  <2>2. t = [vol |-> w, start |-> FREE, cu |-> FREE, rel |-> 0]
    BY <2>1, <1>1, <1>20
  <2>3. Chain(g, FREE) = <<>> /\ Whole(g, FREE) /\ ToSet(Chain(g, FREE)) = {}
    BY NoChain
  <2>4. Placed(g, FREE, FREE, 0)
    BY <2>3 DEF Placed
  <2>5. FnodeOK([vol |-> w, start |-> FREE, cu |-> FREE, rel |-> 0])
    <3>1. Whole(w.fat, FREE) /\ Placed(w.fat, FREE, FREE, 0) /\ FREE \in Clusters \cup {FREE} /\ 0 \in Nat
      BY <2>3, <2>4 DEF g
    <3> QED
      BY <3>1, <1>17, FnodeIs
  <2>6. t.vol.fat = g /\ t.start = FREE
    BY <2>2 DEF g
  <2>7. Len(Chain(g, FREE)) = 0
    BY <2>3
  <2>8. ASSUME k = Len(Chain(f, next)), NEW y \in ToSet(c) PROVE g[y] = FREE
    <3>1. j = 1 /\ k = n - j
      BY <2>8, <1>10, <1>20 DEF j
    <3>2. PICK i \in 1..n : y = c[i]
      BY <1>3
    <3>3. CASE i = 1
      BY <3>1, <3>2, <3>3, <1>4, <1>18, <1>20, <1>7 DEF j
    <3>4. CASE i # 1
      <4>1. i - 1 \in 1..k /\ j + (i - 1) = i
        BY <3>1, <3>4, <1>3
      <4>2. y \in S
        BY <4>1, <3>2, <1>12
      <4> QED
        BY <4>2, <1>14, <1>18
    <3> QED
      BY <3>3, <3>4
  <2> QED
    BY <2>2, <2>3, <2>5, <2>6, <2>7, <2>8, <1>19, <1>20 DEF c, f, next
<1>21. CASE size # 0
  <2> DEFINE q == [i \in 1..j |-> c[i]]
  <2>1. t = [m EXCEPT !.vol = w]
    BY <1>0, <1>21, Zenon DEF Shrunk, w, cut, S, next, f
  <2>2. t = [vol |-> w, start |-> m.start, cu |-> m.cu, rel |-> m.rel]
    BY <2>1, <1>1
  <2>3. g[c[j]] = LAST
    BY <1>4, <1>7, <1>14, <1>18, <1>21 DEF j
  <2>4. ASSUME NEW i \in 1..j-1 PROVE g[c[i]] = f[c[i]]
    <3>1. i \in 1..n /\ i # j
      BY <1>3, <1>9
    <3>2. c[i] \in Clusters /\ c[i] # c[j]
      BY <3>1, <1>3, <1>9
    <3>3. c[i] \notin S
      <4> SUFFICES ASSUME NEW l \in 1..k, c[i] = c[j+l] PROVE FALSE
        BY <1>12
      <4>1. j + l \in 1..n
        BY <1>13
      <4>2. i = j + l
        BY <4>1, <3>1, <1>3
      <4> QED
        BY <4>2, <1>9, <1>11
    <3> QED
      BY <3>2, <3>3, <1>18, <1>4 DEF j
  <2>5. Runs(g, m.start, q, j)
    BY <1>2, <1>9, <2>3, <2>4, RunsHead
  <2>6. /\ Chain(g, m.start) = q /\ Whole(g, m.start) /\ Len(Chain(g, m.start)) = j
        /\ ToSet(Chain(g, m.start)) = {q[i] : i \in 1..j}
    BY <2>5, RunsChain, RunsWhole
  <2>7. q[j] = m.cu /\ \A i \in 1..j : i \in 1..n /\ q[i] = c[i]
    BY <1>4, <1>9, <1>3 DEF j
  <2> HIDE DEF q
  <2>8. Placed(g, m.start, m.cu, m.rel)
    <3>1. m.rel < Len(Chain(g, m.start)) /\ m.cu = Chain(g, m.start)[m.rel + 1]
      BY <2>6, <2>7, <1>1 DEF j
    <3> QED
      BY <3>1 DEF Placed
  <2>9. FnodeOK([vol |-> w, start |-> m.start, cu |-> m.cu, rel |-> m.rel])
    <3>1. Whole(w.fat, m.start) /\ Placed(w.fat, m.start, m.cu, m.rel)
      BY <2>6, <2>8 DEF g
    <3> QED
      BY <3>1, <1>1, <1>17, FnodeIs
  <2>10. t.vol.fat = g /\ t.start = m.start
    BY <2>2 DEF g
  <2>11. \A y \in ToSet(Chain(g, m.start)) : y \in ToSet(c)
    BY <2>6, <2>7, <1>3
  <2>12. ASSUME f[m.cu] = LAST PROVE g = f
    <3>1. j = n
      <4>1. CASE j = n
        BY <4>1
      <4>2. CASE j # n
        <5>1. j \in 1..n-1 /\ j + 1 \in 1..n
          BY <4>2, <1>9, <1>3
        <5>2. f[c[j]] \in Clusters
          BY <5>1, <1>3
        <5> QED
          BY <5>2, <2>12, <1>4, <1>6 DEF j
      <4> QED
        BY <4>1, <4>2
    <3>2. S = {}
      BY <3>1, <1>11, <1>12, <1>3
    <3>3. \A y \in Clusters : g[y] = f[y]
      BY <3>2, <2>12, <1>18, <1>21
    <3> QED
      BY <3>3, <1>1, <1>17 DEF FatOf
  <2>13. ASSUME k = Len(Chain(f, next)), NEW y \in ToSet(c)
         PROVE  g[y] # FREE <=> y \in ToSet(Chain(g, m.start))
    <3>1. k = n - j
      BY <2>13, <1>10
    <3>2. PICK i \in 1..n : y = c[i]
      BY <1>3
    <3>3. CASE i =< j
      <4>1. i \in 1..j
        BY <3>3, <1>9
      <4>2. y \in ToSet(Chain(g, m.start))
        BY <4>1, <3>2, <2>6, <2>7
      <4>3. g[y] # FREE
        <5>1. Whole(g, m.start)
          BY <2>6
        <5>2. \A x \in ToSet(Chain(g, m.start)) : g[x] # FREE
          BY <5>1, <1>1, ChainFacts
        <5> QED
          BY <5>2, <4>2
      <4> QED
        BY <4>2, <4>3
    <3>4. CASE j < i
      <4>1. i - j \in 1..k /\ j + (i - j) = i
        BY <3>1, <3>4, <1>3, <1>9
      <4>2. y \in S
        BY <4>1, <3>2, <1>12
      <4>3. g[y] = FREE
        BY <4>2, <1>14, <1>18
      <4>4. y \notin ToSet(Chain(g, m.start))
        <5>1. Whole(g, m.start)
          BY <2>6
        <5>2. \A x \in ToSet(Chain(g, m.start)) : g[x] # FREE
          BY <5>1, <1>1, ChainFacts
        <5> QED
          BY <5>2, <4>3
      <4> QED
        BY <4>3, <4>4
    <3> QED
      BY <3>3, <3>4, <1>9, <1>3
  <2> QED
    BY <2>2, <2>6, <2>9, <2>10, <2>11, <2>12, <2>13, <1>19, <1>21 DEF c, f, next, j
<1> QED
  BY <1>20, <1>21

-----------------------------------------------------------------------------
(* The volume: entries d, open files s.                                    *)

DirOf == [Locs -> Entries]
SftOf == [loc : Locs \cup {<<>>}, start : Clusters \cup {FREE}, size : 0..MaxSize,
          pos : 0..MaxSize, cu : Clusters \cup {FREE}, rel : 0..MaxCluster, clean : BOOLEAN]
SftsOf == [Sfts -> SftOf]

At(s, l) == {i \in Sfts : s[i].loc = l}
StartIn(d, s, l) == IF At(s, l) = {} THEN d[l].start ELSE s[Max(At(s, l))].start
SizeIn(d, s, l) == IF At(s, l) = {} THEN d[l].size ELSE s[Max(At(s, l))].size
St(d, s) == [l \in Locs |-> StartIn(d, s, l)]
Sz(d, s) == [l \in Locs |-> SizeIn(d, s, l)]

\* Files D that start at st and have sizes sz have chains of their own, long
\* enough.
VolFit(f, D, st, sz) ==
  /\ \A k \in D : Whole(f, st[k]) /\ sz[k] =< Room(f, st[k])
  /\ \A k, l \in D : \A x \in Clusters :
       x \in ToSet(Chain(f, st[k])) /\ x \in ToSet(Chain(f, st[l])) => k = l

\* An open file is one of an entry, it is open once, and its entry is what the
\* SFT says unless that was changed.
SftsOK(d, s) ==
  /\ \A i \in Sfts : s[i] # Closed =>
       /\ s[i].loc \in Files(d) /\ ~d[s[i].loc].isdir
       /\ s[i].clean => d[s[i].loc].start = s[i].start /\ d[s[i].loc].size = s[i].size
  /\ \A i, j \in Sfts : s[i].loc = s[j].loc /\ s[i] # Closed => i = j

Cached(f, s) == \A i \in Sfts : s[i] # Closed => Placed(f, s[i].start, s[i].cu, s[i].rel)

FilesOK(f, d, s) ==
  SftsOK(d, s) /\ VolFit(f, Files(d), St(d, s), Sz(d, s)) /\ Cached(f, s)

\* Where at most one file changes and the others K are kept, all fits.
Refits(f, D, st, sz, g, D2, st2, sz2, K) ==
  /\ VolFit(f, D, st, sz) /\ K \subseteq D /\ K \subseteq D2
  /\ \A k \in D : st[k] \in Clusters \cup {FREE}
  /\ \A k \in D2 : st2[k] \in Clusters \cup {FREE}
  /\ \A k \in K : st2[k] = st[k] /\ sz2[k] = sz[k]
  /\ \A k \in K : \A x \in ToSet(Chain(f, st[k])) : g[x] = f[x]
  /\ \A k \in D2 \ K : Whole(g, st2[k]) /\ sz2[k] =< Room(g, st2[k])
  /\ \A k \in D2 \ K, l \in K : \A x \in ToSet(Chain(g, st2[k])) : x \notin ToSet(Chain(f, st[l]))
  /\ \A k, l \in D2 \ K : k = l

LEMMA Refit ==
  ASSUME NEW f, NEW D, NEW st, NEW sz, NEW g, NEW D2, NEW st2, NEW sz2, NEW K,
         Refits(f, D, st, sz, g, D2, st2, sz2, K)
  PROVE  /\ VolFit(g, D2, st2, sz2)
         /\ \A k \in K : Chain(g, st2[k]) = Chain(f, st[k])
<1>0. /\ VolFit(f, D, st, sz) /\ K \subseteq D /\ K \subseteq D2
      /\ \A k \in D : st[k] \in Clusters \cup {FREE}
      /\ \A k \in D2 : st2[k] \in Clusters \cup {FREE}
      /\ \A k \in K : st2[k] = st[k] /\ sz2[k] = sz[k]
      /\ \A k \in K : \A x \in ToSet(Chain(f, st[k])) : g[x] = f[x]
      /\ \A k \in D2 \ K : Whole(g, st2[k]) /\ sz2[k] =< Room(g, st2[k])
      /\ \A k \in D2 \ K, l \in K : \A x \in ToSet(Chain(g, st2[k])) : x \notin ToSet(Chain(f, st[l]))
      /\ \A k, l \in D2 \ K : k = l
  BY DEF Refits
<1>1. ASSUME NEW k \in K
      PROVE  /\ Chain(g, st2[k]) = Chain(f, st[k]) /\ Whole(g, st2[k])
             /\ sz2[k] =< Room(g, st2[k])
  <2>1. k \in D /\ st[k] \in Clusters \cup {FREE} /\ st2[k] = st[k] /\ sz2[k] = sz[k]
    BY <1>0
  <2>2. Whole(f, st[k]) /\ sz[k] =< Room(f, st[k])
    BY <1>0, <2>1 DEF VolFit
  <2>3. \A x \in ToSet(Chain(f, st[k])) : g[x] = f[x]
    BY <1>0
  <2>4. Chain(g, st[k]) = Chain(f, st[k]) /\ Whole(g, st[k])
    BY <2>1, <2>2, <2>3, ChainKept
  <2>5. Room(g, st[k]) = Room(f, st[k])
    BY <2>4 DEF Room
  <2> QED
    BY <2>1, <2>2, <2>4, <2>5
<1>2. \A k \in D2 : Whole(g, st2[k]) /\ sz2[k] =< Room(g, st2[k])
  BY <1>0, <1>1
<1>3. ASSUME NEW k \in D2, NEW l \in D2, NEW x \in Clusters,
             x \in ToSet(Chain(g, st2[k])), x \in ToSet(Chain(g, st2[l]))
      PROVE  k = l
  <2>1. CASE k \in K /\ l \in K
    <3>1. x \in ToSet(Chain(f, st[k])) /\ x \in ToSet(Chain(f, st[l])) /\ k \in D /\ l \in D
      BY <1>0, <1>1, <1>3, <2>1
    <3> QED
      BY <1>0, <3>1 DEF VolFit
  <2>2. CASE k \in K /\ l \notin K
    <3>1. x \in ToSet(Chain(f, st[k]))
      BY <1>0, <1>1, <1>3, <2>2
    <3> QED
      BY <1>0, <3>1, <1>3, <2>2
  <2>3. CASE k \notin K /\ l \in K
    <3>1. x \in ToSet(Chain(f, st[l]))
      BY <1>0, <1>1, <1>3, <2>3
    <3> QED
      BY <1>0, <3>1, <1>3, <2>3
  <2>4. CASE k \notin K /\ l \notin K
    BY <1>0, <2>4
  <2> QED
    BY <2>1, <2>2, <2>3, <2>4
<1> QED
  BY <1>1, <1>2, <1>3 DEF VolFit

LEMMA MaxOne ==
  ASSUME NEW i \in Nat
  PROVE  Max({i}) = i
<1>1. Max({i}) \in {i} /\ \A y \in {i} : Max({i}) >= y
  <2>1. \E x \in {i} : \A y \in {i} : x >= y
    OBVIOUS
  <2> QED
    BY <2>1, Zenon DEF Max
<1> QED
  BY <1>1

\* The one SFT of an open file says where it starts and its size.
LEMMA OpenIs ==
  ASSUME NEW d, NEW s, SftsOK(d, s), NEW i \in Sfts, s[i] # Closed
  PROVE  /\ At(s, s[i].loc) = {i} /\ s[i].loc \in Files(d) /\ s[i].loc \in Locs
         /\ St(d, s)[s[i].loc] = s[i].start /\ Sz(d, s)[s[i].loc] = s[i].size
<1>1. s[i].loc \in Files(d) /\ \A j \in Sfts : s[i].loc = s[j].loc => i = j
  BY DEF SftsOK
<1>2. At(s, s[i].loc) = {i}
  BY <1>1 DEF At
<1>3. Max({i}) = i
  BY MaxOne DEF Sfts
<1>4. s[i].loc \in Locs
  BY <1>1 DEF Files
<1> QED
  BY <1>1, <1>2, <1>3, <1>4 DEF St, Sz, StartIn, SizeIn

LEMMA ClosedLoc ==
  <<>> \notin Locs /\ Closed.loc = <<>> /\ Closed \in SftOf
<1>1. <<>> \notin Locs
  BY DEF Locs
<1>2. Closed.loc = <<>>
  BY DEF Closed
<1>3. Closed \in SftOf
  BY Sizes DEF Closed, SftOf
<1> QED
  BY <1>1, <1>2, <1>3

\* An entry is open nowhere, or in one SFT.
LEMMA OpenOrNot ==
  ASSUME NEW d, NEW s, SftsOK(d, s), NEW k \in Locs
  PROVE  \/ At(s, k) = {} /\ St(d, s)[k] = d[k].start /\ Sz(d, s)[k] = d[k].size
         \/ \E j \in Sfts : /\ s[j] # Closed /\ s[j].loc = k /\ At(s, k) = {j}
                            /\ St(d, s)[k] = s[j].start /\ Sz(d, s)[k] = s[j].size
<1>1. CASE At(s, k) = {}
  BY <1>1 DEF St, Sz, StartIn, SizeIn
<1>2. CASE At(s, k) # {}
  <2>1. PICK j \in Sfts : s[j].loc = k
    BY <1>2 DEF At
  <2>2. s[j] # Closed
    BY <2>1, ClosedLoc
  <2>3. /\ At(s, s[j].loc) = {j}
        /\ St(d, s)[s[j].loc] = s[j].start /\ Sz(d, s)[s[j].loc] = s[j].size
    BY <2>2, OpenIs
  <2> QED
    BY <2>1, <2>2, <2>3
<1> QED
  BY <1>1, <1>2

LEMMA StTypes ==
  ASSUME NEW d \in DirOf, NEW s \in SftsOf, SftsOK(d, s), NEW k \in Locs
  PROVE  St(d, s)[k] \in Clusters \cup {FREE} /\ Sz(d, s)[k] \in Nat /\ Sz(d, s)[k] \in 0..MaxSize
<1>1. d[k].start \in Clusters \cup {FREE} /\ d[k].size \in 0..MaxSize
  BY DEF DirOf, Entries
<1>2. \A j \in Sfts : s[j].start \in Clusters \cup {FREE} /\ s[j].size \in 0..MaxSize
  BY DEF SftsOf, SftOf
<1>3. \A x \in 0..MaxSize : x \in Nat
  BY Sizes
<1> QED
  BY <1>1, <1>2, <1>3, OpenOrNot

\* The SFT of an open file changes.
With(s, i, r) == [s EXCEPT ![i] = r]

NewSft(d, s, i, r) ==
  /\ d \in DirOf /\ s \in SftsOf /\ SftsOK(d, s) /\ i \in Sfts /\ s[i] # Closed
  /\ r \in SftOf /\ r.loc = s[i].loc
  /\ r.clean => s[i].clean /\ r.start = s[i].start /\ r.size = s[i].size

LEMMA SftChanged ==
  ASSUME NEW d, NEW s, NEW i, NEW r, NewSft(d, s, i, r)
  PROVE  /\ With(s, i, r) \in SftsOf /\ SftsOK(d, With(s, i, r)) /\ r # Closed
         /\ \A k \in Locs :
              /\ St(d, With(s, i, r))[k] = IF k = s[i].loc THEN r.start ELSE St(d, s)[k]
              /\ Sz(d, With(s, i, r))[k] = IF k = s[i].loc THEN r.size ELSE Sz(d, s)[k]
<1> /\ d \in DirOf /\ s \in SftsOf /\ SftsOK(d, s) /\ i \in Sfts /\ s[i] # Closed
    /\ r \in SftOf /\ r.loc = s[i].loc
    /\ r.clean => s[i].clean /\ r.start = s[i].start /\ r.size = s[i].size
  BY DEF NewSft
<1> DEFINE s2 == With(s, i, r)
<1>0. s2 = [s EXCEPT ![i] = r]
  BY DEF With
<1> HIDE DEF s2
<1>1. s2 \in SftsOf /\ s2[i] = r /\ \A j \in Sfts : j # i => s2[j] = s[j]
  BY <1>0 DEF SftsOf
<1>2. s[i].loc \in Files(d) /\ s[i].loc \in Locs
  BY OpenIs
<1>3. r # Closed
  BY <1>2, ClosedLoc
<1>4. SftsOK(d, s2)
  <2>1. \A j \in Sfts : s2[j] # Closed =>
          /\ s2[j].loc \in Files(d) /\ ~d[s2[j].loc].isdir
          /\ s2[j].clean => d[s2[j].loc].start = s2[j].start /\ d[s2[j].loc].size = s2[j].size
    BY <1>1 DEF SftsOK
  <2>2. ASSUME NEW j \in Sfts, NEW k \in Sfts, s2[j].loc = s2[k].loc, s2[j] # Closed PROVE j = k
    <3>1. s2[j].loc = s[j].loc /\ s2[k].loc = s[k].loc
      BY <1>1
    <3>2. s[j] # Closed
      BY <1>1, <2>2
    <3> QED
      BY <3>1, <3>2, <2>2 DEF SftsOK
  <2> QED
    BY <2>1, <2>2 DEF SftsOK
<1>5. ASSUME NEW k \in Locs
      PROVE  /\ St(d, s2)[k] = IF k = s[i].loc THEN r.start ELSE St(d, s)[k]
             /\ Sz(d, s2)[k] = IF k = s[i].loc THEN r.size ELSE Sz(d, s)[k]
  <2>1. CASE k = s[i].loc
    <3>1. s2[i] # Closed
      BY <1>1, <1>3
    <3>2. St(d, s2)[s2[i].loc] = s2[i].start /\ Sz(d, s2)[s2[i].loc] = s2[i].size
      BY ONLY <3>1, <1>4, i \in Sfts, OpenIs
    <3> QED
      BY <3>2, <1>1, <2>1
  <2>2. CASE k # s[i].loc
    <3>1. At(s2, k) = At(s, k)
      BY <2>2, <1>1 DEF At
    <3>2. CASE At(s, k) = {}
      BY <3>1, <3>2, <2>2 DEF St, Sz, StartIn, SizeIn
    <3>3. CASE At(s, k) # {}
      <4>1. PICK j \in Sfts : /\ s[j] # Closed /\ s[j].loc = k
                              /\ St(d, s)[k] = s[j].start /\ Sz(d, s)[k] = s[j].size
        BY <3>3, OpenOrNot
      <4>2. s2[j] = s[j]
        BY <4>1, <2>2, <1>1
      <4>3. s2[j] # Closed
        BY <4>1, <4>2
      <4>4. St(d, s2)[s2[j].loc] = s2[j].start /\ Sz(d, s2)[s2[j].loc] = s2[j].size
        BY ONLY <4>3, <1>4, j \in Sfts, OpenIs
      <4> QED
        BY <4>1, <4>2, <4>4, <2>2
    <3> QED
      BY <3>2, <3>3
  <2> QED
    BY <2>1, <2>2
<1> QED
  BY <1>1, <1>3, <1>4, <1>5 DEF s2

\* Cached positions of files that are kept.
LEMMA CachedKept ==
  ASSUME NEW f, NEW g, NEW a, Chain(g, a.start) = Chain(f, a.start), Placed(f, a.start, a.cu, a.rel)
  PROVE  Placed(g, a.start, a.cu, a.rel)
  BY DEF Placed

\* One file changes, or goes from l to n: its chain is made of its own and of
\* free clusters, and no other file notices.
Changes(f, d, s, g, d2, s2, l, n) ==
  /\ d \in DirOf /\ s \in SftsOf /\ d2 \in DirOf /\ s2 \in SftsOf
  /\ FilesOK(f, d, s) /\ SftsOK(d2, s2) /\ Files(d2) \ {n} = Files(d) \ {l}
  /\ \A k \in Files(d) \ {l} : St(d2, s2)[k] = St(d, s)[k] /\ Sz(d2, s2)[k] = Sz(d, s)[k]
  /\ \A x \in Clusters : g[x] = f[x] \/ f[x] = FREE \/ (l \in Files(d) /\ x \in ToSet(Chain(f, St(d, s)[l])))
  /\ n \in Files(d2) =>
       /\ Whole(g, St(d2, s2)[n]) /\ Sz(d2, s2)[n] =< Room(g, St(d2, s2)[n])
       /\ \A x \in ToSet(Chain(g, St(d2, s2)[n])) :
            f[x] = FREE \/ (l \in Files(d) /\ x \in ToSet(Chain(f, St(d, s)[l])))
  /\ \A j \in Sfts : s2[j] # Closed =>
       \/ Placed(g, s2[j].start, s2[j].cu, s2[j].rel)
       \/ s2[j] = s[j] /\ s[j].loc # l

LEMMA OneFile ==
  ASSUME NEW f, NEW d, NEW s, NEW g, NEW d2, NEW s2, NEW l, NEW n, Changes(f, d, s, g, d2, s2, l, n)
  PROVE  /\ FilesOK(g, d2, s2)
         /\ \A k \in Files(d) \ {l} : /\ Chain(g, St(d2, s2)[k]) = Chain(f, St(d, s)[k])
                                    /\ \A x \in ToSet(Chain(f, St(d, s)[k])) : g[x] = f[x]
<1> DEFINE st == St(d, s)
           sz == Sz(d, s)
           st2 == St(d2, s2)
           sz2 == Sz(d2, s2)
           D == Files(d)
           D2 == Files(d2)
           K == D \ {l}
<1>1. /\ d \in DirOf /\ s \in SftsOf /\ d2 \in DirOf /\ s2 \in SftsOf
      /\ FilesOK(f, d, s) /\ SftsOK(d2, s2) /\ D2 \ {n} = K
      /\ \A k \in K : st2[k] = st[k] /\ sz2[k] = sz[k]
      /\ \A x \in Clusters : g[x] = f[x] \/ f[x] = FREE \/ (l \in D /\ x \in ToSet(Chain(f, st[l])))
      /\ n \in D2 =>
           /\ Whole(g, st2[n]) /\ sz2[n] =< Room(g, st2[n])
           /\ \A x \in ToSet(Chain(g, st2[n])) :
                f[x] = FREE \/ (l \in D /\ x \in ToSet(Chain(f, st[l])))
      /\ \A j \in Sfts : s2[j] # Closed =>
           Placed(g, s2[j].start, s2[j].cu, s2[j].rel) \/ (s2[j] = s[j] /\ s[j].loc # l)
  BY DEF Changes
<1>2. SftsOK(d, s) /\ VolFit(f, D, st, sz) /\ Cached(f, s)
  BY <1>1 DEF FilesOK
<1>3. D \subseteq Locs /\ D2 \subseteq Locs
  BY DEF Files
<1>4. /\ \A k \in D : st[k] \in Clusters \cup {FREE}
      /\ \A k \in D2 : st2[k] \in Clusters \cup {FREE}
  BY <1>1, <1>2, <1>3, StTypes
<1>5. \A j \in Sfts : s[j] # Closed => st[s[j].loc] = s[j].start /\ s[j].loc \in D
  BY <1>2, OpenIs
<1> HIDE DEF st, sz, st2, sz2, D, D2
<1>6. ASSUME NEW k \in K, NEW x \in ToSet(Chain(f, st[k]))
      PROVE  g[x] = f[x] /\ f[x] # FREE /\ (l \in D => x \notin ToSet(Chain(f, st[l])))
  <2>1. Whole(f, st[k]) /\ st[k] \in Clusters \cup {FREE} /\ k \in D /\ k # l
    BY <1>2, <1>4 DEF VolFit
  <2>2. x \in Clusters /\ f[x] # FREE
    BY <2>1, ChainFacts
  <2>3. l \in D => x \notin ToSet(Chain(f, st[l]))
    BY <2>1, <2>2, <1>2 DEF VolFit
  <2> QED
    BY <2>2, <2>3, <1>1
<1>7. VolFit(g, D2, st2, sz2) /\ \A k \in K : Chain(g, st2[k]) = Chain(f, st[k])
  <2>1. K \subseteq D /\ K \subseteq D2 /\ \A k \in D2 \ K : k = n
    BY <1>1
  <2>2. \A k \in K : \A x \in ToSet(Chain(f, st[k])) : g[x] = f[x]
    BY <1>6
  <2>3. \A k \in K : st2[k] = st[k] /\ sz2[k] = sz[k]
    BY <1>1
  <2>4. \A k \in D2 \ K : Whole(g, st2[k]) /\ sz2[k] =< Room(g, st2[k])
    BY <2>1, <1>1
  <2>5. \A k \in D2 \ K, j \in K : \A x \in ToSet(Chain(g, st2[k])) : x \notin ToSet(Chain(f, st[j]))
    BY <2>1, <1>1, <1>6
  <2>6. \A k, j \in D2 \ K : k = j
    BY <2>1
  <2> HIDE DEF K
  <2>7. Refits(f, D, st, sz, g, D2, st2, sz2, K)
    BY <1>2, <1>4, <2>1, <2>2, <2>3, <2>4, <2>5, <2>6 DEF Refits
  <2> QED
    BY <2>7, Refit
<1>8. Cached(g, s2)
  <2> SUFFICES ASSUME NEW j \in Sfts, s2[j] # Closed PROVE Placed(g, s2[j].start, s2[j].cu, s2[j].rel)
    BY DEF Cached
  <2>1. CASE s2[j] = s[j] /\ s[j].loc # l
    <3>1. s[j].loc \in K /\ st[s[j].loc] = s[j].start
      BY <2>1, <1>5
    <3>2. Chain(g, s[j].start) = Chain(f, s[j].start)
      BY <3>1, <1>1, <1>7
    <3>3. Placed(f, s[j].start, s[j].cu, s[j].rel)
      BY <2>1, <1>2 DEF Cached
    <3> QED
      BY <2>1, <3>2, <3>3, CachedKept
  <2> QED
    BY <2>1, <1>1
<1>9. FilesOK(g, d2, s2)
  BY <1>1, <1>7, <1>8 DEF FilesOK, D2, st2, sz2
<1>10. \A k \in K : /\ Chain(g, st2[k]) = Chain(f, st[k])
                    /\ \A x \in ToSet(Chain(f, st[k])) : g[x] = f[x]
  BY <1>6, <1>7
<1> QED
  BY <1>9, <1>10 DEF D, st, st2

\* Where an entry and what the SFTs say of it are not changed.
LEMMA StKept ==
  ASSUME NEW d, NEW s, SftsOK(d, s), NEW d2, NEW s2, NEW k \in Locs, At(s2, k) = At(s, k),
         \A j \in At(s, k) : s2[j].start = s[j].start /\ s2[j].size = s[j].size,
         d2[k].start = d[k].start /\ d2[k].size = d[k].size
  PROVE  St(d2, s2)[k] = St(d, s)[k] /\ Sz(d2, s2)[k] = Sz(d, s)[k]
<1>1. CASE At(s, k) = {}
  BY <1>1 DEF St, Sz, StartIn, SizeIn
<1>2. CASE At(s, k) # {}
  <2>1. PICK j \in Sfts : At(s, k) = {j}
    BY <1>2, OpenOrNot
  <2>2. Max({j}) = j
    BY <2>1, MaxOne DEF Sfts
  <2>3. s2[j].start = s[j].start /\ s2[j].size = s[j].size
    BY <2>1
  <2>4. At(s2, k) = {j}
    BY <2>1
  <2> QED
    BY <2>1, <2>2, <2>3, <2>4 DEF St, Sz, StartIn, SizeIn
<1> QED
  BY <1>1, <1>2
\* A step of an open file: its chain is made of its own and of free clusters.
FileSteps(f, d, s, i, r, g) ==
  /\ FilesOK(f, d, s) /\ NewSft(d, s, i, r)
  /\ Whole(g, r.start) /\ Placed(g, r.start, r.cu, r.rel) /\ r.size =< Room(g, r.start)
  /\ \A x \in ToSet(Chain(g, r.start)) : x \in ToSet(Chain(f, s[i].start)) \/ f[x] = FREE
  /\ \A x \in Clusters : g[x] = f[x] \/ f[x] = FREE \/ x \in ToSet(Chain(f, s[i].start))

LEMMA FileStep ==
  ASSUME NEW f, NEW d, NEW s, NEW i, NEW r, NEW g, FileSteps(f, d, s, i, r, g)
  PROVE  /\ With(s, i, r) \in SftsOf /\ FilesOK(g, d, With(s, i, r))
         /\ \A k \in Files(d) : k # s[i].loc =>
              /\ Chain(g, St(d, With(s, i, r))[k]) = Chain(f, St(d, s)[k])
              /\ \A x \in ToSet(Chain(f, St(d, s)[k])) : g[x] = f[x]
         /\ \A k \in Locs :
              /\ St(d, With(s, i, r))[k] = IF k = s[i].loc THEN r.start ELSE St(d, s)[k]
              /\ Sz(d, With(s, i, r))[k] = IF k = s[i].loc THEN r.size ELSE Sz(d, s)[k]
<1> DEFINE l == s[i].loc
           s2 == With(s, i, r)
<1>1. /\ FilesOK(f, d, s) /\ NewSft(d, s, i, r)
      /\ Whole(g, r.start) /\ Placed(g, r.start, r.cu, r.rel) /\ r.size =< Room(g, r.start)
      /\ \A x \in ToSet(Chain(g, r.start)) : x \in ToSet(Chain(f, s[i].start)) \/ f[x] = FREE
      /\ \A x \in Clusters : g[x] = f[x] \/ f[x] = FREE \/ x \in ToSet(Chain(f, s[i].start))
  BY DEF FileSteps
<1>2. /\ s2 \in SftsOf /\ SftsOK(d, s2) /\ r # Closed
      /\ \A k \in Locs : /\ St(d, s2)[k] = IF k = l THEN r.start ELSE St(d, s)[k]
                         /\ Sz(d, s2)[k] = IF k = l THEN r.size ELSE Sz(d, s)[k]
  BY <1>1, SftChanged
<1>3. d \in DirOf /\ s \in SftsOf /\ SftsOK(d, s) /\ i \in Sfts /\ s[i] # Closed
  BY <1>1 DEF NewSft
<1>4. l \in Files(d) /\ l \in Locs /\ St(d, s)[l] = s[i].start
  BY <1>3, OpenIs
<1>5. Files(d) \subseteq Locs
  BY DEF Files
<1>6. \A k \in Files(d) \ {l} : St(d, s2)[k] = St(d, s)[k] /\ Sz(d, s2)[k] = Sz(d, s)[k]
  BY <1>2, <1>5
<1>7. St(d, s2)[l] = r.start /\ Sz(d, s2)[l] = r.size
  BY <1>2, <1>4
<1>8. \A j \in Sfts : s2[j] # Closed =>
        \/ Placed(g, s2[j].start, s2[j].cu, s2[j].rel)
        \/ s2[j] = s[j] /\ s[j].loc # l
  <2>1. s2[i] = r /\ \A j \in Sfts : j # i => s2[j] = s[j]
    BY <1>3 DEF With, SftsOf
  <2>2. \A j \in Sfts : j # i => s[j].loc # l
    BY <1>3 DEF SftsOK
  <2> QED
    BY <2>1, <2>2, <1>1
<1>9. Changes(f, d, s, g, d, s2, l, l)
  <2> HIDE DEF l, s2
  <2>1. \A x \in Clusters : g[x] = f[x] \/ f[x] = FREE \/ (l \in Files(d) /\ x \in ToSet(Chain(f, St(d, s)[l])))
    BY <1>1, <1>4
  <2>2. \A x \in ToSet(Chain(g, St(d, s2)[l])) :
          f[x] = FREE \/ (l \in Files(d) /\ x \in ToSet(Chain(f, St(d, s)[l])))
    BY <1>1, <1>4, <1>7
  <2>3. Whole(g, St(d, s2)[l]) /\ Sz(d, s2)[l] =< Room(g, St(d, s2)[l])
    BY <1>1, <1>7
  <2> QED
    BY <1>1, <1>2, <1>3, <1>6, <1>8, <2>1, <2>2, <2>3 DEF Changes
<1> HIDE DEF l, s2
<1>10. /\ FilesOK(g, d, s2)
       /\ \A k \in Files(d) \ {l} : /\ Chain(g, St(d, s2)[k]) = Chain(f, St(d, s)[k])
                                  /\ \A x \in ToSet(Chain(f, St(d, s)[k])) : g[x] = f[x]
  BY <1>9, OneFile
<1>11. \A k \in Files(d) : k # l => /\ Chain(g, St(d, s2)[k]) = Chain(f, St(d, s)[k])
                                   /\ \A x \in ToSet(Chain(f, St(d, s)[k])) : g[x] = f[x]
  BY <1>10
<1> QED
  BY <1>2, <1>10, <1>11 DEF l, s2

-----------------------------------------------------------------------------
(* Directories.                                                            *)

Dir(d) == {l \in Files(d) : d[l].isdir}
Held(f, d) == UNION {ToSet(Chain(f, d[l].start)) : l \in Dir(d)}

\* Directories are in the root, and hold a cluster.
DirsOK(d) ==
  \A l \in Locs : d[l].isdir => l[1] = Root /\ d[l].name \in Names /\ d[l].start \in Clusters /\ d[l].size = 0

\* Entries are in the root and in the clusters of directories.
HeldOK(f, d) ==
  /\ \A l \in Locs : d[l].name = Junk <=> ~ (l[1] = Root \/ l[1] \in Held(f, d))
  /\ \A l \in Locs : d[l].name = Junk => d[l] = Blank(Junk)

LEMMA HeldKept ==
  ASSUME NEW f, NEW d, NEW g, NEW d2, HeldOK(f, d), Dir(d2) = Dir(d),
         \A k \in Dir(d) : Chain(g, d2[k].start) = Chain(f, d[k].start),
         \A k \in Locs : d2[k] = d[k] \/ (d2[k].name # Junk /\ d[k].name # Junk)
  PROVE  HeldOK(g, d2) /\ Held(g, d2) = Held(f, d)
<1>1. Held(g, d2) = Held(f, d)
  BY DEF Held
<1>2. \A l \in Locs : d2[l].name = Junk <=> ~ (l[1] = Root \/ l[1] \in Held(g, d2))
  BY <1>1 DEF HeldOK
<1>3. \A l \in Locs : d2[l].name = Junk => d2[l] = Blank(Junk)
  BY DEF HeldOK
<1> QED
  BY <1>1, <1>2, <1>3 DEF HeldOK

\* A directory is not open.
LEMMA DirClosed ==
  ASSUME NEW d, NEW s, SftsOK(d, s), NEW k \in Dir(d)
  PROVE  k \in Files(d) /\ k \in Locs /\ At(s, k) = {} /\ St(d, s)[k] = d[k].start /\ Sz(d, s)[k] = d[k].size
<1>1. k \in Files(d) /\ k \in Locs /\ d[k].isdir
  BY DEF Dir, Files
<1>2. \A j \in Sfts : s[j] # Closed => s[j].loc # k
  BY <1>1 DEF SftsOK
<1> QED
  BY <1>1, <1>2, OpenOrNot

\* What is held is in use.
LEMMA HeldUsed ==
  ASSUME NEW f, NEW d \in DirOf, NEW s \in SftsOf, FilesOK(f, d, s)
  PROVE  /\ \A x \in Held(f, d) : x \in Clusters /\ f[x] # FREE
         /\ \A k \in Dir(d) : Whole(f, d[k].start) /\ d[k].start \in Clusters \cup {FREE}
<1>1. SftsOK(d, s) /\ VolFit(f, Files(d), St(d, s), Sz(d, s))
  BY DEF FilesOK
<1>2. ASSUME NEW k \in Dir(d)
      PROVE  Whole(f, d[k].start) /\ d[k].start \in Clusters \cup {FREE}
  <2>1. k \in Files(d) /\ k \in Locs /\ St(d, s)[k] = d[k].start
    BY <1>1, DirClosed
  <2>2. Whole(f, St(d, s)[k])
    BY <1>1, <2>1 DEF VolFit
  <2>3. St(d, s)[k] \in Clusters \cup {FREE}
    BY <1>1, <2>1, StTypes
  <2> QED
    BY <2>1, <2>2, <2>3
<1>3. ASSUME NEW x \in Held(f, d)
      PROVE  x \in Clusters /\ f[x] # FREE
  <2>1. PICK k \in Dir(d) : x \in ToSet(Chain(f, d[k].start))
    BY DEF Held
  <2> QED
    BY <2>1, <1>2, ChainFacts
<1> QED
  BY <1>2, <1>3

GoodVol(v, d, s) == CountOK(v) /\ FilesOK(v.fat, d, s) /\ DirsOK(d) /\ HeldOK(v.fat, d)
-----------------------------------------------------------------------------
(* Steps of open files.                                                    *)

\* The FAT gains links, and loses none.
Grown(f, g) == \A x \in Clusters : g[x] = f[x] \/ (f[x] \in {FREE, LAST} /\ g[x] # FREE)

\* What a step of the file i leaves of the others.
OthersStay(f, d, s, g, s2, l) ==
  \A k \in Files(d) : k # l =>
    /\ Chain(g, St(d, s2)[k]) = Chain(f, St(d, s)[k])
    /\ St(d, s2)[k] = St(d, s)[k] /\ Sz(d, s2)[k] = Sz(d, s)[k]
    /\ \A x \in ToSet(Chain(f, St(d, s)[k])) : g[x] = f[x]

LEMMA FileGood ==
  ASSUME NEW v, NEW d, NEW s, NEW i, NEW r, NEW w, GoodVol(v, d, s), CountOK(w),
         FileSteps(v.fat, d, s, i, r, w.fat)
  PROVE  /\ With(s, i, r) \in SftsOf /\ GoodVol(w, d, With(s, i, r))
         /\ OthersStay(v.fat, d, s, w.fat, With(s, i, r), s[i].loc)
<1> DEFINE s2 == With(s, i, r)
<1>1. /\ s2 \in SftsOf /\ FilesOK(w.fat, d, s2)
      /\ \A k \in Files(d) : k # s[i].loc =>
           /\ Chain(w.fat, St(d, s2)[k]) = Chain(v.fat, St(d, s)[k])
           /\ \A x \in ToSet(Chain(v.fat, St(d, s)[k])) : w.fat[x] = v.fat[x]
      /\ \A k \in Locs :
           /\ St(d, s2)[k] = IF k = s[i].loc THEN r.start ELSE St(d, s)[k]
           /\ Sz(d, s2)[k] = IF k = s[i].loc THEN r.size ELSE Sz(d, s)[k]
  BY FileStep
<1>2. NewSft(d, s, i, r)
  BY DEF FileSteps
<1>3. SftsOK(d, s) /\ s[i] # Closed /\ i \in Sfts
  BY <1>2 DEF NewSft
<1>4. \A k \in Files(d) : k \in Locs
  BY DEF Files
<1>5. DirsOK(d) /\ HeldOK(v.fat, d)
  BY DEF GoodVol
<1> HIDE DEF s2
<1>6. OthersStay(v.fat, d, s, w.fat, s2, s[i].loc)
  BY <1>1, <1>4 DEF OthersStay
<1>7. SftsOK(d, s2)
  BY <1>1 DEF FilesOK
<1>8. \A k \in Dir(d) : Chain(w.fat, d[k].start) = Chain(v.fat, d[k].start)
  <2> SUFFICES ASSUME NEW k \in Dir(d) PROVE Chain(w.fat, d[k].start) = Chain(v.fat, d[k].start)
    OBVIOUS
  <2>1. k \in Files(d) /\ St(d, s)[k] = d[k].start
    BY <1>3, DirClosed
  <2>2. St(d, s2)[k] = d[k].start
    BY <1>7, DirClosed
  <2>3. k # s[i].loc
    BY <1>3 DEF SftsOK, Dir
  <2> QED
    BY <2>1, <2>2, <2>3, <1>1
<1>9. HeldOK(w.fat, d)
  BY <1>5, <1>8, HeldKept
<1> QED
  BY <1>1, <1>5, <1>6, <1>9 DEF GoodVol, s2

\* A call has taken the file i as far as m: its chain is longer, if anything.
Advanced(v, d, s, i, m) ==
  /\ v \in VolOf /\ d \in DirOf /\ s \in SftsOf /\ GoodVol(v, d, s)
  /\ i \in Sfts /\ s[i] # Closed
  /\ FnodeOK(m) /\ Lengthened(v.fat, s[i].start, m.vol.fat, m.start)

NewOf(a, m, size, pos, clean) ==
  [loc |-> a.loc, start |-> m.start, size |-> size, pos |-> pos, cu |-> m.cu, rel |-> m.rel, clean |-> clean]

LEMMA AdvancedFacts ==
  ASSUME NEW v, NEW d, NEW s, NEW i, NEW m, Advanced(v, d, s, i, m)
  PROVE  /\ SftsOK(d, s) /\ s[i] \in SftOf /\ s[i].loc \in Locs
         /\ s[i].start \in Clusters \cup {FREE}
         /\ Whole(v.fat, s[i].start) /\ Placed(v.fat, s[i].start, s[i].cu, s[i].rel)
         /\ s[i].size =< Room(v.fat, s[i].start)
         /\ FilesOK(v.fat, d, s)
<1>1. /\ v \in VolOf /\ d \in DirOf /\ s \in SftsOf /\ GoodVol(v, d, s)
      /\ i \in Sfts /\ s[i] # Closed
  BY DEF Advanced
<1>2. FilesOK(v.fat, d, s)
  BY <1>1 DEF GoodVol
<1>3. SftsOK(d, s) /\ VolFit(v.fat, Files(d), St(d, s), Sz(d, s)) /\ Cached(v.fat, s)
  BY <1>2 DEF FilesOK
<1>4. s[i] \in SftOf
  BY <1>1 DEF SftsOf
<1>5. s[i].start \in Clusters \cup {FREE}
  BY <1>4 DEF SftOf
<1>6. /\ s[i].loc \in Files(d) /\ s[i].loc \in Locs
      /\ St(d, s)[s[i].loc] = s[i].start /\ Sz(d, s)[s[i].loc] = s[i].size
  BY <1>1, <1>3, OpenIs
<1>7. Whole(v.fat, s[i].start) /\ s[i].size =< Room(v.fat, s[i].start)
  BY <1>3, <1>6 DEF VolFit
<1>8. Placed(v.fat, s[i].start, s[i].cu, s[i].rel)
  BY <1>1, <1>3 DEF Cached
<1> QED
  BY <1>2, <1>3, <1>4, <1>5, <1>6, <1>7, <1>8

\* The chain of file i was changed, and is made of its own and of free clusters.
Moved(v, d, s, i, m) ==
  /\ v \in VolOf /\ d \in DirOf /\ s \in SftsOf /\ GoodVol(v, d, s)
  /\ i \in Sfts /\ s[i] # Closed /\ FnodeOK(m)
  /\ \A x \in ToSet(Chain(m.vol.fat, m.start)) : x \in ToSet(Chain(v.fat, s[i].start)) \/ v.fat[x] = FREE
  /\ \A x \in Clusters : m.vol.fat[x] = v.fat[x] \/ v.fat[x] = FREE \/ x \in ToSet(Chain(v.fat, s[i].start))

LEMMA AdvancedMoved ==
  ASSUME NEW v, NEW d, NEW s, NEW i, NEW m, Advanced(v, d, s, i, m)
  PROVE  Moved(v, d, s, i, m)
<1>1. /\ v \in VolOf /\ d \in DirOf /\ s \in SftsOf /\ GoodVol(v, d, s)
      /\ i \in Sfts /\ s[i] # Closed
      /\ FnodeOK(m) /\ Lengthened(v.fat, s[i].start, m.vol.fat, m.start)
  BY DEF Advanced
<1>2. \A x \in ToSet(Chain(m.vol.fat, m.start)) : x \in ToSet(Chain(v.fat, s[i].start)) \/ v.fat[x] = FREE
  BY <1>1 DEF Lengthened, Free
<1>3. \A x \in Clusters : m.vol.fat[x] = v.fat[x] \/ v.fat[x] = FREE \/ x \in ToSet(Chain(v.fat, s[i].start))
  BY <1>1 DEF Lengthened, Free
<1> QED
  BY <1>1, <1>2, <1>3 DEF Moved

LEMMA MovedSft ==
  ASSUME NEW v, NEW d, NEW s, NEW i, NEW m, Moved(v, d, s, i, m),
         NEW size \in 0..MaxSize, NEW pos \in 0..MaxSize, size =< Room(m.vol.fat, m.start),
         NEW clean \in BOOLEAN, clean => s[i].clean /\ m.start = s[i].start /\ size = s[i].size
  PROVE  FileSteps(v.fat, d, s, i, NewOf(s[i], m, size, pos, clean), m.vol.fat)
<1> DEFINE r == NewOf(s[i], m, size, pos, clean)
<1>1. /\ v \in VolOf /\ d \in DirOf /\ s \in SftsOf /\ GoodVol(v, d, s)
      /\ i \in Sfts /\ s[i] # Closed /\ FnodeOK(m)
      /\ \A x \in ToSet(Chain(m.vol.fat, m.start)) : x \in ToSet(Chain(v.fat, s[i].start)) \/ v.fat[x] = FREE
      /\ \A x \in Clusters : m.vol.fat[x] = v.fat[x] \/ v.fat[x] = FREE \/ x \in ToSet(Chain(v.fat, s[i].start))
  BY DEF Moved
<1>2. FilesOK(v.fat, d, s) /\ s[i] \in SftOf
  BY <1>1 DEF GoodVol, SftsOf
<1>3. SftsOK(d, s)
  BY <1>2 DEF FilesOK
<1>4. /\ r.loc = s[i].loc /\ r.start = m.start /\ r.size = size /\ r.cu = m.cu /\ r.rel = m.rel
      /\ r.clean = clean
  BY DEF NewOf
<1>5. r \in SftOf
  <2>1. m \in FnodeOf
    BY <1>1 DEF FnodeOK
  <2>2. m.start \in Clusters \cup {FREE} /\ m.cu \in Clusters \cup {FREE} /\ m.rel \in 0..MaxCluster
    BY <2>1 DEF FnodeOf
  <2>3. s[i].loc \in Locs \cup {<<>>}
    BY <1>2 DEF SftOf
  <2> QED
    BY <2>2, <2>3 DEF SftOf, NewOf
<1> HIDE DEF r
<1>6. NewSft(d, s, i, r)
  BY <1>1, <1>3, <1>4, <1>5 DEF NewSft
<1>7. Whole(m.vol.fat, r.start) /\ Placed(m.vol.fat, r.start, r.cu, r.rel) /\ r.size =< Room(m.vol.fat, r.start)
  BY <1>1, <1>4 DEF FnodeOK
<1>8. \A x \in ToSet(Chain(m.vol.fat, r.start)) : x \in ToSet(Chain(v.fat, s[i].start)) \/ v.fat[x] = FREE
  BY <1>1, <1>4
<1> QED
  BY <1>1, <1>2, <1>6, <1>7, <1>8 DEF FileSteps, r

\* Clusters that were free are taken, and no file notices.
Leaks(v, d, s, w) ==
  /\ d \in DirOf /\ s \in SftsOf /\ GoodVol(v, d, s) /\ CountOK(w)
  /\ \A x \in Clusters : w.fat[x] = v.fat[x] \/ v.fat[x] = FREE

LEMMA LeakGood ==
  ASSUME NEW v, NEW d, NEW s, NEW w, Leaks(v, d, s, w)
  PROVE  GoodVol(w, d, s) /\ OthersStay(v.fat, d, s, w.fat, s, <<>>)
<1>1. /\ d \in DirOf /\ s \in SftsOf /\ GoodVol(v, d, s) /\ CountOK(w)
      /\ \A x \in Clusters : w.fat[x] = v.fat[x] \/ v.fat[x] = FREE
  BY DEF Leaks
<1>2. FilesOK(v.fat, d, s) /\ DirsOK(d) /\ HeldOK(v.fat, d)
  BY <1>1 DEF GoodVol
<1>3. SftsOK(d, s)
  BY <1>2 DEF FilesOK
<1>4. <<>> \notin Files(d)
  BY ClosedLoc DEF Files
<1>5. \A j \in Sfts : s[j] # Closed => s[j].loc # <<>>
  BY <1>3, <1>4 DEF SftsOK
<1>6. Changes(v.fat, d, s, w.fat, d, s, <<>>, <<>>)
  BY <1>1, <1>2, <1>3, <1>4, <1>5 DEF Changes
<1>7. /\ FilesOK(w.fat, d, s)
      /\ \A k \in Files(d) \ {<<>>} : /\ Chain(w.fat, St(d, s)[k]) = Chain(v.fat, St(d, s)[k])
                                      /\ \A x \in ToSet(Chain(v.fat, St(d, s)[k])) : w.fat[x] = v.fat[x]
  BY <1>6, OneFile
<1>8. OthersStay(v.fat, d, s, w.fat, s, <<>>)
  BY <1>7 DEF OthersStay
<1>9. \A k \in Dir(d) : Chain(w.fat, d[k].start) = Chain(v.fat, d[k].start)
  <2> SUFFICES ASSUME NEW k \in Dir(d) PROVE Chain(w.fat, d[k].start) = Chain(v.fat, d[k].start)
    OBVIOUS
  <2>1. k \in Files(d) /\ St(d, s)[k] = d[k].start
    BY <1>3, DirClosed
  <2> QED
    BY <2>1, <1>4, <1>7
<1>10. HeldOK(w.fat, d)
  BY <1>2, <1>9, HeldKept
<1> QED
  BY <1>1, <1>2, <1>7, <1>8, <1>10 DEF GoodVol

\* A call that was aborted leaves the SFT as it was: a longer chain suits it too,
\* and a first cluster is lost.
LEMMA AdvancedNot ==
  ASSUME NEW v, NEW d, NEW s, NEW i, NEW m, Advanced(v, d, s, i, m)
  PROVE  /\ GoodVol(m.vol, d, s)
         /\ OthersStay(v.fat, d, s, m.vol.fat, s, s[i].loc)
<1>1. /\ v \in VolOf /\ d \in DirOf /\ s \in SftsOf /\ GoodVol(v, d, s)
      /\ i \in Sfts /\ s[i] # Closed
      /\ FnodeOK(m) /\ Lengthened(v.fat, s[i].start, m.vol.fat, m.start)
  BY DEF Advanced
<1>2. /\ SftsOK(d, s) /\ s[i] \in SftOf /\ FilesOK(v.fat, d, s)
      /\ s[i].start \in Clusters \cup {FREE}
      /\ Whole(v.fat, s[i].start) /\ Placed(v.fat, s[i].start, s[i].cu, s[i].rel)
      /\ s[i].size =< Room(v.fat, s[i].start)
  BY AdvancedFacts
<1>3. CountOK(m.vol) /\ Whole(m.vol.fat, m.start) /\ m.start \in Clusters \cup {FREE}
  BY <1>1, FnodeFacts
<1>4. CASE s[i].start = FREE
  <2>1. ToSet(Chain(v.fat, s[i].start)) = {}
    BY <1>4, NoChain
  <2>2. \A x \in Clusters : m.vol.fat[x] = v.fat[x] \/ v.fat[x] = FREE
    BY <1>1, <2>1 DEF Lengthened, Free
  <2>3. Leaks(v, d, s, m.vol)
    BY <1>1, <1>3, <2>2 DEF Leaks
  <2>4. GoodVol(m.vol, d, s) /\ OthersStay(v.fat, d, s, m.vol.fat, s, <<>>)
    BY <2>3, LeakGood
  <2>5. \A k \in Files(d) : k # <<>>
    BY ClosedLoc DEF Files
  <2> QED
    BY <2>4, <2>5 DEF OthersStay
<1>5. CASE s[i].start # FREE
  <2>1. m.start = s[i].start
    BY <1>1, <1>5 DEF Lengthened
  <2> DEFINE c == Chain(v.fat, s[i].start)
             c2 == Chain(m.vol.fat, s[i].start)
  <2>2. Len(c) \in Nat /\ Len(c2) \in Nat /\ (Len(c) = 0 <=> c = <<>>)
    BY <1>2, <1>3, <2>1, ChainFacts
  <2>3. Len(c) =< Len(c2) /\ \A j \in 1..Len(c) : c2[j] = c[j]
    BY <1>1, <2>1 DEF Lengthened
  <2>4. s[i].rel \in Nat /\ s[i].cu \in Clusters \cup {FREE}
    BY <1>2, Sizes DEF SftOf
  <2>5. s[i].start \in Clusters
    BY <1>2, <1>5
  <2>6. c # <<>>
    <3>1. s[i].start = IF Len(c) = 0 THEN FREE ELSE c[1]
      BY <1>2, ChainFacts
    <3> QED
      BY <3>1, <1>5, <2>2
  <2>7. Placed(m.vol.fat, s[i].start, s[i].cu, s[i].rel)
    <3>1. s[i].cu # FREE /\ s[i].rel < Len(c) /\ s[i].cu = c[s[i].rel + 1]
      BY <1>2, <2>6 DEF Placed
    <3> HIDE DEF c, c2
    <3>2. s[i].rel < Len(c2) /\ s[i].cu = c2[s[i].rel + 1]
      BY <3>1, <2>2, <2>3, <2>4
    <3> QED
      BY <3>1, <3>2 DEF Placed, c2
  <2>8. s[i].size =< Room(m.vol.fat, s[i].start)
    <3>1. Len(c) * ClusterSize =< Len(c2) * ClusterSize
      <4> HIDE DEF c, c2
      <4> QED
        BY <2>2, <2>3, Sizes
    <3>2. s[i].size \in Nat
      BY <1>2, Sizes DEF SftOf
    <3>3. Len(c) * ClusterSize \in Nat /\ Len(c2) * ClusterSize \in Nat
      BY <2>2, Sizes
    <3>4. s[i].size =< Len(c) * ClusterSize
      BY <1>2 DEF Room
    <3> HIDE DEF c, c2
    <3>5. s[i].size =< Len(c2) * ClusterSize
      BY <3>1, <3>2, <3>3, <3>4
    <3> QED
      BY <3>5 DEF Room, c2
  <2>9. NewSft(d, s, i, s[i])
    BY <1>1, <1>2 DEF NewSft
  <2>10. FileSteps(v.fat, d, s, i, s[i], m.vol.fat)
    <3>1. Whole(m.vol.fat, s[i].start)
      BY <1>3, <2>1
    <3>2. \A x \in ToSet(Chain(m.vol.fat, s[i].start)) : x \in ToSet(Chain(v.fat, s[i].start)) \/ v.fat[x] = FREE
      BY <1>1, <2>1 DEF Lengthened, Free
    <3>3. \A x \in Clusters : m.vol.fat[x] = v.fat[x] \/ v.fat[x] = FREE \/ x \in ToSet(Chain(v.fat, s[i].start))
      BY <1>1 DEF Lengthened, Free
    <3> QED
      BY <1>2, <2>7, <2>8, <2>9, <3>1, <3>2, <3>3 DEF FileSteps
  <2>11. With(s, i, s[i]) = s
    BY <1>1 DEF With, SftsOf
  <2>12. /\ GoodVol(m.vol, d, With(s, i, s[i]))
         /\ OthersStay(v.fat, d, s, m.vol.fat, With(s, i, s[i]), s[i].loc)
    BY <1>1, <1>3, <2>10, FileGood
  <2> QED
    BY <2>11, <2>12
<1> QED
  BY <1>4, <1>5

-----------------------------------------------------------------------------
(* Sizes and clusters.                                                     *)

LEMMA DivFacts ==
  ASSUME NEW D \in Nat \ {0}, NEW n \in Nat
  PROVE  /\ n \div D \in Nat /\ (n % D) \in 0..D-1 /\ n = D * (n \div D) + (n % D)
  OBVIOUS

LEMMA DivUnique ==
  ASSUME NEW D \in Nat \ {0}, NEW q \in Nat, NEW r \in 0..D-1
  PROVE  (q * D + r) \div D = q /\ ((q * D + r) % D) = r
  OBVIOUS

LEMMA Times ==
  ASSUME NEW D \in Nat \ {0}, NEW a \in Nat, NEW b \in Nat
  PROVE  (a =< b => a * D =< b * D) /\ a * D \in Nat /\ (a + 1) * D = a * D + D
         /\ (a < b => a * D < b * D)
  OBVIOUS

\* The cluster of a position.
LEMMA ClusterOf ==
  ASSUME NEW n \in Nat
  PROVE  /\ n \div ClusterSize \in Nat
         /\ (n \div ClusterSize) * ClusterSize =< n
         /\ n < (n \div ClusterSize + 1) * ClusterSize
<1> DEFINE q == n \div ClusterSize
           r == n % ClusterSize
<1>1. q \in Nat /\ r \in 0..ClusterSize-1 /\ n = ClusterSize * q + r
  BY Sizes, DivFacts
<1> HIDE DEF q, r
<1>2. q * ClusterSize = ClusterSize * q /\ q * ClusterSize \in Nat
  BY <1>1, Sizes
<1>3. (q + 1) * ClusterSize = q * ClusterSize + ClusterSize
  BY <1>1, Sizes, Times
<1>4. ClusterSize \in Nat \ {0}
  BY Sizes
<1>5. q \in Nat /\ q * ClusterSize =< n /\ n < (q + 1) * ClusterSize
  <2> DEFINE a == q * ClusterSize
             b == (q + 1) * ClusterSize
  <2>1. a \in Nat /\ b = a + ClusterSize /\ n = a + r
    BY <1>1, <1>2, <1>3
  <2> HIDE DEF a, b
  <2>2. a =< n /\ n < b
    BY <2>1, <1>1, <1>4
  <2> QED
    BY <2>2, <1>1 DEF a, b
<1> QED
  BY <1>5 DEF q

LEMMA RoomGrows ==
  ASSUME NEW v, NEW d, NEW s, NEW i, NEW m, Advanced(v, d, s, i, m)
  PROVE  /\ Room(m.vol.fat, m.start) \in Nat /\ s[i].size =< Room(m.vol.fat, m.start)
         /\ m.cu # FREE => (m.rel + 1) * ClusterSize =< Room(m.vol.fat, m.start)
         /\ m.rel \in Nat /\ s[i].size \in 0..MaxSize /\ s[i].size \in Nat
         /\ s[i].pos \in 0..MaxSize /\ s[i].pos \in Nat
<1>1. /\ s[i] \in SftOf /\ s[i].start \in Clusters \cup {FREE} /\ Whole(v.fat, s[i].start)
      /\ s[i].size =< Room(v.fat, s[i].start)
  BY AdvancedFacts
<1>2. FnodeOK(m) /\ Lengthened(v.fat, s[i].start, m.vol.fat, m.start)
  BY DEF Advanced
<1>3. Len(Chain(v.fat, s[i].start)) \in Nat
  BY <1>1, ChainFacts
<1>4. Len(Chain(m.vol.fat, m.start)) \in Nat /\ (m.cu # FREE => m.rel < Len(Chain(m.vol.fat, m.start)))
  BY <1>2, FnodeLen
<1>5. m.rel \in Nat
  BY <1>2, FnodeFacts
<1>6. /\ s[i].size \in 0..MaxSize /\ s[i].pos \in 0..MaxSize
  BY <1>1 DEF SftOf
<1>7. s[i].size \in Nat /\ s[i].pos \in Nat
  BY <1>6, Sizes
<1>8. Len(Chain(v.fat, s[i].start)) =< Len(Chain(m.vol.fat, m.start))
  BY <1>2 DEF Lengthened
<1> DEFINE a == Len(Chain(v.fat, s[i].start))
           b == Len(Chain(m.vol.fat, m.start))
<1>9. s[i].size =< a * ClusterSize
  BY <1>1 DEF Room
<1>10. a \in Nat /\ b \in Nat /\ a =< b /\ (m.cu # FREE => m.rel < b)
  BY <1>3, <1>4, <1>8
<1>11. Room(m.vol.fat, m.start) = b * ClusterSize
  BY DEF Room
<1> HIDE DEF a, b
<1>12. a * ClusterSize =< b * ClusterSize /\ a * ClusterSize \in Nat /\ b * ClusterSize \in Nat
  BY <1>10, Sizes, Times
<1>13. m.cu # FREE => (m.rel + 1) * ClusterSize =< b * ClusterSize
  <2> SUFFICES ASSUME m.cu # FREE PROVE (m.rel + 1) * ClusterSize =< b * ClusterSize
    OBVIOUS
  <2>1. m.rel + 1 \in Nat /\ m.rel + 1 =< b
    BY <1>5, <1>10
  <2> QED
    BY <2>1, <1>10, Sizes, Times
<1>14. s[i].size =< b * ClusterSize
  <2> DEFINE x == a * ClusterSize
             y == b * ClusterSize
  <2>1. x =< y /\ x \in Nat /\ y \in Nat /\ s[i].size =< x
    BY <1>9, <1>12
  <2> HIDE DEF x, y
  <2>2. s[i].size =< y
    BY <2>1, <1>7
  <2> QED
    BY <2>2 DEF y
<1> QED
  BY <1>5, <1>6, <1>7, <1>11, <1>12, <1>13, <1>14

FitsIn(m, size, pos) ==
  size \in 0..MaxSize /\ pos \in 0..MaxSize /\ size =< Room(m.vol.fat, m.start)

LEMMA GreaterIs ==
  ASSUME NEW a \in Nat, NEW b \in Nat
  PROVE  /\ Greater(a, b) \in Nat /\ Lesser(a, b) \in Nat
         /\ Greater(a, b) \in {a, b} /\ a =< Greater(a, b) /\ b =< Greater(a, b)
         /\ Lesser(a, b) \in {a, b} /\ Lesser(a, b) =< a /\ Lesser(a, b) =< b
  BY DEF Greater, Lesser

\* Where a write may end, there are clusters up to the position and the size.
LEMMA WriteEnds ==
  ASSUME NEW v, NEW d, NEW s, NEW i, NEW m, Advanced(v, d, s, i, m),
         NEW end \in Nat, s[i].pos < end, end =< MaxSize, m.rel =< (end - 1) \div ClusterSize
  PROVE  /\ Mapped(m, (end - 1) \div ClusterSize) => FitsIn(m, Greater(s[i].size, end), end)
         /\ m.cu # FREE /\ m.rel < (end - 1) \div ClusterSize =>
              FitsIn(m, Greater(s[i].size, (m.rel + 1) * ClusterSize), (m.rel + 1) * ClusterSize)
         /\ ~ (m.cu # FREE /\ m.rel >= s[i].pos \div ClusterSize) => FitsIn(m, Stuck(s[i], m), s[i].pos)
         /\ m.cu # FREE => \A q \in (s[i].pos \div ClusterSize)..m.rel :
              FitsIn(m, Greater(s[i].size, Greater(s[i].pos, q * ClusterSize)), Greater(s[i].pos, q * ClusterSize))
<1> DEFINE room == Room(m.vol.fat, m.start)
           first == s[i].pos \div ClusterSize
           to == (end - 1) \div ClusterSize
           size == s[i].size
           pos == s[i].pos
           up == (m.rel + 1) * ClusterSize
<1>1. /\ room \in Nat /\ size =< room /\ (m.cu # FREE => up =< room)
      /\ m.rel \in Nat /\ size \in Nat /\ pos \in Nat /\ size =< MaxSize /\ pos =< MaxSize
  BY RoomGrows, Sizes
<1>2. end - 1 \in Nat
  BY <1>1
<1>3. to \in Nat /\ to * ClusterSize =< end - 1 /\ end - 1 < (to + 1) * ClusterSize
  BY <1>2, ClusterOf
<1>4. first \in Nat /\ first * ClusterSize =< pos /\ pos < (first + 1) * ClusterSize
  BY <1>1, ClusterOf
<1>5. up \in Nat /\ MaxSize \in Nat /\ m.rel =< to
  BY <1>1, Sizes, Times
<1>6. /\ to * ClusterSize \in Nat /\ (to + 1) * ClusterSize = to * ClusterSize + ClusterSize
      /\ first * ClusterSize \in Nat /\ (first + 1) * ClusterSize = first * ClusterSize + ClusterSize
      /\ ClusterSize \in Nat
  BY <1>3, <1>4, Sizes, Times
<1> HIDE DEF room, first, to, size, pos
<1>7. m.rel < to => up =< to * ClusterSize
  BY <1>1, <1>3, Sizes, Times
<1>8. m.rel < first => up =< first * ClusterSize
  BY <1>1, <1>4, Sizes, Times
<1>9. m.rel = to => up = (to + 1) * ClusterSize
  OBVIOUS
<1>10. first =< m.rel => (first + 1) * ClusterSize =< up
  BY <1>1, <1>4, Sizes, Times
<1> DEFINE T == to * ClusterSize
           F == first * ClusterSize
           T1 == (to + 1) * ClusterSize
           F1 == (first + 1) * ClusterSize
<1>11. /\ T \in Nat /\ F \in Nat /\ T1 \in Nat /\ F1 \in Nat /\ T =< end - 1 /\ end - 1 < T1 /\ F =< pos /\ pos < F1
       /\ (m.rel < to => up =< T) /\ (m.rel < first => up =< F) /\ (m.rel = to => up = T1)
       /\ (first =< m.rel => F1 =< up)
  BY <1>3, <1>4, <1>6, <1>7, <1>8, <1>9, <1>10
<1> HIDE DEF T, F, T1, F1, up
<1>12. ASSUME Mapped(m, to)
       PROVE  Greater(size, end) \in 0..MaxSize /\ end \in 0..MaxSize /\ Greater(size, end) =< room
  <2>1. m.cu # FREE /\ m.rel = to
    BY <1>12 DEF Mapped
  <2>2. end =< room
    BY <2>1, <1>1, <1>5, <1>11
  <2> QED
    BY <2>2, <1>1, <1>5 DEF Greater
<1>13. ASSUME m.cu # FREE, m.rel < to
       PROVE  Greater(size, up) \in 0..MaxSize /\ up \in 0..MaxSize /\ Greater(size, up) =< room
  BY <1>13, <1>1, <1>5, <1>11 DEF Greater
<1>14. ASSUME ~ (m.cu # FREE /\ m.rel >= first)
       PROVE  Stuck(s[i], m) \in 0..MaxSize /\ pos \in 0..MaxSize /\ Stuck(s[i], m) =< room
  <2>1. CASE s[i].pos > s[i].size /\ m.cu # FREE
    <3>1. Stuck(s[i], m) = up
      BY <2>1 DEF Stuck, up
    <3>2. m.rel < first
      BY <2>1, <1>14, <1>1, <1>4
    <3>3. up =< F /\ up =< room
      BY <2>1, <3>2, <1>1, <1>11
    <3> QED
      BY <3>1, <3>3, <1>1, <1>5, <1>11
  <2>2. CASE ~ (s[i].pos > s[i].size /\ m.cu # FREE)
    <3>1. Stuck(s[i], m) = size
      BY <2>2 DEF Stuck, size
    <3> QED
      BY <3>1, <1>1, <1>5
  <2> QED
    BY <2>1, <2>2
<1>15. ASSUME m.cu # FREE, NEW q \in first..m.rel
       PROVE  /\ Greater(size, Greater(pos, q * ClusterSize)) \in 0..MaxSize
              /\ Greater(pos, q * ClusterSize) \in 0..MaxSize
              /\ Greater(size, Greater(pos, q * ClusterSize)) =< room
  <2> DEFINE x == q * ClusterSize
  <2>1. q \in Nat /\ q =< to /\ q < m.rel + 1 /\ first =< m.rel
    <3>1. m.rel \in Nat /\ first \in Nat /\ to \in Nat /\ m.rel =< to
      BY <1>1, <1>3, <1>4, <1>5
    <3>2. q \in first..m.rel
      OBVIOUS
    <3> QED
      BY ONLY <3>1, <3>2
  <2>2. x =< T /\ x \in Nat
    BY <2>1, <1>3, Sizes, Times DEF T
  <2>3. x =< up
    BY <2>1, <1>1, Sizes, Times DEF up
  <2> HIDE DEF x
  <2>4. pos =< room /\ x =< room
    BY <2>1, <2>2, <2>3, <1>15, <1>1, <1>5, <1>11
  <2>5. Greater(pos, x) \in Nat /\ Greater(pos, x) =< room /\ Greater(pos, x) =< MaxSize
    BY <2>2, <2>4, <1>1, <1>5, <1>11 DEF Greater
  <2>6. Greater(size, Greater(pos, x)) \in Nat /\ Greater(size, Greater(pos, x)) =< room
        /\ Greater(size, Greater(pos, x)) =< MaxSize
    BY <2>5, <1>1, <1>5, GreaterIs
  <2> QED
    BY <2>5, <2>6, <1>5 DEF x
<1> QED
  BY <1>12, <1>13, <1>14, <1>15 DEF FitsIn, room, first, to, size, pos, up

-----------------------------------------------------------------------------
(* The calls that read, write, seek and truncate.                          *)

Ready(v, d, s, i) ==
  v \in VolOf /\ d \in DirOf /\ s \in SftsOf /\ GoodVol(v, d, s) /\ i \in Sfts /\ s[i] # Closed

Fn(v, a) == [vol |-> v, start |-> a.start, cu |-> a.cu, rel |-> a.rel]

LEMMA ReadyFacts ==
  ASSUME NEW v, NEW d, NEW s, NEW i, Ready(v, d, s, i)
  PROVE  /\ v \in VolOf /\ CountOK(v) /\ v.fat \in FatOf
         /\ FnodeOK(Fn(v, s[i])) /\ Fn(v, s[i]).vol = v /\ Fn(v, s[i]).start = s[i].start
         /\ Advanced(v, d, s, i, Fn(v, s[i]))
<1>1. /\ v \in VolOf /\ d \in DirOf /\ s \in SftsOf /\ GoodVol(v, d, s) /\ i \in Sfts /\ s[i] # Closed
  BY DEF Ready
<1>2. FilesOK(v.fat, d, s) /\ CountOK(v)
  BY <1>1 DEF GoodVol
<1>3. SftsOK(d, s) /\ VolFit(v.fat, Files(d), St(d, s), Sz(d, s)) /\ Cached(v.fat, s)
  BY <1>2 DEF FilesOK
<1>4. s[i].start \in Clusters \cup {FREE} /\ s[i].cu \in Clusters \cup {FREE} /\ s[i].rel \in Nat
  BY <1>1, Sizes DEF SftsOf, SftOf
<1>5. /\ s[i].loc \in Files(d) /\ St(d, s)[s[i].loc] = s[i].start
  BY <1>1, <1>3, OpenIs
<1>6. Whole(v.fat, s[i].start)
  BY <1>3, <1>5 DEF VolFit
<1>7. Placed(v.fat, s[i].start, s[i].cu, s[i].rel)
  BY <1>1, <1>3 DEF Cached
<1>8. FnodeOK(Fn(v, s[i]))
  BY <1>1, <1>2, <1>4, <1>6, <1>7, FnodeIs DEF Fn
<1>9. v.fat \in FatOf
  BY <1>1 DEF VolOf
<1>10. Fn(v, s[i]).vol = v /\ Fn(v, s[i]).start = s[i].start
  BY DEF Fn
<1>11. Lengthened(v.fat, s[i].start, v.fat, s[i].start)
  BY <1>4, <1>6, ChainFacts, LengthenedNot
<1> QED
  BY <1>1, <1>2, <1>8, <1>9, <1>10, <1>11 DEF Advanced

LEMMA GoneAdvanced ==
  ASSUME NEW v, NEW d, NEW s, NEW i, Ready(v, d, s, i), NEW m0, m0.vol = v, m0.start = s[i].start,
         NEW m, NEW rel, Gone(m0, m, rel)
  PROVE  Advanced(v, d, s, i, m) /\ m.rel =< rel
  BY DEF Gone, Ready, Advanced

LEMMA BeginOK ==
  ASSUME NEW v, NEW d, NEW s, NEW i, Ready(v, d, s, i), NEW rel \in Nat
  PROVE  /\ FnodeOK(Rewound(Fn(v, s[i]), rel)) /\ Rewound(Fn(v, s[i]), rel).rel =< rel
         /\ Rewound(Fn(v, s[i]), rel).vol = v /\ Rewound(Fn(v, s[i]), rel).start = s[i].start
  BY ReadyFacts, RewoundOK

LEMMA MapWrite ==
  ASSUME NEW v, NEW d, NEW s, NEW i, Ready(v, d, s, i), NEW m0, FnodeOK(m0), m0.vol = v, m0.start = s[i].start,
         NEW rel \in Nat
  PROVE  /\ Advanced(v, d, s, i, map_cluster(m0, rel, TRUE))
         /\ map_cluster(m0, rel, TRUE).rel =< rel
         /\ NoLoss(m0, map_cluster(m0, rel, TRUE)) /\ Exact(m0, map_cluster(m0, rel, TRUE))
         /\ Done(map_cluster(m0, rel, TRUE), rel, TRUE)
<1> DEFINE t == map_cluster(m0, rel, TRUE)
<1>1. t = map_cluster(m0, rel, TRUE) /\ TRUE \in BOOLEAN
  OBVIOUS
<1> HIDE DEF t
<1>2. StepGood(m0, t, rel, TRUE) /\ Done(t, rel, TRUE)
  BY <1>1, MapOK
<1>3. Gone(m0, t, rel) /\ NoLoss(m0, t) /\ Exact(m0, t)
  BY <1>2 DEF StepGood
<1>4. Advanced(v, d, s, i, t) /\ t.rel =< rel
  BY <1>3, GoneAdvanced
<1> QED
  BY <1>2, <1>3, <1>4 DEF t

LEMMA CutWrite ==
  ASSUME NEW v, NEW d, NEW s, NEW i, Ready(v, d, s, i), NEW m0, FnodeOK(m0), m0.vol = v, m0.start = s[i].start,
         NEW rel \in Nat, NEW m \in Interrupted(m0, rel, TRUE)
  PROVE  Advanced(v, d, s, i, m) /\ m.rel =< rel
<1> DEFINE write == TRUE
<1>1. write \in BOOLEAN /\ m \in Interrupted(m0, rel, write)
  OBVIOUS
<1> HIDE DEF write
<1>2. Gone(m0, m, rel)
  BY <1>1, InterruptedOK
<1> QED
  BY <1>2, GoneAdvanced

\* What a call on the open file of entry l leaves.
Outcome(v, d, s, w, s2, l) ==
  /\ w \in VolOf /\ s2 \in SftsOf /\ GoodVol(w, d, s2)
  /\ OthersStay(v.fat, d, s, w.fat, s2, l)

LEMMA GrownFile ==
  ASSUME NEW v, NEW d, NEW s, NEW i, NEW m, Advanced(v, d, s, i, m)
  PROVE  Grown(v.fat, m.vol.fat) /\ m.vol \in VolOf
<1>1. /\ FnodeOK(m) /\ Lengthened(v.fat, s[i].start, m.vol.fat, m.start)
  BY DEF Advanced
<1>2. \A x \in Clusters : m.vol.fat[x] = v.fat[x] \/ v.fat[x] \in {FREE, LAST}
  BY <1>1 DEF Lengthened, Free
<1>3. \A x \in Clusters : m.vol.fat[x] = FREE => v.fat[x] = FREE
  BY <1>1 DEF Lengthened, Free
<1> QED
  BY <1>1, <1>2, <1>3, FnodeFacts DEF Grown

\* fnode_to_sft at the end of a call.
LEMMA FileOutcome ==
  ASSUME NEW v, NEW d, NEW s, NEW i, NEW m, Moved(v, d, s, i, m), NEW size, NEW pos, FitsIn(m, size, pos),
         NEW clean \in BOOLEAN, clean => s[i].clean /\ m.start = s[i].start /\ size = s[i].size
  PROVE  Outcome(v, d, s, m.vol, With(s, i, NewOf(s[i], m, size, pos, clean)), s[i].loc)
<1>1. size \in 0..MaxSize /\ pos \in 0..MaxSize /\ size =< Room(m.vol.fat, m.start)
  BY DEF FitsIn
<1>2. FileSteps(v.fat, d, s, i, NewOf(s[i], m, size, pos, clean), m.vol.fat)
  BY <1>1, MovedSft
<1>3. GoodVol(v, d, s) /\ FnodeOK(m)
  BY DEF Moved
<1>4. CountOK(m.vol) /\ m.vol \in VolOf
  BY <1>3, FnodeFacts
<1> DEFINE r == NewOf(s[i], m, size, pos, clean)
<1> HIDE DEF r
<1>5. FileSteps(v.fat, d, s, i, r, m.vol.fat)
  BY <1>2 DEF r
<1>6. /\ With(s, i, r) \in SftsOf /\ GoodVol(m.vol, d, With(s, i, r))
      /\ OthersStay(v.fat, d, s, m.vol.fat, With(s, i, r), s[i].loc)
  BY <1>3, <1>4, <1>5, FileGood
<1> QED
  BY <1>4, <1>6 DEF Outcome, r

LEMMA NoneOutcome ==
  ASSUME NEW v, NEW d, NEW s, NEW i, NEW m, Advanced(v, d, s, i, m)
  PROVE  Outcome(v, d, s, m.vol, s, s[i].loc)
<1>1. s \in SftsOf
  BY DEF Advanced
<1> QED
  BY <1>1, AdvancedNot, GrownFile DEF Outcome

LEMMA NewOfClean ==
  ASSUME NEW a, NEW m, NEW size, NEW pos, NEW clean, NEW h
  PROVE  [NewOf(a, m, size, pos, clean) EXCEPT !.clean = h] = NewOf(a, m, size, pos, h)
  BY DEF NewOf

LEMMA BackIs ==
  ASSUME sft \in SftsOf, NEW i \in Sfts, NEW m, NEW size, NEW pos
  PROVE  /\ Back(i, m, size, pos) = With(sft, i, NewOf(sft[i], m, size, pos, sft[i].clean))
         /\ [Back(i, m, size, pos) EXCEPT ![i].clean = FALSE] = With(sft, i, NewOf(sft[i], m, size, pos, FALSE))
<1> DEFINE B == Back(i, m, size, pos)
           no == FALSE
           C == [B EXCEPT ![i].clean = no]
<1>0. sft[i] \in SftOf /\ sft \in [Sfts -> SftOf]
  BY DEF SftsOf
<1> HIDE DEF no
<1>1. B = With(sft, i, B[i])
  BY <1>0 DEF Back, With
<1>2. B[i] = [sft[i] EXCEPT !.start = m.start, !.cu = m.cu, !.rel = m.rel, !.size = size, !.pos = pos]
  BY <1>0 DEF Back
<1>3. B[i] = NewOf(sft[i], m, size, pos, sft[i].clean)
  BY <1>0, <1>2 DEF NewOf, SftOf
<1>4. B = With(sft, i, NewOf(sft[i], m, size, pos, sft[i].clean))
  BY <1>1, <1>3
<1> HIDE DEF B
<1>5. C[i] = [NewOf(sft[i], m, size, pos, sft[i].clean) EXCEPT !.clean = no]
  BY <1>0, <1>3, <1>4 DEF With
<1>6. C[i] = NewOf(sft[i], m, size, pos, no)
  BY <1>5, NewOfClean
<1>7. C = With(sft, i, C[i])
  BY <1>0, <1>4 DEF With
<1>8. C = With(sft, i, NewOf(sft[i], m, size, pos, no))
  BY <1>6, <1>7
<1> QED
  BY <1>4, <1>8 DEF B, no

LEMMA FnodeFn == \A i \in Sfts : Fnode(i) = Fn(vol, sft[i])
  BY DEF Fnode, Fn

\* rwblock_write, however it ends.
LEMMA WriteStep ==
  ASSUME NEW i, Ready(vol, dir, sft, i), NEW n \in Nat \ {0}, rwblock_write(i, n)
  PROVE  /\ Outcome(vol, dir, sft, vol', sft', sft[i].loc) /\ Grown(vol.fat, vol'.fat)
         /\ dir' = dir /\ Unflushed(sft[i].loc) /\ (Fine \/ Fault(FALSE))
<1> DEFINE s == sft[i]
           first == s.pos \div ClusterSize
           end == s.pos + n
           to == (end - 1) \div ClusterSize
           begin == Rewound(Fnode(i), first)
           full == map_cluster(begin, to, TRUE)
           Onto(m) == m.cu # FREE /\ m.rel >= first
           Upto(m, pos) == sft' = [Back(i, m, Greater(s.size, pos), pos) EXCEPT ![i].clean = FALSE]
           Less(m) == sft' = [Back(i, m, Stuck(s, m), s.pos) EXCEPT ![i].clean = FALSE]
<1>1. /\ end =< MaxSize /\ Unflushed(s.loc) /\ UNCHANGED dir
      /\ \/ /\ vol' = full.vol
            /\ IF Mapped(full, to) THEN Upto(full, end)
               ELSE IF Onto(full) THEN Upto(full, (full.rel + 1) * ClusterSize)
               ELSE Less(full)
            /\ Fine
         \/ \E m \in Interrupted(begin, to, TRUE) :
              /\ vol' = m.vol
              /\ \/ UNCHANGED sft
                 \/ IF Onto(m) THEN \E q \in first..m.rel : Upto(m, Greater(s.pos, q * ClusterSize))
                    ELSE Less(m)
              /\ Fault(FALSE)
  BY Zenon DEF rwblock_write
<1> SUFFICES Outcome(vol, dir, sft, vol', sft', sft[i].loc) /\ Grown(vol.fat, vol'.fat)
  BY <1>1
<1>2. /\ vol \in VolOf /\ dir \in DirOf /\ sft \in SftsOf /\ i \in Sfts
  BY DEF Ready
<1>3. s.pos \in Nat
  BY <1>2, Sizes DEF SftsOf, SftOf
<1>4. end \in Nat /\ s.pos < end /\ end - 1 \in Nat
  BY <1>3
<1>5. first \in Nat /\ to \in Nat
  BY <1>3, <1>4, ClusterOf
<1>6. /\ FnodeOK(begin) /\ begin.vol = vol /\ begin.start = sft[i].start
  BY <1>2, <1>5, BeginOK, FnodeFn
<1>7. Advanced(vol, dir, sft, i, full) /\ full.rel =< to
  <2> HIDE DEF begin, to
  <2> QED
    BY <1>5, <1>6, MapWrite
<1>8. \A m \in Interrupted(begin, to, TRUE) : Advanced(vol, dir, sft, i, m) /\ m.rel =< to
  <2> HIDE DEF begin, to
  <2> SUFFICES ASSUME NEW m \in Interrupted(begin, to, TRUE)
               PROVE  Advanced(vol, dir, sft, i, m) /\ m.rel =< to
    OBVIOUS
  <2> QED
    BY <1>5, <1>6, CutWrite
<1> DEFINE Ended(m, size, pos) ==
             vol' = m.vol /\ sft' = [Back(i, m, size, pos) EXCEPT ![i].clean = FALSE]
<1> HIDE DEF begin, full
<1>9. ASSUME NEW m, Advanced(vol, dir, sft, i, m), NEW size, NEW pos, FitsIn(m, size, pos),
             Ended(m, size, pos)
      PROVE  Outcome(vol, dir, sft, vol', sft', sft[i].loc)
  <2>1. sft' = With(sft, i, NewOf(sft[i], m, size, pos, FALSE))
    BY <1>2, <1>9, BackIs
  <2>2. Outcome(vol, dir, sft, m.vol, With(sft, i, NewOf(sft[i], m, size, pos, FALSE)), sft[i].loc)
    BY <1>9, AdvancedMoved, FileOutcome
  <2> QED
    BY <2>1, <2>2, <1>9
<1>10. ASSUME NEW m, Advanced(vol, dir, sft, i, m), m.rel =< to
       PROVE  /\ Mapped(m, to) => FitsIn(m, Greater(s.size, end), end)
              /\ m.cu # FREE /\ m.rel < to => FitsIn(m, Greater(s.size, (m.rel + 1) * ClusterSize), (m.rel + 1) * ClusterSize)
              /\ ~ Onto(m) => FitsIn(m, Stuck(s, m), s.pos)
              /\ m.cu # FREE => \A q \in first..m.rel :
                   FitsIn(m, Greater(s.size, Greater(s.pos, q * ClusterSize)), Greater(s.pos, q * ClusterSize))
  BY <1>1, <1>4, <1>10, WriteEnds
<1>11. \A m : Advanced(vol, dir, sft, i, m) => Grown(vol.fat, m.vol.fat)
  BY GrownFile
<1>12. full.rel \in Nat
  BY <1>7, RoomGrows
<1> HIDE DEF to, first, end
<1>13. CASE vol' = full.vol /\ Mapped(full, to) /\ Upto(full, end)
  <2>1. Ended(full, Greater(s.size, end), end)
    BY <1>13
  <2>3. FitsIn(full, Greater(s.size, end), end)
    BY <1>7, <1>10, <1>13
  <2> HIDE DEF Ended
  <2>4. Outcome(vol, dir, sft, vol', sft', sft[i].loc)
    BY <2>1, <2>3, <1>7, <1>9
  <2>5. Grown(vol.fat, vol'.fat)
    BY <1>7, <1>11, <1>13
  <2> QED
    BY <2>4, <2>5
<1>14. CASE vol' = full.vol /\ ~Mapped(full, to) /\ Onto(full) /\ Upto(full, (full.rel + 1) * ClusterSize)
  <2>1. full.cu # FREE /\ full.rel < to
    BY <1>5, <1>7, <1>12, <1>14 DEF Mapped
  <2>2. Ended(full, Greater(s.size, (full.rel + 1) * ClusterSize), (full.rel + 1) * ClusterSize)
    BY <1>14
  <2>3. FitsIn(full, Greater(s.size, (full.rel + 1) * ClusterSize), (full.rel + 1) * ClusterSize)
    BY <2>1, <1>7, <1>10, <1>14
  <2> HIDE DEF Ended
  <2>4. Outcome(vol, dir, sft, vol', sft', sft[i].loc)
    BY <2>2, <2>3, <1>7, <1>9
  <2>5. Grown(vol.fat, vol'.fat)
    BY <1>7, <1>11, <1>14
  <2> QED
    BY <2>4, <2>5
<1>15. CASE vol' = full.vol /\ ~Onto(full) /\ Less(full)
  <2>1. Ended(full, Stuck(s, full), s.pos)
    BY <1>15
  <2>3. FitsIn(full, Stuck(s, full), s.pos)
    BY <1>7, <1>10, <1>15
  <2> HIDE DEF Ended
  <2>4. Outcome(vol, dir, sft, vol', sft', sft[i].loc)
    BY <2>1, <2>3, <1>7, <1>9
  <2>5. Grown(vol.fat, vol'.fat)
    BY <1>7, <1>11, <1>15
  <2> QED
    BY <2>4, <2>5
<1>16. ASSUME NEW m \in Interrupted(begin, to, TRUE), vol' = m.vol,
              \/ UNCHANGED sft
              \/ IF Onto(m) THEN \E q \in first..m.rel : Upto(m, Greater(s.pos, q * ClusterSize)) ELSE Less(m)
       PROVE  Outcome(vol, dir, sft, vol', sft', sft[i].loc) /\ Grown(vol.fat, vol'.fat)
  <2>1. Advanced(vol, dir, sft, i, m) /\ m.rel =< to /\ Grown(vol.fat, vol'.fat)
    BY <1>8, <1>11, <1>16
  <2>2. CASE UNCHANGED sft
    BY <2>1, <2>2, <1>16, NoneOutcome
  <2>3. CASE Onto(m) /\ \E q \in first..m.rel : Upto(m, Greater(s.pos, q * ClusterSize))
    <3>1. PICK q \in first..m.rel : Upto(m, Greater(s.pos, q * ClusterSize))
      BY <2>3
    <3>2. FitsIn(m, Greater(s.size, Greater(s.pos, q * ClusterSize)), Greater(s.pos, q * ClusterSize))
      BY <2>1, <2>3, <1>10
    <3>3. Ended(m, Greater(s.size, Greater(s.pos, q * ClusterSize)), Greater(s.pos, q * ClusterSize))
      BY <3>1, <1>16
    <3> HIDE DEF Ended
    <3> QED
      BY <2>1, <3>2, <3>3, <1>9
  <2>4. CASE ~Onto(m) /\ Less(m)
    <3>1. Ended(m, Stuck(s, m), s.pos)
      BY <2>4, <1>16
    <3> HIDE DEF Ended
    <3> QED
      BY <2>1, <2>4, <3>1, <1>9, <1>10
  <2> QED
    BY <2>2, <2>3, <2>4, <1>16
<1> HIDE DEF Onto, Upto, Less, s
<1> QED
  BY <1>1, <1>13, <1>14, <1>15, <1>16

\* What reading and seeking do: nothing but to the SFT's position.
Browsed(i) ==
  /\ vol' = vol /\ dir' = dir /\ disk' = disk /\ saved' = saved /\ (Fine \/ Fault(FALSE))
  /\ \E m, pos : /\ Advanced(vol, dir, sft, i, m) /\ m.vol = vol /\ m.start = sft[i].start
                 /\ sft' = With(sft, i, NewOf(sft[i], m, sft[i].size, pos, sft[i].clean))
                 /\ FitsIn(m, sft[i].size, pos)

LEMMA ReadStep ==
  ASSUME NEW i, Ready(vol, dir, sft, i), NEW n \in Nat \ {0}, rwblock_read(i, n)
  PROVE  Browsed(i)
<1> DEFINE s == sft[i]
           end == Lesser(s.pos + n, s.size)
           to == (end - 1) \div ClusterSize
           begin == Rewound(Fnode(i), s.pos \div ClusterSize)
           no == FALSE
           full == map_cluster(Fnode(i), to, no)
<1>1. /\ s.pos < s.size /\ UNCHANGED <<vol, dir, disk, saved>>
      /\ \/ sft' = Back(i, full, s.size, end) /\ Fine
         \/ /\ \E m \in Interrupted(begin, to, no) :
                 sft' = Back(i, m, s.size, Greater(s.pos, Lesser(end, m.rel * ClusterSize)))
            /\ Fault(FALSE)
  BY Zenon DEF rwblock_read
<1>2. /\ vol \in VolOf /\ dir \in DirOf /\ sft \in SftsOf /\ i \in Sfts
  BY DEF Ready
<1>3. s \in SftOf
  BY <1>2 DEF SftsOf
<1>4. s.pos \in 0..MaxSize /\ s.size \in 0..MaxSize /\ s.clean \in BOOLEAN /\ MaxSize \in Nat
  BY <1>3, Sizes DEF SftOf
<1>5. end \in Nat /\ end =< MaxSize /\ end - 1 \in Nat
  BY <1>1, <1>4 DEF Lesser
<1>6. s.pos \div ClusterSize \in Nat
  BY <1>4, ClusterOf
<1> to \in Nat
  BY <1>5, ClusterOf
<1>7. /\ FnodeOK(begin) /\ begin.vol = vol /\ begin.start = sft[i].start
  BY <1>2, <1>6, BeginOK, FnodeFn
<1>8. FnodeOK(Fnode(i)) /\ Fnode(i).vol = vol /\ Fnode(i).start = sft[i].start
  BY <1>2, ReadyFacts, FnodeFn
<1> DEFINE m0 == Fnode(i)
<1>0. no \in BOOLEAN /\ no = FALSE
  OBVIOUS
<1> HIDE DEF no, begin, to, m0
<1>9. Advanced(vol, dir, sft, i, full) /\ full.vol = vol /\ full.start = s.start
  <2>1. FnodeOK(m0) /\ m0.vol = vol /\ m0.start = sft[i].start
    BY <1>8 DEF m0
  <2>2. full = map_cluster(m0, to, no)
    BY DEF m0
  <2> HIDE DEF full
  <2>3. StepGood(m0, full, to, no)
    BY ONLY <2>1, <2>2, <1>0, to \in Nat, MapOK
  <2>4. Gone(m0, full, to) /\ full.vol = m0.vol /\ full.start = m0.start
    BY <2>3, <1>0 DEF StepGood
  <2> QED
    BY <2>1, <2>4, GoneAdvanced
<1>10. ASSUME NEW m \in Interrupted(begin, to, no)
       PROVE  Advanced(vol, dir, sft, i, m) /\ m.vol = vol /\ m.start = s.start
  <2>1. Gone(begin, m, to) /\ m.vol = begin.vol /\ m.start = begin.start
    BY <1>0, <1>7, InterruptedOK
  <2> QED
    BY <2>1, <1>7, GoneAdvanced
<1> HIDE DEF full
<1>11. ASSUME NEW m, Advanced(vol, dir, sft, i, m), m.vol = vol, m.start = s.start, NEW pos \in 0..MaxSize,
              sft' = Back(i, m, s.size, pos)
       PROVE  \E x, p : /\ Advanced(vol, dir, sft, i, x) /\ x.vol = vol /\ x.start = sft[i].start
                        /\ sft' = With(sft, i, NewOf(sft[i], x, sft[i].size, p, sft[i].clean))
                        /\ FitsIn(x, sft[i].size, p)
  <2>1. sft' = With(sft, i, NewOf(sft[i], m, sft[i].size, pos, sft[i].clean))
    BY <1>2, <1>11, BackIs
  <2>2. FitsIn(m, sft[i].size, pos)
    BY <1>4, <1>11, RoomGrows DEF FitsIn
  <2> QED
    BY <2>1, <2>2, <1>11
<1>12. CASE sft' = Back(i, full, s.size, end) /\ Fine
  <2>1. end \in 0..MaxSize
    BY <1>5
  <2> HIDE DEF end
  <2>2. \E x, p : /\ Advanced(vol, dir, sft, i, x) /\ x.vol = vol /\ x.start = sft[i].start
                  /\ sft' = With(sft, i, NewOf(sft[i], x, sft[i].size, p, sft[i].clean))
                  /\ FitsIn(x, sft[i].size, p)
    BY <2>1, <1>9, <1>11, <1>12, Zenon
  <2> QED
    BY <2>2, <1>1, <1>12 DEF Browsed
<1>13. ASSUME NEW m \in Interrupted(begin, to, no),
              sft' = Back(i, m, s.size, Greater(s.pos, Lesser(end, m.rel * ClusterSize))), Fault(FALSE)
       PROVE  Browsed(i)
  <2> DEFINE p == Greater(s.pos, Lesser(end, m.rel * ClusterSize))
  <2>1. m.rel * ClusterSize \in Nat
    BY <1>10, RoomGrows, Sizes, Times
  <2>2. p \in 0..MaxSize
    BY <2>1, <1>4, <1>5 DEF Greater, Lesser
  <2>3. sft' = Back(i, m, s.size, p)
    BY <1>13
  <2> HIDE DEF p
  <2>4. \E x, q : /\ Advanced(vol, dir, sft, i, x) /\ x.vol = vol /\ x.start = sft[i].start
                  /\ sft' = With(sft, i, NewOf(sft[i], x, sft[i].size, q, sft[i].clean))
                  /\ FitsIn(x, sft[i].size, q)
    BY <2>2, <2>3, <1>10, <1>11, Zenon
  <2> QED
    BY <2>4, <1>1, <1>13 DEF Browsed
<1> HIDE DEF s, end
<1> QED
  BY <1>1, <1>12, <1>13

LEMMA SeekStep ==
  ASSUME NEW i, Ready(vol, dir, sft, i), NEW pos \in Seeks, SftSeek(i, pos)
  PROVE  Browsed(i)
<1>1. /\ sft' = [sft EXCEPT ![i].pos = pos] /\ UNCHANGED <<vol, dir, disk, saved>> /\ Fine
  BY DEF SftSeek
<1>2. /\ vol \in VolOf /\ dir \in DirOf /\ sft \in SftsOf /\ i \in Sfts
  BY DEF Ready
<1>3. sft[i] \in SftOf /\ sft \in [Sfts -> SftOf]
  BY <1>2 DEF SftsOf
<1>4. pos \in 0..MaxSize /\ sft[i].size \in 0..MaxSize
  BY <1>3, FatFsAssumption DEF SftOf
<1> DEFINE m == Fn(vol, sft[i])
<1>5. [sft[i] EXCEPT !.pos = pos] = NewOf(sft[i], m, sft[i].size, pos, sft[i].clean)
  BY <1>3 DEF SftOf, NewOf, Fn
<1>6. sft' = With(sft, i, NewOf(sft[i], m, sft[i].size, pos, sft[i].clean))
  BY <1>1, <1>3, <1>5 DEF With
<1>7. Advanced(vol, dir, sft, i, m) /\ m.vol = vol /\ m.start = sft[i].start
  BY ReadyFacts
<1> HIDE DEF m
<1>8. FitsIn(m, sft[i].size, pos)
  BY <1>4, <1>7, RoomGrows DEF FitsIn
<1> QED
  BY <1>1, <1>6, <1>7, <1>8, Zenon DEF Browsed

LEMMA BrowsedOutcome ==
  ASSUME NEW i, Ready(vol, dir, sft, i), Browsed(i)
  PROVE  Outcome(vol, dir, sft, vol', sft', sft[i].loc)
<1>1. PICK m, pos :
        /\ Advanced(vol, dir, sft, i, m) /\ m.vol = vol /\ m.start = sft[i].start
        /\ sft' = With(sft, i, NewOf(sft[i], m, sft[i].size, pos, sft[i].clean))
        /\ FitsIn(m, sft[i].size, pos)
  BY Zenon DEF Browsed
<1>2. vol' = vol
  BY DEF Browsed
<1> DEFINE size == sft[i].size
           clean == sft[i].clean
<1>3. clean \in BOOLEAN
  BY DEF Ready, SftsOf, SftOf
<1>4. clean => sft[i].clean /\ m.start = sft[i].start /\ size = sft[i].size
  BY <1>1
<1>5. FitsIn(m, size, pos) /\ Moved(vol, dir, sft, i, m)
  BY <1>1, AdvancedMoved
<1>6. sft' = With(sft, i, NewOf(sft[i], m, size, pos, clean))
  BY <1>1
<1> HIDE DEF size, clean
<1>7. Outcome(vol, dir, sft, m.vol, With(sft, i, NewOf(sft[i], m, size, pos, clean)), sft[i].loc)
  BY <1>3, <1>4, <1>5, FileOutcome
<1> QED
  BY <1>1, <1>2, <1>6, <1>7

LEMMA LastByteIs ==
  ASSUME NEW pos \in Nat
  PROVE  /\ LastByte(pos) \in Nat /\ pos =< (LastByte(pos) + 1) * ClusterSize
         /\ pos = 0 => LastByte(pos) = 0
         /\ pos > 0 => LastByte(pos) * ClusterSize < pos
<1>1. CASE pos > 0
  <2> DEFINE q == (pos - 1) \div ClusterSize
  <2>1. pos - 1 \in Nat
    BY <1>1
  <2>2. q \in Nat /\ q * ClusterSize =< pos - 1 /\ pos - 1 < (q + 1) * ClusterSize
    BY <2>1, ClusterOf
  <2>3. LastByte(pos) = q
    BY <1>1 DEF LastByte
  <2> HIDE DEF q
  <2>4. q * ClusterSize \in Nat /\ (q + 1) * ClusterSize = q * ClusterSize + ClusterSize /\ ClusterSize \in Nat
    BY <2>2, Sizes, Times
  <2> DEFINE x == q * ClusterSize
             y == (q + 1) * ClusterSize
  <2>5. x \in Nat /\ y \in Nat /\ x =< pos - 1 /\ pos - 1 < y
    BY <2>2, <2>4
  <2> HIDE DEF x, y
  <2>6. pos =< y /\ x < pos
    BY <2>5
  <2> QED
    BY <2>2, <2>3, <2>6, <1>1 DEF x, y
<1>2. CASE pos = 0
  <2>1. LastByte(pos) = 0 \div ClusterSize
    BY <1>2 DEF LastByte
  <2>2. 0 \div ClusterSize = 0
    <3>1. (0 * ClusterSize + 0) \div ClusterSize = 0
      BY Sizes, DivUnique
    <3> QED
      BY <3>1, Sizes
  <2>3. (0 + 1) * ClusterSize \in Nat
    BY Sizes, Times
  <2> QED
    BY <1>2, <2>1, <2>2, <2>3
<1> QED
  BY <1>1, <1>2

\* Where the chain is too short for the position, and where it is long enough.
LEMMA TruncEnds ==
  ASSUME NEW v, NEW d, NEW s, NEW i, NEW m, Advanced(v, d, s, i, m), m.rel =< LastByte(s[i].pos)
  PROVE  /\ s[i].pos > s[i].size /\ ~Mapped(m, LastByte(s[i].pos)) => FitsIn(m, Stuck(s[i], m), s[i].pos)
         /\ Mapped(m, LastByte(s[i].pos)) => FitsIn(m, s[i].pos, s[i].pos)
<1> DEFINE room == Room(m.vol.fat, m.start)
           size == s[i].size
           pos == s[i].pos
           last == LastByte(pos)
           up == (m.rel + 1) * ClusterSize
<1>1. /\ room \in Nat /\ size =< room /\ (m.cu # FREE => up =< room)
      /\ m.rel \in Nat /\ size \in Nat /\ pos \in Nat /\ size =< MaxSize /\ pos =< MaxSize
      /\ MaxSize \in Nat
  BY RoomGrows, Sizes
<1>2. last \in Nat /\ pos =< (last + 1) * ClusterSize /\ (pos > 0 => last * ClusterSize < pos)
  BY <1>1, LastByteIs
<1>3. last * ClusterSize \in Nat /\ (last + 1) * ClusterSize \in Nat /\ up \in Nat
  BY <1>1, <1>2, Sizes, Times
<1>4. ASSUME pos > size, ~Mapped(m, last)
      PROVE  FitsIn(m, Stuck(s[i], m), pos)
  <2>1. CASE m.cu = FREE
    <3>1. Stuck(s[i], m) = size
      BY <2>1 DEF Stuck
    <3> HIDE DEF size, pos, room
    <3> QED
      BY <3>1, <1>1 DEF FitsIn, room
  <2>2. CASE m.cu # FREE
    <3>1. Stuck(s[i], m) = up
      BY <2>2, <1>4 DEF Stuck
    <3>2. m.rel # last /\ m.rel =< last
      BY <2>2, <1>4 DEF Mapped
    <3> HIDE DEF size, pos, room, last
    <3>3. m.rel < last
      BY <3>2, <1>1, <1>2
    <3>4. up =< last * ClusterSize
      BY <3>3, <1>1, <1>2, Sizes, Times
    <3>5. pos > 0
      BY <1>4, <1>1
    <3> DEFINE x == last * ClusterSize
    <3>6. x \in Nat /\ x < pos /\ up =< x
      BY <3>4, <3>5, <1>2, <1>3
    <3> HIDE DEF x, up
    <3>7. up =< MaxSize /\ up =< room
      BY <3>6, <1>1, <1>3, <2>2
    <3> QED
      BY <3>1, <3>7, <1>1, <1>3 DEF FitsIn, room
  <2> QED
    BY <2>1, <2>2
<1>5. ASSUME Mapped(m, last)
      PROVE  FitsIn(m, pos, pos)
  <2>1. m.cu # FREE /\ m.rel = last
    BY <1>5 DEF Mapped
  <2>2. up = (last + 1) * ClusterSize
    BY <2>1
  <2> HIDE DEF up, room, pos, last, size
  <2>3. pos =< up /\ up =< room /\ up \in Nat
    BY <2>1, <2>2, <1>1, <1>2, <1>3
  <2>4. pos =< room
    BY ONLY <2>3, <1>1
  <2> QED
    BY <2>4, <1>1 DEF FitsIn, room
<1> QED
  BY <1>4, <1>5

\* The chain of an open file, cut after a cluster of it, is one that file can have.
LEMMA ShrunkMoved ==
  ASSUME NEW v, NEW d, NEW s, NEW i, NEW m, Advanced(v, d, s, i, m), Mapped(m, LastByte(s[i].pos)),
         NEW k \in 0..Len(Chain(m.vol.fat, m.vol.fat[m.cu]))
  PROVE  /\ Shrunk(m, s[i].pos, k).vol \in VolOf
         /\ Moved(v, d, s, i, Shrunk(m, s[i].pos, k))
         /\ FitsIn(Shrunk(m, s[i].pos, k), s[i].pos, s[i].pos)
         /\ s[i].pos > 0 /\ m.vol.fat[m.cu] = LAST => Advanced(v, d, s, i, Shrunk(m, s[i].pos, k))
<1> DEFINE t == Shrunk(m, s[i].pos, k)
           pos == s[i].pos
<1>1. FnodeOK(m) /\ Lengthened(v.fat, s[i].start, m.vol.fat, m.start)
  BY DEF Advanced
<1>2. pos \in Nat /\ pos \in 0..MaxSize
  BY RoomGrows
<1>3. m.cu # FREE /\ m.rel = LastByte(pos)
  BY DEF Mapped
<1>4. pos = 0 => m.rel = 0
  BY <1>2, <1>3, LastByteIs
<1>5. /\ FnodeOK(t)
      /\ Len(Chain(t.vol.fat, t.start)) = IF pos = 0 THEN 0 ELSE m.rel + 1
      /\ \A y \in ToSet(Chain(t.vol.fat, t.start)) : y \in ToSet(Chain(m.vol.fat, m.start))
      /\ \A y \in Clusters : y \notin ToSet(Chain(m.vol.fat, m.start)) => t.vol.fat[y] = m.vol.fat[y]
      /\ pos # 0 /\ m.vol.fat[m.cu] = LAST => t.vol.fat = m.vol.fat /\ t.start = m.start
  <2>1. ShrunkTo(m, pos, k, t)
    BY <1>1, <1>2, <1>3, <1>4, ShrunkOK
  <2> HIDE DEF t
  <2> QED
    BY <2>1 DEF ShrunkTo
<1> HIDE DEF t
<1>6. \A y \in ToSet(Chain(t.vol.fat, t.start)) : y \in ToSet(Chain(v.fat, s[i].start)) \/ v.fat[y] = FREE
  BY <1>1, <1>5 DEF Lengthened, Free
<1>7. \A y \in Clusters : t.vol.fat[y] = v.fat[y] \/ v.fat[y] = FREE \/ y \in ToSet(Chain(v.fat, s[i].start))
  <2> SUFFICES ASSUME NEW y \in Clusters
               PROVE  t.vol.fat[y] = v.fat[y] \/ v.fat[y] = FREE \/ y \in ToSet(Chain(v.fat, s[i].start))
    OBVIOUS
  <2>1. CASE y \in ToSet(Chain(m.vol.fat, m.start))
    BY <2>1, <1>1 DEF Lengthened, Free
  <2>2. CASE y \notin ToSet(Chain(m.vol.fat, m.start))
    <3>1. t.vol.fat[y] = m.vol.fat[y]
      BY <2>2, <1>5
    <3> QED
      BY <3>1, <1>1 DEF Lengthened, Free
  <2> QED
    BY <2>1, <2>2
<1>8. Moved(v, d, s, i, t)
  BY <1>5, <1>6, <1>7 DEF Moved, Advanced
<1>9. FitsIn(t, pos, pos)
  <2>1. Room(t.vol.fat, t.start) = (IF pos = 0 THEN 0 ELSE m.rel + 1) * ClusterSize
    BY <1>5 DEF Room
  <2>2. pos =< (LastByte(pos) + 1) * ClusterSize
    BY <1>2, LastByteIs
  <2>3. CASE pos = 0
    <3>1. 0 * ClusterSize = 0
      BY Sizes
    <3>2. Room(t.vol.fat, t.start) = 0
      BY <2>1, <2>3, <3>1
    <3> QED
      BY <3>2, <2>3, <1>2 DEF FitsIn
  <2>4. CASE pos # 0
    <3>1. Room(t.vol.fat, t.start) = (LastByte(pos) + 1) * ClusterSize
      BY <2>1, <2>4, <1>3
    <3> HIDE DEF pos
    <3> QED
      BY <3>1, <2>2, <1>2 DEF FitsIn
  <2> QED
    BY <2>3, <2>4
<1>10. t.vol \in VolOf
  BY <1>5, FnodeFacts
<1>11. ASSUME pos > 0, m.vol.fat[m.cu] = LAST
       PROVE  Advanced(v, d, s, i, t)
  <2>1. t.vol.fat = m.vol.fat /\ t.start = m.start
    BY <1>5, <1>11
  <2> QED
    BY <2>1, <1>1, <1>5 DEF Advanced
<1> QED
  BY <1>8, <1>9, <1>10, <1>11 DEF t

\* How a write of nothing ends.
TruncEnded(i) ==
  /\ dir' = dir
  /\ \/ /\ Outcome(vol, dir, sft, vol', sft', sft[i].loc) /\ Grown(vol.fat, vol'.fat)
        /\ Unflushed(sft[i].loc) /\ (Fine \/ Fault(FALSE))
     \/ /\ Outcome(vol, dir, sft, vol', sft', sft[i].loc)
        /\ flush_buffers /\ (Fine \/ Fault(FALSE))
     \/ vol' \in VolOf /\ sft' = sft /\ Unflushed(sft[i].loc) /\ Fault(TRUE)

LEMMA TruncStep ==
  ASSUME NEW i, Ready(vol, dir, sft, i), rwblock_trunc(i)
  PROVE  TruncEnded(i)
<1> DEFINE s == sft[i]
           last == LastByte(s.pos)
           grow == s.pos > s.size
           m == map_cluster(Fnode(i), last, grow)
           rest == IF m.cu = FREE THEN 0 ELSE Len(Chain(m.vol.fat, m.vol.fat[m.cu]))
           Ends(x, size) == sft' = [Back(i, x, size, s.pos) EXCEPT ![i].clean = FALSE]
<1>1. /\ UNCHANGED dir
      /\ \/ /\ vol' = vol /\ Ends(Fnode(i), 0) /\ Unflushed(s.loc) /\ Fine
         \/ /\ s.pos > s.size /\ ~Mapped(m, last)
            /\ vol' = m.vol /\ Ends(m, Stuck(s, m)) /\ Unflushed(s.loc) /\ Fine
         \/ /\ Mapped(m, last)
            /\ \E k \in 0..rest :
                 /\ IF s.pos > 0 /\ m.vol.fat[m.cu] = LAST
                    THEN vol' = m.vol /\ Ends(m, s.pos) /\ Unflushed(s.loc)
                    ELSE /\ vol' = Shrunk(m, s.pos, k).vol /\ Ends(Shrunk(m, s.pos, k), s.pos)
                         /\ dir' = dir /\ flush_buffers
                 /\ (Fault(FALSE) \/ Fine)
         \/ /\ Mapped(m, last)
            /\ \E k \in 0..rest : vol' = Shrunk(m, s.pos, k).vol
            /\ sft' = sft /\ Unflushed(s.loc)
            /\ Fault(s.pos = 0 \/ m.vol.fat[m.cu] # LAST)
         \/ /\ \E x \in Interrupted(Fnode(i), last, grow) :
                 /\ vol' = x.vol /\ Unflushed(s.loc)
                 /\ \/ sft' = sft
                    \/ s.pos > s.size /\ ~Mapped(x, last) /\ Ends(x, Stuck(s, x))
            /\ Fault(FALSE)
  BY Zenon DEF rwblock_trunc
<1>2. /\ vol \in VolOf /\ dir \in DirOf /\ sft \in SftsOf /\ i \in Sfts
  BY DEF Ready
<1>3. s.pos \in 0..MaxSize /\ s.size \in 0..MaxSize /\ s.pos \in Nat
  BY <1>2, Sizes DEF SftsOf, SftOf
<1>4. last \in Nat
  BY <1>3, LastByteIs
<1> DEFINE m0 == Fnode(i)
<1>5. FnodeOK(m0) /\ m0.vol = vol /\ m0.start = sft[i].start /\ Advanced(vol, dir, sft, i, m0)
  BY <1>2, ReadyFacts, FnodeFn
<1>6. grow \in BOOLEAN
  OBVIOUS
<1> HIDE DEF grow, last
<1>7. Advanced(vol, dir, sft, i, m) /\ m.rel =< last
  <2>1. m = map_cluster(m0, last, grow)
    OBVIOUS
  <2> HIDE DEF m, m0
  <2>2. StepGood(m0, m, last, grow)
    BY ONLY <2>1, <1>4, <1>5, <1>6, MapOK
  <2>3. Gone(m0, m, last)
    BY <2>2 DEF StepGood
  <2> QED
    BY <1>5, <2>3, GoneAdvanced
<1>8. ASSUME NEW x \in Interrupted(m0, last, grow)
      PROVE  Advanced(vol, dir, sft, i, x) /\ x.rel =< last
  <2> HIDE DEF m0
  <2>1. Gone(m0, x, last)
    BY <1>4, <1>5, <1>6, InterruptedOK
  <2> QED
    BY <1>5, <2>1, GoneAdvanced
<1> DEFINE Ended(x, size) == vol' = x.vol /\ Ends(x, size)
<1>9. ASSUME NEW x, Moved(vol, dir, sft, i, x), NEW size, FitsIn(x, size, s.pos), Ended(x, size)
      PROVE  Outcome(vol, dir, sft, vol', sft', sft[i].loc)
  <2>1. sft' = With(sft, i, NewOf(sft[i], x, size, s.pos, FALSE)) /\ vol' = x.vol
    BY <1>2, <1>9, BackIs
  <2>2. Outcome(vol, dir, sft, x.vol, With(sft, i, NewOf(sft[i], x, size, s.pos, FALSE)), sft[i].loc)
    BY <1>9, FileOutcome
  <2> QED
    BY <2>1, <2>2
<1>10. ASSUME NEW x, Advanced(vol, dir, sft, i, x), x.rel =< last
       PROVE  /\ s.pos > s.size /\ ~Mapped(x, last) => FitsIn(x, Stuck(s, x), s.pos)
              /\ Mapped(x, last) => FitsIn(x, s.pos, s.pos)
  BY <1>10, TruncEnds DEF last
<1>11. \A x : Advanced(vol, dir, sft, i, x) => Grown(vol.fat, x.vol.fat) /\ Moved(vol, dir, sft, i, x)
  BY GrownFile, AdvancedMoved
<1> HIDE DEF m, m0, Ended
<1>12. CASE vol' = vol /\ Ends(Fnode(i), 0) /\ Unflushed(s.loc) /\ Fine
  <2>1. FitsIn(m0, 0, s.pos)
    <3>1. 0 \in 0..MaxSize /\ 0 =< Room(m0.vol.fat, m0.start)
      BY <1>5, RoomGrows, Sizes
    <3> QED
      BY <3>1, <1>3 DEF FitsIn
  <2>2. Ended(m0, 0)
    BY <1>5, <1>12 DEF Ended, m0
  <2>3. Outcome(vol, dir, sft, vol', sft', sft[i].loc)
    BY <2>1, <2>2, <1>5, <1>9, <1>11
  <2>4. Grown(vol.fat, vol'.fat)
    BY <1>12 DEF Grown
  <2> QED
    BY <2>3, <2>4, <1>1, <1>12 DEF TruncEnded
<1>13. CASE /\ s.pos > s.size /\ ~Mapped(m, last)
            /\ vol' = m.vol /\ Ends(m, Stuck(s, m)) /\ Unflushed(s.loc) /\ Fine
  <2>1. FitsIn(m, Stuck(s, m), s.pos) /\ Ended(m, Stuck(s, m))
    BY <1>7, <1>10, <1>13 DEF Ended
  <2>2. Outcome(vol, dir, sft, vol', sft', sft[i].loc)
    BY <2>1, <1>7, <1>9, <1>11
  <2>3. Grown(vol.fat, vol'.fat)
    BY <1>7, <1>11, <1>13
  <2> QED
    BY <2>2, <2>3, <1>1, <1>13 DEF TruncEnded
<1>14. ASSUME Mapped(m, last), NEW k \in 0..rest
       PROVE  /\ Shrunk(m, s.pos, k).vol \in VolOf
              /\ Moved(vol, dir, sft, i, Shrunk(m, s.pos, k))
              /\ FitsIn(Shrunk(m, s.pos, k), s.pos, s.pos)
              /\ s.pos > 0 /\ m.vol.fat[m.cu] = LAST => Advanced(vol, dir, sft, i, Shrunk(m, s.pos, k))
  <2>1. m.cu # FREE
    BY <1>14 DEF Mapped
  <2>2. k \in 0..Len(Chain(m.vol.fat, m.vol.fat[m.cu]))
    BY <2>1
  <2>3. Mapped(m, LastByte(sft[i].pos))
    BY <1>14 DEF last
  <2> QED
    BY <2>2, <2>3, <1>7, ShrunkMoved
<1>15. ASSUME Mapped(m, last), NEW k \in 0..rest,
              \/ vol' = m.vol /\ Ends(m, s.pos) /\ Unflushed(s.loc)
              \/ vol' = Shrunk(m, s.pos, k).vol /\ Ends(Shrunk(m, s.pos, k), s.pos) /\ flush_buffers,
              Fault(FALSE) \/ Fine
       PROVE  TruncEnded(i)
  <2>1. CASE vol' = m.vol /\ Ends(m, s.pos) /\ Unflushed(s.loc)
    <3>1. FitsIn(m, s.pos, s.pos) /\ Ended(m, s.pos)
      BY <1>7, <1>10, <1>15, <2>1 DEF Ended
    <3>2. Outcome(vol, dir, sft, vol', sft', sft[i].loc)
      BY <3>1, <1>7, <1>9, <1>11
    <3>3. Grown(vol.fat, vol'.fat)
      BY <1>7, <1>11, <2>1
    <3> QED
      BY <3>2, <3>3, <1>1, <1>15, <2>1 DEF TruncEnded
  <2>2. CASE vol' = Shrunk(m, s.pos, k).vol /\ Ends(Shrunk(m, s.pos, k), s.pos) /\ flush_buffers
    <3> DEFINE t == Shrunk(m, s.pos, k)
    <3>1. Moved(vol, dir, sft, i, t) /\ FitsIn(t, s.pos, s.pos)
      BY <1>14, <1>15
    <3>2. Ended(t, s.pos)
      BY <2>2 DEF Ended
    <3> HIDE DEF t
    <3>3. Outcome(vol, dir, sft, vol', sft', sft[i].loc)
      BY <3>1, <3>2, <1>9
    <3> QED
      BY <3>3, <1>1, <1>15, <2>2 DEF TruncEnded
  <2> QED
    BY <2>1, <2>2, <1>15
<1>16. ASSUME Mapped(m, last), NEW k \in 0..rest, vol' = Shrunk(m, s.pos, k).vol, sft' = sft, Unflushed(s.loc),
              Fault(s.pos = 0 \/ m.vol.fat[m.cu] # LAST)
       PROVE  TruncEnded(i)
  <2>1. CASE s.pos > 0 /\ m.vol.fat[m.cu] = LAST
    <3> DEFINE t == Shrunk(m, s.pos, k)
    <3>1. Advanced(vol, dir, sft, i, t) /\ vol' = t.vol
      BY <1>14, <1>16, <2>1
    <3> HIDE DEF t
    <3>2. Outcome(vol, dir, sft, vol', sft', sft[i].loc)
      BY <3>1, <1>16, NoneOutcome
    <3>3. Grown(vol.fat, vol'.fat)
      BY <3>1, <1>11
    <3> DEFINE bad == s.pos = 0 \/ m.vol.fat[m.cu] # LAST
    <3> HIDE DEF bad
    <3>4. bad = FALSE
      BY <1>3, <2>1 DEF bad
    <3>5. Fault(bad)
      BY <1>16 DEF bad
    <3>6. Fault(FALSE)
      BY <3>4, <3>5
    <3> QED
      BY <3>2, <3>3, <3>6, <1>1, <1>16 DEF TruncEnded
  <2>2. CASE ~ (s.pos > 0 /\ m.vol.fat[m.cu] = LAST)
    <3> DEFINE bad == s.pos = 0 \/ m.vol.fat[m.cu] # LAST
    <3> HIDE DEF bad
    <3>3. bad = TRUE
      BY <1>3, <2>2 DEF bad
    <3>4. Fault(bad)
      BY <1>16 DEF bad
    <3>1. Fault(TRUE)
      BY <3>3, <3>4
    <3>2. vol' \in VolOf
      BY <1>14, <1>16
    <3> QED
      BY <3>1, <3>2, <1>1, <1>16 DEF TruncEnded
  <2> QED
    BY <2>1, <2>2
<1>17. ASSUME NEW x \in Interrupted(m0, last, grow), vol' = x.vol, Unflushed(s.loc),
              \/ sft' = sft
              \/ s.pos > s.size /\ ~Mapped(x, last) /\ Ends(x, Stuck(s, x)),
              Fault(FALSE)
       PROVE  TruncEnded(i)
  <2>1. Advanced(vol, dir, sft, i, x) /\ x.rel =< last
    BY <1>8
  <2>2. Grown(vol.fat, vol'.fat)
    BY <2>1, <1>11, <1>17
  <2>3. CASE sft' = sft
    <3>1. Outcome(vol, dir, sft, vol', sft', sft[i].loc)
      BY <2>1, <2>3, <1>17, NoneOutcome
    <3> QED
      BY <3>1, <2>2, <1>1, <1>17 DEF TruncEnded
  <2>4. CASE s.pos > s.size /\ ~Mapped(x, last) /\ Ends(x, Stuck(s, x))
    <3>1. FitsIn(x, Stuck(s, x), s.pos)
      BY <2>1, <2>4, <1>10
    <3>2. Ended(x, Stuck(s, x))
      BY <2>4, <1>17 DEF Ended
    <3>3. Outcome(vol, dir, sft, vol', sft', sft[i].loc)
      BY <3>1, <3>2, <2>1, <1>9, <1>11
    <3> QED
      BY <3>3, <2>2, <1>1, <1>17 DEF TruncEnded
  <2> QED
    BY <2>3, <2>4, <1>17
<1>18. m0 = Fnode(i)
  BY DEF m0
<1> HIDE DEF s, rest, Ends
<1> QED
  BY <1>1, <1>12, <1>13, <1>15, <1>16, <1>17, <1>18

\* The volume, entries and SFTs between calls.
Sound(v, d, s) == v \in VolOf /\ d \in DirOf /\ s \in SftsOf /\ GoodVol(v, d, s)

\* What a change of entries, that of the file at l before all, leaves of the others.
Kept(f, d, s, g, d2, s2, l) ==
  \A k \in Files(d) : k # l =>
    /\ k \in Files(d2) /\ Chain(g, St(d2, s2)[k]) = Chain(f, St(d, s)[k])
    /\ St(d2, s2)[k] = St(d, s)[k] /\ Sz(d2, s2)[k] = Sz(d, s)[k]
    /\ \A x \in ToSet(Chain(f, St(d, s)[k])) : g[x] = f[x]

LEMMA SoundFacts ==
  ASSUME NEW v, NEW d, NEW s, Sound(v, d, s)
  PROVE  /\ v \in VolOf /\ v.fat \in FatOf /\ d \in DirOf /\ s \in SftsOf
         /\ CountOK(v) /\ FilesOK(v.fat, d, s) /\ SftsOK(d, s) /\ DirsOK(d) /\ HeldOK(v.fat, d)
         /\ VolFit(v.fat, Files(d), St(d, s), Sz(d, s)) /\ Cached(v.fat, s)
  BY DEF Sound, GoodVol, FilesOK, VolOf

\* An entry that is not open is what its file is.
LEMMA IdleIs ==
  ASSUME NEW d, NEW s, NEW k \in Locs, At(s, k) = {}
  PROVE  St(d, s)[k] = d[k].start /\ Sz(d, s)[k] = d[k].size
  BY DEF St, Sz, StartIn, SizeIn

LEMMA IdleFile ==
  ASSUME NEW v, NEW d, NEW s, Sound(v, d, s), NEW k \in Files(d), At(s, k) = {}
  PROVE  /\ k \in Locs /\ St(d, s)[k] = d[k].start /\ Sz(d, s)[k] = d[k].size
         /\ Whole(v.fat, d[k].start) /\ d[k].size =< Room(v.fat, d[k].start)
         /\ d[k].start \in Clusters \cup {FREE} /\ d[k].size \in 0..MaxSize
         /\ d[k].name \in Names /\ d[k] \in Entries
<1>1. k \in Locs /\ d[k].name \in Names
  BY DEF Files
<1>2. d \in DirOf /\ VolFit(v.fat, Files(d), St(d, s), Sz(d, s))
  BY SoundFacts
<1>3. d[k] \in Entries
  BY <1>1, <1>2 DEF DirOf
<1>4. d[k].start \in Clusters \cup {FREE} /\ d[k].size \in 0..MaxSize
  BY <1>3 DEF Entries
<1>5. St(d, s)[k] = d[k].start /\ Sz(d, s)[k] = d[k].size
  BY <1>1, IdleIs
<1>6. Whole(v.fat, St(d, s)[k]) /\ Sz(d, s)[k] =< Room(v.fat, St(d, s)[k])
  BY <1>2 DEF VolFit
<1> QED
  BY <1>1, <1>3, <1>4, <1>5, <1>6

\* One entry changes, or a file goes from entry l to entry n.
EntryChange(v, d, s, w, d2, l, n) ==
  /\ Sound(v, d, s) /\ w \in VolOf /\ CountOK(w) /\ d2 \in DirOf /\ DirsOK(d2)
  /\ l \in Locs /\ n \in Locs /\ At(s, l) = {} /\ At(s, n) = {}
  /\ Files(d2) \ {n} = Files(d) \ {l}
  /\ \A k \in Locs : d2[k] = d[k] \/ (k \in {l, n} /\ d2[k].name # Junk /\ d[k].name # Junk)
  /\ Dir(d2) = Dir(d)
  /\ \A k \in Dir(d) \cap {l, n} : d2[k].start = d[k].start /\ w.fat = v.fat
  /\ \A x \in Clusters :
       w.fat[x] = v.fat[x] \/ v.fat[x] = FREE \/ (l \in Files(d) /\ x \in ToSet(Chain(v.fat, d[l].start)))
  /\ n \in Files(d2) =>
       /\ Whole(w.fat, d2[n].start) /\ d2[n].size =< Room(w.fat, d2[n].start)
       /\ \A x \in ToSet(Chain(w.fat, d2[n].start)) :
            v.fat[x] = FREE \/ (l \in Files(d) /\ x \in ToSet(Chain(v.fat, d[l].start)))

LEMMA EntryOK ==
  ASSUME NEW v, NEW d, NEW s, NEW w, NEW d2, NEW l, NEW n, EntryChange(v, d, s, w, d2, l, n)
  PROVE  Sound(w, d2, s) /\ Kept(v.fat, d, s, w.fat, d2, s, l)
<1>1. /\ Sound(v, d, s) /\ w \in VolOf /\ CountOK(w) /\ d2 \in DirOf /\ DirsOK(d2)
      /\ l \in Locs /\ n \in Locs /\ At(s, l) = {} /\ At(s, n) = {}
      /\ Files(d2) \ {n} = Files(d) \ {l}
      /\ \A k \in Locs : d2[k] = d[k] \/ (k \in {l, n} /\ d2[k].name # Junk /\ d[k].name # Junk)
      /\ Dir(d2) = Dir(d)
      /\ \A k \in Dir(d) \cap {l, n} : d2[k].start = d[k].start /\ w.fat = v.fat
      /\ \A x \in Clusters :
           w.fat[x] = v.fat[x] \/ v.fat[x] = FREE \/ (l \in Files(d) /\ x \in ToSet(Chain(v.fat, d[l].start)))
      /\ n \in Files(d2) =>
           /\ Whole(w.fat, d2[n].start) /\ d2[n].size =< Room(w.fat, d2[n].start)
           /\ \A x \in ToSet(Chain(w.fat, d2[n].start)) :
                v.fat[x] = FREE \/ (l \in Files(d) /\ x \in ToSet(Chain(v.fat, d[l].start)))
  BY DEF EntryChange
<1>2. /\ v.fat \in FatOf /\ d \in DirOf /\ s \in SftsOf
      /\ FilesOK(v.fat, d, s) /\ SftsOK(d, s) /\ DirsOK(d) /\ HeldOK(v.fat, d) /\ Cached(v.fat, s)
  BY <1>1, SoundFacts
<1>3. \A k \in Files(d) : k \in Locs
  BY DEF Files
<1>4. \A j \in Sfts : s[j].loc # l /\ s[j].loc # n
  BY <1>1 DEF At
<1>5. SftsOK(d2, s)
  <2>1. ASSUME NEW j \in Sfts, s[j] # Closed
        PROVE  /\ s[j].loc \in Files(d2) /\ ~d2[s[j].loc].isdir
               /\ s[j].clean => d2[s[j].loc].start = s[j].start /\ d2[s[j].loc].size = s[j].size
    <3>1. /\ s[j].loc \in Files(d) /\ ~d[s[j].loc].isdir
          /\ s[j].clean => d[s[j].loc].start = s[j].start /\ d[s[j].loc].size = s[j].size
      BY <1>2, <2>1 DEF SftsOK
    <3>2. d2[s[j].loc] = d[s[j].loc]
      BY <1>1, <1>3, <1>4, <3>1
    <3>3. s[j].loc \in Files(d2)
      BY <1>1, <1>4, <3>1
    <3> QED
      BY <3>1, <3>2, <3>3
  <2>2. \A i, j \in Sfts : s[i].loc = s[j].loc /\ s[i] # Closed => i = j
    BY <1>2 DEF SftsOK
  <2> QED
    BY <2>1, <2>2 DEF SftsOK
<1>6. \A k \in Files(d) \ {l} : /\ St(d2, s)[k] = St(d, s)[k] /\ Sz(d2, s)[k] = Sz(d, s)[k]
                              /\ k \in Files(d2)
  <2> SUFFICES ASSUME NEW k \in Files(d) \ {l}
               PROVE  St(d2, s)[k] = St(d, s)[k] /\ Sz(d2, s)[k] = Sz(d, s)[k] /\ k \in Files(d2)
    OBVIOUS
  <2>1. k \in Files(d2) /\ k # n /\ k \in Locs
    BY <1>1, <1>3
  <2>2. d2[k] = d[k]
    BY <1>1, <2>1
  <2> QED
    BY <2>1, <2>2, <1>2, StKept
<1>7. /\ St(d, s)[l] = d[l].start
      /\ St(d2, s)[n] = d2[n].start /\ Sz(d2, s)[n] = d2[n].size
  BY <1>1, IdleIs
<1>8. Changes(v.fat, d, s, w.fat, d2, s, l, n)
  <2>1. \A x \in Clusters : \/ w.fat[x] = v.fat[x] \/ v.fat[x] = FREE
                            \/ (l \in Files(d) /\ x \in ToSet(Chain(v.fat, St(d, s)[l])))
    BY <1>1, <1>7
  <2>2. n \in Files(d2) =>
          /\ Whole(w.fat, St(d2, s)[n]) /\ Sz(d2, s)[n] =< Room(w.fat, St(d2, s)[n])
          /\ \A x \in ToSet(Chain(w.fat, St(d2, s)[n])) :
               v.fat[x] = FREE \/ (l \in Files(d) /\ x \in ToSet(Chain(v.fat, St(d, s)[l])))
    BY <1>1, <1>7
  <2>3. \A j \in Sfts : s[j] # Closed =>
          Placed(w.fat, s[j].start, s[j].cu, s[j].rel) \/ (s[j] = s[j] /\ s[j].loc # l)
    BY <1>4
  <2>4. \A k \in Files(d) \ {l} : St(d2, s)[k] = St(d, s)[k] /\ Sz(d2, s)[k] = Sz(d, s)[k]
    BY <1>6
  <2> QED
    BY <1>1, <1>2, <1>5, <2>1, <2>2, <2>3, <2>4 DEF Changes
<1>9. /\ FilesOK(w.fat, d2, s)
      /\ \A k \in Files(d) \ {l} : /\ Chain(w.fat, St(d2, s)[k]) = Chain(v.fat, St(d, s)[k])
                                 /\ \A x \in ToSet(Chain(v.fat, St(d, s)[k])) : w.fat[x] = v.fat[x]
  BY <1>8, OneFile
<1>10. Kept(v.fat, d, s, w.fat, d2, s, l)
  BY <1>6, <1>9 DEF Kept
<1>11. HeldOK(w.fat, d2)
  <2>1. ASSUME NEW k \in Dir(d) PROVE Chain(w.fat, d2[k].start) = Chain(v.fat, d[k].start)
    <3>1. k \in Files(d) /\ k \in Locs /\ St(d, s)[k] = d[k].start
      BY <1>2, DirClosed
    <3>2. St(d2, s)[k] = d2[k].start
      BY <1>1, <1>5, DirClosed
    <3>3. CASE k \in {l, n}
      BY <1>1, <3>3
    <3>4. CASE k \notin {l, n}
      BY <3>1, <3>2, <3>4, <1>9
    <3> QED
      BY <3>3, <3>4
  <2>2. \A k \in Locs : d2[k] = d[k] \/ (d2[k].name # Junk /\ d[k].name # Junk)
    BY <1>1
  <2> QED
    BY <1>1, <1>2, <2>1, <2>2, HeldKept
<1> QED
  BY <1>1, <1>2, <1>9, <1>10, <1>11 DEF Sound, GoodVol

\* The SFTs change, and say the same of the files.
LEMMA SameFiles ==
  ASSUME NEW v, NEW d, NEW s, Sound(v, d, s), NEW s2 \in SftsOf, SftsOK(d, s2), Cached(v.fat, s2),
         \A k \in Locs : St(d, s2)[k] = St(d, s)[k] /\ Sz(d, s2)[k] = Sz(d, s)[k]
  PROVE  Sound(v, d, s2)
<1>1. St(d, s2) = St(d, s) /\ Sz(d, s2) = Sz(d, s)
  <2>1. \A k \in Locs : StartIn(d, s2, k) = StartIn(d, s, k) /\ SizeIn(d, s2, k) = SizeIn(d, s, k)
    BY DEF St, Sz
  <2> QED
    BY <2>1 DEF St, Sz
<1>2. FilesOK(v.fat, d, s2)
  <2>1. VolFit(v.fat, Files(d), St(d, s), Sz(d, s))
    BY SoundFacts
  <2> QED
    BY <1>1, <2>1 DEF FilesOK
<1>3. /\ v \in VolOf /\ d \in DirOf /\ CountOK(v) /\ DirsOK(d) /\ HeldOK(v.fat, d)
  BY SoundFacts
<1> QED
  BY <1>2, <1>3 DEF Sound, GoodVol

\* At the beginning of a file.
LEMMA PlacedFirst ==
  ASSUME NEW f, NEW start \in Clusters \cup {FREE}, Whole(f, start)
  PROVE  Placed(f, start, start, 0)
<1>1. CASE start = FREE
  BY <1>1, NoChain DEF Placed
<1>2. CASE start # FREE
  <2>1. Len(Chain(f, start)) \in Nat /\ start = IF Len(Chain(f, start)) = 0 THEN FREE ELSE Chain(f, start)[1]
    BY ChainFacts
  <2>2. 0 < Len(Chain(f, start)) /\ start = Chain(f, start)[0 + 1]
    BY <1>2, <2>1
  <2> QED
    BY <1>2, <2>2 DEF Placed
<1> QED
  BY <1>1, <1>2

LEMMA OpenedIs ==
  ASSUME NEW l \in Locs, NEW d, d[l].start \in Clusters \cup {FREE}, d[l].size \in 0..MaxSize
  PROVE  /\ Opened(l, d) \in SftOf /\ Opened(l, d).loc = l
         /\ Opened(l, d).start = d[l].start /\ Opened(l, d).size = d[l].size
         /\ Opened(l, d).cu = d[l].start /\ Opened(l, d).rel = 0 /\ Opened(l, d).clean = TRUE
<1> DEFINE New(r, b, c) == [r EXCEPT !.loc = l, !.start = b, !.size = c, !.cu = b]
<1>1. ASSUME NEW r \in SftOf, NEW b \in Clusters \cup {FREE}, NEW c \in 0..MaxSize
      PROVE  /\ New(r, b, c) \in SftOf /\ New(r, b, c).loc = l /\ New(r, b, c).start = b
             /\ New(r, b, c).size = c /\ New(r, b, c).cu = b
             /\ New(r, b, c).rel = r.rel /\ New(r, b, c).clean = r.clean
  BY DEF SftOf
<1>2. Closed \in SftOf /\ Closed.rel = 0 /\ Closed.clean = TRUE
  BY Sizes DEF Closed, SftOf
<1>3. Opened(l, d) = New(Closed, d[l].start, d[l].size)
  BY Zenon DEF Opened
<1> HIDE DEF New
<1> QED
  BY <1>1, <1>2, <1>3

\* An SFT for the file at l.
LEMMA OpenedOK ==
  ASSUME NEW v, NEW d, NEW s, Sound(v, d, s), NEW i \in Sfts, s[i] = Closed, NEW l \in Files(d), ~d[l].isdir,
         At(s, l) = {}
  PROVE  /\ Sound(v, d, With(s, i, Opened(l, d)))
         /\ \A k \in Locs : /\ St(d, With(s, i, Opened(l, d)))[k] = St(d, s)[k]
                            /\ Sz(d, With(s, i, Opened(l, d)))[k] = Sz(d, s)[k]
<1> DEFINE r == Opened(l, d)
           s2 == With(s, i, r)
<1>1. /\ s \in SftsOf /\ d \in DirOf /\ SftsOK(d, s) /\ Cached(v.fat, s)
  BY SoundFacts
<1>2. /\ l \in Locs /\ St(d, s)[l] = d[l].start /\ Sz(d, s)[l] = d[l].size
      /\ Whole(v.fat, d[l].start) /\ d[l].start \in Clusters \cup {FREE} /\ d[l].size \in 0..MaxSize
  BY IdleFile
<1>4. /\ r \in SftOf /\ r.loc = l /\ r.start = d[l].start /\ r.size = d[l].size /\ r.cu = d[l].start
      /\ r.rel = 0 /\ r.clean = TRUE
  BY <1>2, OpenedIs
<1> HIDE DEF r
<1>5. /\ s2 \in SftsOf /\ s2[i] = r /\ \A j \in Sfts : j # i => s2[j] = s[j]
  BY <1>1, <1>4 DEF With, SftsOf
<1>6. <<>> \notin Locs /\ Closed.loc = <<>>
  BY ClosedLoc DEF Closed
<1> HIDE DEF s2
<1>7. \A j \in Sfts : s[j].loc # l
  BY DEF At
<1>8. \A k \in Locs : At(s2, k) = IF k = l THEN {i} ELSE At(s, k)
  BY <1>4, <1>5, <1>6, <1>7 DEF At
<1>9. SftsOK(d, s2)
  <2>1. ASSUME NEW j \in Sfts, s2[j] # Closed
        PROVE  /\ s2[j].loc \in Files(d) /\ ~d[s2[j].loc].isdir
               /\ s2[j].clean => d[s2[j].loc].start = s2[j].start /\ d[s2[j].loc].size = s2[j].size
    <3>1. CASE j = i
      BY <3>1, <1>4, <1>5
    <3>2. CASE j # i
      BY <3>2, <2>1, <1>1, <1>5 DEF SftsOK
    <3> QED
      BY <3>1, <3>2
  <2>2. ASSUME NEW j \in Sfts, NEW k \in Sfts, s2[j].loc = s2[k].loc, s2[j] # Closed
        PROVE  j = k
    <3>1. \A x, y \in Sfts : s[x].loc = s[y].loc /\ s[x] # Closed => x = y
      BY <1>1 DEF SftsOK
    <3> QED
      BY <2>2, <3>1, <1>4, <1>5, <1>7
  <2> QED
    BY <2>1, <2>2 DEF SftsOK
<1>10. ASSUME NEW k \in Locs
       PROVE  St(d, s2)[k] = St(d, s)[k] /\ Sz(d, s2)[k] = Sz(d, s)[k]
  <2>1. CASE k = l
    <3>1. Max({i}) = i /\ At(s2, l) = {i}
      BY <1>2, <1>8, MaxOne DEF Sfts
    <3> QED
      BY <2>1, <3>1, <1>2, <1>4, <1>5 DEF St, Sz, StartIn, SizeIn
  <2>2. CASE k # l
    <3>1. At(s2, k) = At(s, k)
      BY <2>2, <1>8
    <3>2. \A j \in At(s, k) : s2[j] = s[j]
      BY <1>5, <1>6 DEF At
    <3> QED
      BY <3>1, <3>2, <1>1, StKept
  <2> QED
    BY <2>1, <2>2
<1>11. Cached(v.fat, s2)
  <2> SUFFICES ASSUME NEW j \in Sfts, s2[j] # Closed PROVE Placed(v.fat, s2[j].start, s2[j].cu, s2[j].rel)
    BY DEF Cached
  <2>1. CASE j = i
    BY <2>1, <1>2, <1>4, <1>5, PlacedFirst
  <2>2. CASE j # i
    BY <2>2, <1>1, <1>5 DEF Cached
  <2> QED
    BY <2>1, <2>2
<1>12. Sound(v, d, s2)
  BY <1>5, <1>9, <1>10, <1>11, SameFiles
<1> QED
  BY <1>10, <1>12 DEF s2, r

\* dos_close brings the entry up to date.
Updated(d, s, i) == [d EXCEPT ![s[i].loc] = Entry(d[s[i].loc].name, s[i].start, s[i].size)]

LEMMA UpdatedOK ==
  ASSUME NEW v, NEW d, NEW s, Sound(v, d, s), NEW i \in Sfts, s[i] # Closed
  PROVE  /\ Sound(v, Updated(d, s, i), s) /\ Kept(v.fat, d, s, v.fat, Updated(d, s, i), s, <<>>)
         /\ Updated(d, s, i)[s[i].loc].start = s[i].start /\ Updated(d, s, i)[s[i].loc].size = s[i].size
         /\ Files(Updated(d, s, i)) = Files(d) /\ Dir(Updated(d, s, i)) = Dir(d)
         /\ \A k \in Locs : /\ Updated(d, s, i)[k].name = d[k].name
                            /\ k # s[i].loc => Updated(d, s, i)[k] = d[k]
<1> DEFINE l == s[i].loc
           d2 == Updated(d, s, i)
<1>0. d2 = [d EXCEPT ![s[i].loc] = Entry(d[s[i].loc].name, s[i].start, s[i].size)]
  BY DEF Updated
<1> HIDE DEF d2
<1>1. /\ s \in SftsOf /\ d \in DirOf /\ SftsOK(d, s) /\ Cached(v.fat, s) /\ v \in VolOf
      /\ CountOK(v) /\ DirsOK(d) /\ HeldOK(v.fat, d) /\ VolFit(v.fat, Files(d), St(d, s), Sz(d, s))
  BY SoundFacts
<1>2. /\ At(s, l) = {i} /\ l \in Files(d) /\ l \in Locs
      /\ St(d, s)[l] = s[i].start /\ Sz(d, s)[l] = s[i].size
  BY <1>1, OpenIs
<1>3. ~d[l].isdir
  BY <1>1 DEF SftsOK
<1>4. s[i].start \in Clusters \cup {FREE} /\ s[i].size \in 0..MaxSize
  BY <1>1, <1>2, StTypes
<1>5. d[l].name \in Names
  BY <1>2 DEF Files
<1>6. /\ d2[l] = Entry(d[l].name, s[i].start, s[i].size)
      /\ \A k \in Locs : k # l => d2[k] = d[k]
  BY <1>0, <1>1, <1>2 DEF DirOf
<1>7. d2[l].name = d[l].name /\ d2[l].isdir = FALSE /\ d2[l].start = s[i].start /\ d2[l].size = s[i].size
  BY <1>6 DEF Entry
<1>8. Entry(d[l].name, s[i].start, s[i].size) \in Entries
  BY <1>4, <1>5 DEF Entry, Entries
<1>9. d2 \in DirOf
  BY <1>0, <1>1, <1>8 DEF DirOf
<1> HIDE DEF l
<1>10. Files(d2) = Files(d)
  BY <1>6, <1>7 DEF Files
<1>11. Dir(d2) = Dir(d) /\ l \notin Dir(d)
  BY <1>3, <1>6, <1>7, <1>10 DEF Dir, Files
<1>12. ASSUME NEW k \in Locs
       PROVE  St(d2, s)[k] = St(d, s)[k] /\ Sz(d2, s)[k] = Sz(d, s)[k]
  <2>1. CASE k = l
    <3>1. Max({i}) = i
      BY MaxOne DEF Sfts
    <3> QED
      BY <2>1, <3>1, <1>2 DEF St, Sz, StartIn, SizeIn
  <2>2. CASE k # l
    <3>1. d2[k].start = d[k].start /\ d2[k].size = d[k].size
      BY <2>2, <1>6
    <3>2. \A j \in At(s, k) : s[j].start = s[j].start /\ s[j].size = s[j].size
      OBVIOUS
    <3> QED
      BY ONLY <3>1, <3>2, <1>1, k \in Locs, StKept
  <2> QED
    BY <2>1, <2>2
<1>13. St(d2, s) = St(d, s) /\ Sz(d2, s) = Sz(d, s)
  <2>1. \A k \in Locs : StartIn(d2, s, k) = StartIn(d, s, k) /\ SizeIn(d2, s, k) = SizeIn(d, s, k)
    BY <1>12 DEF St, Sz
  <2> QED
    BY <2>1 DEF St, Sz
<1>14. SftsOK(d2, s)
  <2>1. ASSUME NEW j \in Sfts, s[j] # Closed
        PROVE  /\ s[j].loc \in Files(d2) /\ ~d2[s[j].loc].isdir
               /\ s[j].clean => d2[s[j].loc].start = s[j].start /\ d2[s[j].loc].size = s[j].size
    <3>1. CASE j = i
      BY <3>1, <1>2, <1>7, <1>10 DEF l
    <3>2. CASE j # i
      <4>1. s[j].loc # l
        BY <3>2, <2>1, <1>1 DEF SftsOK, l
      <4>2. s[j].loc \in Files(d) /\ s[j].loc \in Locs
        BY <1>1, <2>1, OpenIs
      <4>3. d2[s[j].loc] = d[s[j].loc]
        BY <4>1, <4>2, <1>6
      <4> QED
        BY <2>1, <4>2, <4>3, <1>1, <1>10 DEF SftsOK
    <3> QED
      BY <3>1, <3>2
  <2>2. \A x, y \in Sfts : s[x].loc = s[y].loc /\ s[x] # Closed => x = y
    BY <1>1 DEF SftsOK
  <2> QED
    BY <2>1, <2>2 DEF SftsOK
<1>15. FilesOK(v.fat, d2, s)
  BY <1>1, <1>10, <1>13, <1>14 DEF FilesOK
<1>16. HeldOK(v.fat, d2)
  <2>1. \A k \in Dir(d) : Chain(v.fat, d2[k].start) = Chain(v.fat, d[k].start)
    BY <1>6, <1>11 DEF Dir, Files
  <2>2. d[l].name # Junk /\ d2[l].name # Junk
    BY <1>5, <1>7, FatFsAssumption
  <2>3. \A k \in Locs : d2[k] = d[k] \/ (d2[k].name # Junk /\ d[k].name # Junk)
    BY <1>6, <2>2
  <2> QED
    BY ONLY <1>1, <1>11, <2>1, <2>3, HeldKept
<1>17. DirsOK(d2)
  BY <1>1, <1>6, <1>7 DEF DirsOK
<1>18. Sound(v, d2, s)
  BY <1>1, <1>9, <1>15, <1>16, <1>17 DEF Sound, GoodVol
<1>19. Kept(v.fat, d, s, v.fat, d2, s, <<>>)
  BY <1>10, <1>13 DEF Kept
<1> QED
  BY <1>6, <1>7, <1>10, <1>11, <1>18, <1>19 DEF l, d2

\* Giving back the SFT of a file whose entry is up to date.
LEMMA ClosedOK ==
  ASSUME NEW v, NEW d, NEW s, Sound(v, d, s), NEW i \in Sfts, s[i] # Closed,
         d[s[i].loc].start = s[i].start /\ d[s[i].loc].size = s[i].size
  PROVE  /\ Sound(v, d, With(s, i, Closed))
         /\ \A k \in Locs : St(d, With(s, i, Closed))[k] = St(d, s)[k] /\ Sz(d, With(s, i, Closed))[k] = Sz(d, s)[k]
<1> DEFINE l == s[i].loc
           s2 == With(s, i, Closed)
<1>1. /\ s \in SftsOf /\ d \in DirOf /\ SftsOK(d, s) /\ Cached(v.fat, s)
  BY SoundFacts
<1>2. /\ At(s, l) = {i} /\ l \in Files(d) /\ l \in Locs
      /\ St(d, s)[l] = s[i].start /\ Sz(d, s)[l] = s[i].size
  BY <1>1, OpenIs
<1>3. Closed \in SftOf /\ Closed.loc = <<>> /\ <<>> \notin Locs
  BY Sizes, ClosedLoc DEF Closed, SftOf
<1>4. /\ s2 \in SftsOf /\ s2[i] = Closed /\ \A j \in Sfts : j # i => s2[j] = s[j]
  BY <1>1, <1>3 DEF With, SftsOf
<1> HIDE DEF s2
<1>5. \A k \in Locs : At(s2, k) = IF k = l THEN {} ELSE At(s, k)
  BY <1>2, <1>3, <1>4 DEF At
<1>6. SftsOK(d, s2)
  <2>1. \A j \in Sfts : s2[j] # Closed => j # i /\ s2[j] = s[j]
    BY <1>4
  <2>2. ASSUME NEW j \in Sfts, NEW k \in Sfts, s2[j].loc = s2[k].loc, s2[j] # Closed
        PROVE  j = k
    <3>1. \A x, y \in Sfts : s[x].loc = s[y].loc /\ s[x] # Closed => x = y
      BY <1>1 DEF SftsOK
    <3>2. s[j] # Closed /\ s[j].loc \in Locs /\ s2[j] = s[j]
      BY <2>1, <2>2, <1>1, OpenIs
    <3>3. k # i
      BY <2>2, <3>2, <1>3, <1>4
    <3> QED
      BY <2>2, <3>1, <3>2, <3>3, <1>4
  <2>3. ASSUME NEW j \in Sfts, s2[j] # Closed
        PROVE  /\ s2[j].loc \in Files(d) /\ ~d[s2[j].loc].isdir
               /\ s2[j].clean => d[s2[j].loc].start = s2[j].start /\ d[s2[j].loc].size = s2[j].size
    BY <2>1, <2>3, <1>1 DEF SftsOK
  <2> QED
    BY <2>2, <2>3 DEF SftsOK
<1>7. ASSUME NEW k \in Locs
      PROVE  St(d, s2)[k] = St(d, s)[k] /\ Sz(d, s2)[k] = Sz(d, s)[k]
  <2>1. CASE k = l
    BY <2>1, <1>2, <1>5, IdleIs
  <2>2. CASE k # l
    <3>1. At(s2, k) = At(s, k)
      BY <2>2, <1>5
    <3>2. \A j \in At(s, k) : s2[j] = s[j]
      BY <2>2, <1>4 DEF At
    <3> QED
      BY <3>1, <3>2, <1>1, StKept
  <2> QED
    BY <2>1, <2>2
<1>8. Cached(v.fat, s2)
  BY <1>1, <1>4 DEF Cached
<1>9. Sound(v, d, s2)
  BY <1>4, <1>6, <1>7, <1>8, SameFiles
<1> QED
  BY <1>7, <1>9 DEF s2

-----------------------------------------------------------------------------
(* Where the entries of a directory are.                                   *)

\* The root, or the clusters of a directory.
Part(f, e) == IF e = Root THEN {Root} ELSE ToSet(Chain(f, e))

IsDir(f, e) == e = Root \/ (e \in Clusters /\ Whole(f, e))

LEMMA LocParts ==
  ASSUME NEW l \in Locs
  PROVE  /\ l = <<l[1], l[2]>> /\ l[1] \in {Root} \cup Clusters
         /\ l[1] = Root => l[2] \in 0..RootEnts-1
         /\ l[1] # Root => l[2] \in 0..DirEnts-1
  BY Numbers DEF Locs, Root, FREE

LEMMA EntryPlace ==
  ASSUME NEW D \in Nat \ {0}, NEW n \in Nat, NEW j \in 1..n*D
  PROVE  /\ (j-1) \div D \in Nat /\ (j-1) \div D < n /\ (j-1) \div D + 1 \in 1..n
         /\ (j-1) % D \in 0..D-1
         /\ j = D * ((j-1) \div D) + ((j-1) % D) + 1
<1>0. n * D \in Nat
  BY Times
<1> DEFINE q == (j-1) \div D
           r == (j-1) % D
           k == j - 1
<1>1. k \in Nat /\ k < n * D /\ j = k + 1
  BY <1>0
<1>2. q \in Nat /\ r \in 0..D-1 /\ k = D * q + r
  <2>1. q = k \div D /\ r = k % D
    OBVIOUS
  <2> HIDE DEF k, q, r
  <2> QED
    BY <1>1, <2>1, DivFacts
<1> HIDE DEF k, q, r
<1>3. q < n
  <2> SUFFICES ASSUME n =< q PROVE FALSE
    BY <1>2
  <2>1. n * D =< q * D
    BY <1>2, Times
  <2>2. q * D = D * q
    BY <1>2
  <2> DEFINE a == n * D
             b == q * D
             c == D * q
  <2>3. a \in Nat /\ b \in Nat /\ a =< b /\ b = c /\ k < a /\ k = c + r /\ r \in 0..D-1
    BY <1>0, <1>1, <1>2, <2>1, <2>2, Times
  <2> HIDE DEF a, b, c
  <2> QED
    BY <1>1, <2>3
<1>4. q + 1 \in 1..n
  BY <1>2, <1>3
<1>5. j = D * q + r + 1
  <2> DEFINE c == D * q
  <2>1. c \in Nat /\ k = c + r
    BY <1>2
  <2> HIDE DEF c
  <2>2. j = c + r + 1
    BY <1>1, <1>2, <2>1
  <2> QED
    BY <2>2 DEF c
<1> QED
  BY <1>2, <1>3, <1>4, <1>5 DEF q, r

HasPlace(D, n, q, r) == \E j \in 1..n*D : (j-1) \div D + 1 = q /\ (j-1) % D = r

LEMMA PlaceEntry ==
  ASSUME NEW D \in Nat \ {0}, NEW n \in Nat, NEW q \in 1..n, NEW r \in 0..D-1
  PROVE  HasPlace(D, n, q, r)
<1> DEFINE p == q - 1
           a == p * D
           j == a + r + 1
<1>1. p \in Nat /\ p + 1 =< n /\ q = p + 1
  OBVIOUS
<1> HIDE DEF p
<1>2. a \in Nat /\ (p + 1) * D = a + D /\ (p + 1) * D =< n * D /\ n * D \in Nat
  BY <1>1, Times
<1>3. (a + r) \div D = p /\ (a + r) % D = r
  BY <1>1, DivUnique
<1> DEFINE b == n * D
           z == (p + 1) * D
<1>4. b \in Nat /\ z = a + D /\ z =< b /\ a \in Nat
  BY <1>2
<1> HIDE DEF a, b, z
<1>5. j \in 1..b /\ j - 1 = a + r
  BY <1>4
<1>6. (j - 1) \div D + 1 = q /\ (j - 1) % D = r
  BY <1>1, <1>3, <1>5
<1> HIDE DEF j
<1> QED
  BY <1>5, <1>6 DEF b, HasPlace

\* The positions of a directory, and what is there.
DirList(f, e, q, n) ==
  /\ n \in Nat /\ DOMAIN q = 1..n
  /\ \A j \in 1..n : q[j] \in Locs /\ q[j][1] \in Part(f, e)
  /\ \A j, k \in 1..n : q[j] = q[k] => j = k
  /\ \A l \in Locs : l[1] \in Part(f, e) => \E j \in 1..n : q[j] = l

LEMMA InDirIs ==
  ASSUME NEW f, NEW e, IsDir(f, e)
  PROVE  \E n : DirList(f, e, InDir(f, e), n) /\ n = IF e = Root THEN RootEnts ELSE Len(Chain(f, e)) * DirEnts
<1> DEFINE q == InDir(f, e)
<1>1. CASE e = Root
  <2>1. q = [j \in 1..RootEnts |-> <<Root, j-1>>]
    BY <1>1 DEF InDir
  <2>2. \A j \in 1..RootEnts : q[j] = <<Root, j-1>>
    BY <2>1
  <2>3. DOMAIN q = 1..RootEnts /\ RootEnts \in Nat
    BY <2>1, Sizes
  <2> HIDE DEF q
  <2>4. Part(f, e) = {Root}
    BY <1>1 DEF Part
  <2>5. \A j \in 1..RootEnts : q[j] \in Locs /\ q[j][1] \in Part(f, e)
    <3> SUFFICES ASSUME NEW j \in 1..RootEnts PROVE q[j] \in Locs /\ q[j][1] \in Part(f, e)
      OBVIOUS
    <3>1. j - 1 \in 0..RootEnts-1
      BY <2>3
    <3>2. q[j] = <<Root, j-1>>
      BY <2>2
    <3>3. <<Root, j-1>> \in Locs /\ <<Root, j-1>>[1] = Root
      BY <3>1 DEF Locs
    <3> QED
      BY <2>4, <3>2, <3>3
  <2>6. \A j, k \in 1..RootEnts : q[j] = q[k] => j = k
    BY <2>2, <2>3
  <2>7. ASSUME NEW l \in Locs, l[1] \in Part(f, e) PROVE \E j \in 1..RootEnts : q[j] = l
    <3>1. l = <<Root, l[2]>> /\ l[2] \in 0..RootEnts-1
      BY <2>4, <2>7, LocParts
    <3>2. l[2] + 1 \in 1..RootEnts /\ q[l[2] + 1] = <<Root, l[2]>>
      BY <2>2, <2>3, <3>1
    <3> QED
      BY <3>1, <3>2
  <2>8. DirList(f, e, q, RootEnts)
    BY <2>3, <2>5, <2>6, <2>7 DEF DirList
  <2> QED
    BY <1>1, <2>8 DEF q
<1>2. CASE e # Root
  <2> DEFINE c == Chain(f, e)
             L == Len(c)
             n == L * DirEnts
  <2>1. e \in Clusters /\ Whole(f, e)
    BY <1>2 DEF IsDir
  <2>2. /\ L \in Nat /\ c \in [1..L -> Clusters] /\ ToSet(c) = {c[j] : j \in 1..L}
        /\ \A i, j \in 1..L : c[i] = c[j] => i = j
    BY <2>1, ChainFacts
  <2>3. q = [j \in 1..n |-> <<c[(j-1) \div DirEnts + 1], (j-1) % DirEnts>>]
    BY <1>2 DEF InDir
  <2>4. n \in Nat /\ DirEnts \in Nat \ {0}
    BY <2>2, Sizes, Times
  <2>5. Part(f, e) = ToSet(c)
    BY <1>2 DEF Part
  <2> HIDE DEF q, c, L
  <2>6. ASSUME NEW j \in 1..n
        PROVE  /\ (j-1) \div DirEnts + 1 \in 1..L /\ (j-1) % DirEnts \in 0..DirEnts-1
               /\ (j-1) \div DirEnts \in Nat
               /\ j = DirEnts * ((j-1) \div DirEnts) + ((j-1) % DirEnts) + 1
    BY <2>2, <2>4, EntryPlace
  <2>7. \A j \in 1..n : q[j] = <<c[(j-1) \div DirEnts + 1], (j-1) % DirEnts>>
    BY <2>3
  <2>8. DOMAIN q = 1..n
    BY <2>3
  <2>9. ASSUME NEW k \in Nat \ {0}, k \in 1..n
        PROVE  \E a \in 1..L, r \in 0..DirEnts-1 : q[k] = <<c[a], r>> /\ k = DirEnts * (a-1) + r + 1
    <3> DEFINE a == (k-1) \div DirEnts + 1
               r == (k-1) % DirEnts
    <3>1. a \in 1..L /\ r \in 0..DirEnts-1 /\ k = DirEnts * ((k-1) \div DirEnts) + r + 1 /\ (k-1) \div DirEnts \in Nat
      BY <2>6, <2>9
    <3>2. q[k] = <<c[a], r>>
      BY <2>7, <2>9
    <3>3. (k-1) \div DirEnts = a - 1
      BY <3>1
    <3>4. k = DirEnts * (a - 1) + r + 1
      BY <3>1, <3>3
    <3> HIDE DEF a, r
    <3> QED
      BY <3>1, <3>2, <3>4
  <2>10. \A k \in 1..n : k \in Nat \ {0}
    BY <2>4
  <2>11. ASSUME NEW a \in 1..L, NEW r \in 0..DirEnts-1
         PROVE  \E j \in 1..n : q[j] = <<c[a], r>>
    <3>1. \E j \in 1..L*DirEnts : (j-1) \div DirEnts + 1 = a /\ (j-1) % DirEnts = r
      <4>1. L \in Nat /\ DirEnts \in Nat \ {0} /\ a \in 1..L /\ r \in 0..DirEnts-1
        BY <2>2, <2>4
      <4>2. HasPlace(DirEnts, L, a, r)
        BY <4>1, PlaceEntry
      <4> QED
        BY <4>2 DEF HasPlace
    <3>2. PICK j \in 1..n : (j-1) \div DirEnts + 1 = a /\ (j-1) % DirEnts = r
      BY <3>1
    <3> QED
      BY <3>2, <2>7
  <2> HIDE DEF n
  <2>12. \A j \in 1..n : q[j] \in Locs /\ q[j][1] \in Part(f, e)
    <3> SUFFICES ASSUME NEW j \in 1..n PROVE q[j] \in Locs /\ q[j][1] \in Part(f, e)
      OBVIOUS
    <3>1. PICK a \in 1..L, r \in 0..DirEnts-1 : q[j] = <<c[a], r>>
      BY <2>9, <2>10
    <3> QED
      BY <3>1, <2>2, <2>5 DEF Locs
  <2>13. \A j, k \in 1..n : q[j] = q[k] => j = k
    <3> SUFFICES ASSUME NEW j \in 1..n, NEW k \in 1..n, q[j] = q[k] PROVE j = k
      OBVIOUS
    <3>1. PICK a \in 1..L, r \in 0..DirEnts-1 : q[j] = <<c[a], r>> /\ j = DirEnts * (a-1) + r + 1
      BY <2>9, <2>10
    <3>2. PICK b \in 1..L, t \in 0..DirEnts-1 : q[k] = <<c[b], t>> /\ k = DirEnts * (b-1) + t + 1
      BY <2>9, <2>10
    <3>3. c[a] = c[b] /\ r = t
      <4>1. <<c[a], r>> = <<c[b], t>>
        BY <3>1, <3>2
      <4>2. \A x, y, z, w : <<x, y>> = <<z, w>> => x = z /\ y = w
        OBVIOUS
      <4> QED
        BY <4>1, <4>2, Zenon
    <3>4. a = b
      BY <3>3, <2>2
    <3> QED
      BY <3>1, <3>2, <3>3, <3>4
  <2>14. ASSUME NEW l \in Locs, l[1] \in Part(f, e) PROVE \E j \in 1..n : q[j] = l
    <3>1. PICK a \in 1..L : l[1] = c[a]
      BY <2>2, <2>5, <2>14
    <3>2. l[1] # Root
      BY <3>1, <2>2, Numbers DEF Root, FREE
    <3>3. l = <<c[a], l[2]>> /\ l[2] \in 0..DirEnts-1
      BY <3>1, <3>2, LocParts
    <3> QED
      BY <3>3, <2>11
  <2>15. DirList(f, e, q, n)
    BY <2>4, <2>8, <2>12, <2>13, <2>14 DEF DirList, n
  <2> QED
    BY <1>2, <2>15 DEF q, n, L, c
<1> QED
  BY <1>1, <1>2

-----------------------------------------------------------------------------
(* New entries.                                                            *)

LEMMA NamesApart ==
  /\ NeverUsed \notin Names /\ DELETED \notin Names /\ Junk \notin Names
  /\ NeverUsed # DELETED /\ NeverUsed # Junk /\ DELETED # Junk
  BY FatFsAssumption

LEMMA Blanks ==
  ASSUME NEW name \in {NeverUsed, DELETED, Junk}
  PROVE  /\ Blank(name) \in Entries /\ Blank(name).name = name /\ Blank(name).isdir = FALSE
         /\ Blank(name).start = FREE /\ Blank(name).size = 0 /\ name \notin Names
<1>1. 0 \in 0..MaxSize
  BY Sizes
<1> QED
  BY <1>1, NamesApart DEF Blank, Entries

\* A cluster that is free holds no entries.
LEMMA FreshJunk ==
  ASSUME NEW v, NEW d, NEW s, Sound(v, d, s), NEW x \in Clusters, v.fat[x] = FREE
  PROVE  /\ x # Root /\ x \notin Held(v.fat, d) /\ <<x, 0>> \in Locs
         /\ \A k \in Locs : k[1] = x => d[k] = Blank(Junk) /\ k \notin Files(d) /\ At(s, k) = {}
<1>1. /\ d \in DirOf /\ s \in SftsOf /\ FilesOK(v.fat, d, s) /\ HeldOK(v.fat, d) /\ SftsOK(d, s)
  BY SoundFacts
<1>2. x \notin Held(v.fat, d)
  BY <1>1, HeldUsed
<1>3. x # Root
  BY Numbers DEF Root, FREE
<1>4. <<x, 0>> \in Locs
  BY Sizes DEF Locs
<1>5. ASSUME NEW k \in Locs, k[1] = x
      PROVE  d[k] = Blank(Junk) /\ k \notin Files(d) /\ At(s, k) = {}
  <2>1. d[k].name = Junk /\ d[k] = Blank(Junk)
    BY <1>1, <1>2, <1>3, <1>5 DEF HeldOK
  <2>2. k \notin Files(d)
    BY <2>1, NamesApart DEF Files
  <2>3. \A j \in Sfts : s[j].loc # k
    BY <1>1, <2>2, ClosedLoc, k \in Locs DEF SftsOK
  <2> QED
    BY <2>1, <2>2, <2>3 DEF At
<1> QED
  BY <1>2, <1>3, <1>4, <1>5

\* A cluster for entries is cleared.
LEMMA ClearedIs ==
  ASSUME NEW d \in DirOf, DirsOK(d), NEW x \in Clusters, \A k \in Locs : k[1] = x => d[k] = Blank(Junk)
  PROVE  /\ Filled(d, {x}, NeverUsed) \in DirOf /\ DirsOK(Filled(d, {x}, NeverUsed))
         /\ Files(Filled(d, {x}, NeverUsed)) = Files(d) /\ Dir(Filled(d, {x}, NeverUsed)) = Dir(d)
         /\ \A k \in Locs : Filled(d, {x}, NeverUsed)[k] = IF k[1] = x THEN Blank(NeverUsed) ELSE d[k]
         /\ \A k \in Files(d) : Filled(d, {x}, NeverUsed)[k] = d[k] /\ k[1] # x
<1> DEFINE e == Filled(d, {x}, NeverUsed)
<1>1. \A k \in Locs : e[k] = IF k[1] = x THEN Blank(NeverUsed) ELSE d[k]
  BY DEF Filled
<1>2. /\ Blank(NeverUsed) \in Entries /\ Blank(NeverUsed).name = NeverUsed /\ Blank(NeverUsed).isdir = FALSE
      /\ NeverUsed \notin Names /\ Blank(Junk).name = Junk /\ Junk \notin Names
  BY Blanks
<1>3. e \in DirOf
  <2>1. e = [k \in Locs |-> IF k[1] \in {x} THEN Blank(NeverUsed) ELSE d[k]]
    BY DEF Filled
  <2>2. \A k \in Locs : d[k] \in Entries
    BY DEF DirOf
  <2> HIDE DEF e
  <2> QED
    BY <2>1, <2>2, <1>2 DEF DirOf
<1> HIDE DEF e
<1>4. \A k \in Files(d) : k \in Locs /\ k[1] # x
  BY <1>2 DEF Files
<1>5. Files(e) = Files(d)
  BY <1>1, <1>2, <1>4 DEF Files
<1>6. \A k \in Files(d) : e[k] = d[k] /\ k[1] # x
  BY <1>1, <1>4
<1>7. Dir(e) = Dir(d)
  BY <1>5, <1>6 DEF Dir
<1>8. DirsOK(e)
  BY <1>1, <1>2 DEF DirsOK
<1> QED
  BY <1>1, <1>3, <1>5, <1>6, <1>7, <1>8 DEF e

\* Directories of the volume.
LEMMA DirsAre ==
  ASSUME Sound(vol, dir, sft), NEW d \in Dirs
  PROVE  /\ IsDir(vol.fat, d)
         /\ d # Root => \E k \in Dir(dir) : dir[k].start = d /\ d \in Clusters /\ Whole(vol.fat, d)
         /\ \A x \in Part(vol.fat, d) : x = Root \/ x \in Held(vol.fat, dir)
<1>1. dir \in DirOf /\ sft \in SftsOf /\ FilesOK(vol.fat, dir, sft) /\ DirsOK(dir)
  BY SoundFacts
<1>2. ASSUME d # Root
      PROVE  \E k \in Dir(dir) : dir[k].start = d /\ d \in Clusters /\ Whole(vol.fat, d)
  <2>1. PICK k \in Dir(dir) : dir[k].start = d
    BY <1>2 DEF Dirs, Dir, Live, Files
  <2>2. Whole(vol.fat, d)
    BY <1>1, <2>1, HeldUsed
  <2>3. d \in Clusters
    BY <1>1, <2>1 DEF DirsOK, Dir, Files
  <2> QED
    BY <2>1, <2>2, <2>3
<1>3. IsDir(vol.fat, d)
  BY <1>2 DEF IsDir
<1>4. \A x \in Part(vol.fat, d) : x = Root \/ x \in Held(vol.fat, dir)
  BY <1>2 DEF Part, Held
<1> QED
  BY <1>2, <1>3, <1>4

\* find_free: an entry not in use, and the first.
LEMMA FreeEntry ==
  ASSUME Sound(vol, dir, sft), NEW d \in Dirs, Unused(d) # {}
  PROVE  /\ find_free(d) \in Locs /\ find_free(d)[1] \in Part(vol.fat, d)
         /\ dir[find_free(d)].name \in {NeverUsed, DELETED}
         /\ \E j \in DOMAIN InDir(vol.fat, d) :
              /\ InDir(vol.fat, d)[j] = find_free(d)
              /\ \A k \in DOMAIN InDir(vol.fat, d) :
                   k < j => dir[InDir(vol.fat, d)[k]].name \notin {NeverUsed, DELETED}
<1> DEFINE q == InDir(vol.fat, d)
<1>1. PICK n : DirList(vol.fat, d, q, n)
  BY DirsAre, InDirIs
<1>2. n \in Nat /\ DOMAIN q = 1..n /\ \A j \in 1..n : q[j] \in Locs /\ q[j][1] \in Part(vol.fat, d)
  BY <1>1 DEF DirList
<1>3. Unused(d) = {j \in 1..n : dir[q[j]].name \in {NeverUsed, DELETED}}
  BY <1>2 DEF Unused
<1>4. find_free(d) = q[Min(Unused(d))]
  BY DEF find_free
<1> HIDE DEF q
<1>5. Unused(d) \subseteq Nat
  BY <1>2, <1>3
<1>6. Min(Unused(d)) \in Unused(d) /\ \A k \in Unused(d) : Min(Unused(d)) =< k
  BY <1>5, MinIn
<1> DEFINE j == Min(Unused(d))
<1>7. j \in 1..n /\ dir[q[j]].name \in {NeverUsed, DELETED}
  BY <1>3, <1>6
<1>8. \A k \in 1..n : k < j => dir[q[k]].name \notin {NeverUsed, DELETED}
  <2> SUFFICES ASSUME NEW k \in 1..n, k < j, dir[q[k]].name \in {NeverUsed, DELETED} PROVE FALSE
    OBVIOUS
  <2>1. k \in Unused(d)
    BY <1>3
  <2>2. j =< k
    BY <1>6, <2>1
  <2>3. j \in Nat /\ k \in Nat
    BY <1>2, <1>7
  <2> HIDE DEF j
  <2> QED
    BY <2>2, <2>3
<1>9. find_free(d) = q[j]
  BY <1>4
<1> HIDE DEF j
<1> QED
  BY <1>2, <1>7, <1>8, <1>9 DEF q

\* The chain of the directory d gets one more cluster.
GrownDir(d, k, x) ==
  /\ k \in Dir(dir) /\ dir[k].start = d /\ d \in Clusters
  /\ x \in Clusters /\ vol.fat[x] = FREE /\ x = find_fat_free(vol) /\ Larger(d).cu = x
  /\ Vol(d) \in VolOf /\ CountOK(Vol(d))
  /\ Whole(vol.fat, d) /\ Whole(Vol(d).fat, d)
  /\ Lengthened(vol.fat, d, Vol(d).fat, d)
  /\ Len(Chain(Vol(d).fat, d)) = Len(Chain(vol.fat, d)) + 1
  /\ Chain(Vol(d).fat, d)[Len(Chain(vol.fat, d)) + 1] = x
  /\ ToSet(Chain(Vol(d).fat, d)) = ToSet(Chain(vol.fat, d)) \cup {x}
  /\ \A y \in Clusters : Vol(d).fat[y] # FREE <=> vol.fat[y] # FREE \/ y = x
  /\ Cleared(d) = Filled(dir, {x}, NeverUsed) /\ NewIn(d) = <<x, 0>>

LEMMA LargerOK ==
  ASSUME Sound(vol, dir, sft), NEW d \in Dirs, Grows(d), Free(vol.fat) # {}
  PROVE  \E k, x : GrownDir(d, k, x)
<1>1. d # Root
  BY DEF Grows
<1>2. PICK k \in Dir(dir) : dir[k].start = d /\ d \in Clusters /\ Whole(vol.fat, d)
  BY <1>1, DirsAre
<1>3. vol \in VolOf /\ CountOK(vol)
  BY SoundFacts
<1> DEFINE c == Chain(vol.fat, d)
           L == Len(c)
           m == [vol |-> vol, start |-> d, cu |-> c[L], rel |-> L - 1]
<1>4. /\ L \in Nat /\ c \in [1..L -> Clusters] /\ d = (IF L = 0 THEN FREE ELSE c[1])
      /\ L > 0 => vol.fat[c[L]] = LAST
  BY <1>2, ChainFacts
<1>5. d # FREE
  BY <1>2, Numbers
<1> HIDE DEF c, L
<1>6. L > 0 /\ L - 1 \in Nat /\ L \in 1..L /\ (L - 1) + 1 = L
  BY <1>4, <1>5
<1>7. c[L] \in Clusters /\ c[L] # FREE /\ vol.fat[c[L]] = LAST
  BY <1>4, <1>6, Numbers
<1>8. Placed(vol.fat, d, c[L], L - 1)
  <2>1. L - 1 < L
    BY <1>4
  <2> QED
    BY <2>1, <1>6, <1>7 DEF Placed, c, L
<1> HIDE DEF m
<1>9. FnodeOK(m)
  BY <1>2, <1>3, <1>6, <1>7, <1>8, FnodeIs DEF m
<1>10. m.vol = vol /\ m.start = d /\ m.cu = c[L] /\ m.rel = L - 1
  BY DEF m
<1>11. AtEnd(m)
  BY <1>7, <1>10 DEF AtEnd
<1>12. Larger(d) = extend(m)
  BY DEF Larger, m, c, L
<1> DEFINE t == extend(m)
           x == t.cu
<1>13. /\ FnodeOK(t) /\ Lengthened(vol.fat, d, t.vol.fat, t.start)
       /\ x \in Free(vol.fat) /\ x = find_fat_free(vol)
       /\ Len(Chain(t.vol.fat, t.start)) = Len(Chain(vol.fat, d)) + 1
       /\ t.rel = Len(Chain(vol.fat, d))
       /\ ToSet(Chain(t.vol.fat, t.start)) = ToSet(Chain(vol.fat, d)) \cup {x}
       /\ \A y \in Clusters : t.vol.fat[y] # FREE <=> vol.fat[y] # FREE \/ y = x
  BY <1>9, <1>10, <1>11, ExtendOK
<1> HIDE DEF t
<1>14. t.start = d
  BY <1>5, <1>13 DEF Lengthened
<1>15. x \in Clusters /\ vol.fat[x] = FREE
  BY <1>13 DEF Free
<1>16. t.vol \in VolOf /\ CountOK(t.vol) /\ Whole(t.vol.fat, d) /\ Placed(t.vol.fat, d, x, t.rel)
  BY <1>13, <1>14, FnodeFacts
<1>17. Chain(t.vol.fat, d)[Len(Chain(vol.fat, d)) + 1] = x
  BY <1>13, <1>15, <1>16, Numbers DEF Placed
<1>18. Vol(d) = t.vol /\ Larger(d).cu = x /\ Cleared(d) = Filled(dir, {x}, NeverUsed) /\ NewIn(d) = <<x, 0>>
  BY <1>12 DEF Vol, Cleared, NewIn, t
<1>19. GrownDir(d, k, x)
  BY <1>2, <1>13, <1>14, <1>15, <1>16, <1>17, <1>18 DEF GrownDir
<1> QED
  BY <1>19

\* A directory one cluster larger, and the cluster cleared.
LEMMA GrownOK ==
  ASSUME Sound(vol, dir, sft), NEW d \in Dirs, NEW k, NEW x, GrownDir(d, k, x)
  PROVE  /\ Sound(Vol(d), Cleared(d), sft)
         /\ Kept(vol.fat, dir, sft, Vol(d).fat, Cleared(d), sft, k)
         /\ Grown(vol.fat, Vol(d).fat)
         /\ Held(Vol(d).fat, Cleared(d)) = Held(vol.fat, dir) \cup {x}
<1> DEFINE f == vol.fat
           g == Vol(d).fat
           e == Cleared(d)
<1>1. /\ k \in Dir(dir) /\ dir[k].start = d /\ d \in Clusters
      /\ x \in Clusters /\ f[x] = FREE /\ Larger(d).cu = x
      /\ Vol(d) \in VolOf /\ CountOK(Vol(d))
      /\ Whole(f, d) /\ Whole(g, d) /\ Lengthened(f, d, g, d)
      /\ ToSet(Chain(g, d)) = ToSet(Chain(f, d)) \cup {x}
      /\ \A y \in Clusters : g[y] # FREE <=> f[y] # FREE \/ y = x
      /\ e = Filled(dir, {x}, NeverUsed)
      /\ Len(Chain(g, d)) = Len(Chain(f, d)) + 1
  BY DEF GrownDir
<1>2. /\ dir \in DirOf /\ sft \in SftsOf /\ FilesOK(f, dir, sft) /\ SftsOK(dir, sft) /\ DirsOK(dir)
      /\ HeldOK(f, dir) /\ VolFit(f, Files(dir), St(dir, sft), Sz(dir, sft))
  BY SoundFacts
<1>3. /\ x # Root /\ x \notin Held(f, dir)
      /\ \A j \in Locs : j[1] = x => dir[j] = Blank(Junk) /\ j \notin Files(dir) /\ At(sft, j) = {}
  BY <1>1, FreshJunk
<1>4. /\ e \in DirOf /\ DirsOK(e) /\ Files(e) = Files(dir) /\ Dir(e) = Dir(dir)
      /\ \A j \in Locs : e[j] = IF j[1] = x THEN Blank(NeverUsed) ELSE dir[j]
      /\ \A j \in Files(dir) : e[j] = dir[j] /\ j[1] # x
  BY <1>1, <1>2, <1>3, ClearedIs
<1>5. k \in Files(dir) /\ k \in Locs /\ At(sft, k) = {} /\ St(dir, sft)[k] = d /\ Sz(dir, sft)[k] = dir[k].size
  BY <1>1, <1>2, DirClosed
<1> HIDE DEF f, g, e
<1>6. Files(dir) \subseteq Locs
  BY DEF Files
<1>7. \A j \in Files(dir) : St(e, sft)[j] = St(dir, sft)[j] /\ Sz(e, sft)[j] = Sz(dir, sft)[j]
  <2> SUFFICES ASSUME NEW j \in Files(dir)
               PROVE  St(e, sft)[j] = St(dir, sft)[j] /\ Sz(e, sft)[j] = Sz(dir, sft)[j]
    OBVIOUS
  <2>1. e[j].start = dir[j].start /\ e[j].size = dir[j].size /\ j \in Locs
    BY <1>4, <1>6
  <2>2. \A i \in At(sft, j) : sft[i].start = sft[i].start /\ sft[i].size = sft[i].size
    OBVIOUS
  <2> QED
    BY ONLY <2>1, <2>2, <1>2, StKept
<1>8. SftsOK(e, sft)
  BY <1>2, <1>4 DEF SftsOK
<1>9. \A y \in Clusters : g[y] = f[y] \/ f[y] = FREE \/ y \in ToSet(Chain(f, d))
  BY <1>1 DEF Lengthened, Free
<1>10. \A y \in ToSet(Chain(g, d)) : f[y] = FREE \/ y \in ToSet(Chain(f, d))
  BY <1>1
<1>11. Sz(dir, sft)[k] =< Room(g, d)
  <2>1. dir[k].size = 0
    BY <1>2, <1>5, <1>1 DEF DirsOK, Dir
  <2>2. Len(Chain(g, d)) \in Nat
    BY <1>1, ChainFacts
  <2>3. Room(g, d) \in Nat
    BY <2>2, Sizes, Times DEF Room
  <2> QED
    BY <1>5, <2>1, <2>3
<1>12. Changes(f, dir, sft, g, e, sft, k, k)
  <2>1. \A y \in Clusters : g[y] = f[y] \/ f[y] = FREE \/ (k \in Files(dir) /\ y \in ToSet(Chain(f, St(dir, sft)[k])))
    BY <1>5, <1>9
  <2>2. /\ Whole(g, St(e, sft)[k]) /\ Sz(e, sft)[k] =< Room(g, St(e, sft)[k])
        /\ \A y \in ToSet(Chain(g, St(e, sft)[k])) :
             f[y] = FREE \/ (k \in Files(dir) /\ y \in ToSet(Chain(f, St(dir, sft)[k])))
    BY ZenonT(40), <1>1, <1>5, <1>7, <1>10, <1>11
  <2>3. \A j \in Sfts : sft[j] # Closed => \/ Placed(g, sft[j].start, sft[j].cu, sft[j].rel)
                                           \/ sft[j] = sft[j] /\ sft[j].loc # k
    BY <1>5 DEF At
  <2> QED
    BY <1>2, <1>4, <1>7, <1>8, <2>1, <2>2, <2>3 DEF Changes
<1>13. /\ FilesOK(g, e, sft)
       /\ \A j \in Files(dir) \ {k} : /\ Chain(g, St(e, sft)[j]) = Chain(f, St(dir, sft)[j])
                                      /\ \A y \in ToSet(Chain(f, St(dir, sft)[j])) : g[y] = f[y]
  BY <1>12, OneFile
<1>14. Kept(f, dir, sft, g, e, sft, k)
  BY <1>4, <1>7, <1>13 DEF Kept
<1>15. ASSUME NEW j \in Dir(dir), j # k
       PROVE  Chain(g, e[j].start) = Chain(f, dir[j].start)
  <2>1. j \in Files(dir) /\ St(dir, sft)[j] = dir[j].start
    BY <1>2, DirClosed
  <2>2. St(e, sft)[j] = e[j].start
    BY <1>4, <1>8, DirClosed
  <2> QED
    BY <1>15, <2>1, <2>2, <1>13
<1>16. e[k].start = d
  BY <1>1, <1>4, <1>5
<1>17. Held(g, e) = Held(f, dir) \cup {x}
  <2>1. ASSUME NEW y, y \in Held(g, e) PROVE y \in Held(f, dir) \cup {x}
    <3>1. PICK j \in Dir(dir) : y \in ToSet(Chain(g, e[j].start))
      BY <2>1, <1>4 DEF Held
    <3>2. CASE j = k
      BY <3>1, <3>2, <1>1, <1>16 DEF Held
    <3>3. CASE j # k
      BY <3>1, <3>3, <1>15 DEF Held
    <3> QED
      BY <3>2, <3>3
  <2>2. ASSUME NEW y, y \in Held(f, dir) PROVE y \in Held(g, e)
    <3>1. PICK j \in Dir(dir) : y \in ToSet(Chain(f, dir[j].start))
      BY <2>2 DEF Held
    <3>2. CASE j = k
      BY <3>1, <3>2, <1>1, <1>4, <1>16 DEF Held
    <3>3. CASE j # k
      BY <3>1, <3>3, <1>4, <1>15 DEF Held
    <3> QED
      BY <3>2, <3>3
  <2>3. x \in Held(g, e)
    BY <1>1, <1>4, <1>16 DEF Held
  <2> QED
    BY <2>1, <2>2, <2>3
<1>18. HeldOK(g, e)
  <2>1. /\ Blank(NeverUsed).name = NeverUsed /\ NeverUsed # Junk
    BY Blanks, NamesApart
  <2>2. ASSUME NEW j \in Locs
        PROVE  /\ e[j].name = Junk <=> ~ (j[1] = Root \/ j[1] \in Held(g, e))
               /\ e[j].name = Junk => e[j] = Blank(Junk)
    <3>1. CASE j[1] = x
      BY <3>1, <2>1, <1>4, <1>17
    <3>2. CASE j[1] # x
      BY <3>2, <1>2, <1>4, <1>17 DEF HeldOK
    <3> QED
      BY <3>1, <3>2
  <2> QED
    BY <2>2 DEF HeldOK
<1>19. Grown(f, g)
  <2>1. \A y \in Clusters : g[y] = f[y] \/ f[y] = FREE \/ f[y] = LAST
    BY <1>1 DEF Lengthened, Free
  <2> QED
    BY <2>1, <1>1, Numbers DEF Grown
<1> QED
  BY <1>1, <1>2, <1>4, <1>13, <1>14, <1>17, <1>18, <1>19 DEF Sound, GoodVol, f, g, e

LEMMA RoomOK ==
  ASSUME Sound(vol, dir, sft), NEW d \in Dirs, HasRoom(d)
  PROVE  /\ Sound(Vol(d), Cleared(d), sft) /\ NewIn(d) \in Locs
         /\ Cleared(d)[NewIn(d)].name \in {NeverUsed, DELETED}
         /\ Files(Cleared(d)) = Files(dir) /\ Dir(Cleared(d)) = Dir(dir)
         /\ \A k \in Files(dir) : Cleared(d)[k] = dir[k]
<1>1. CASE Grows(d)
  <2>1. Free(vol.fat) # {}
    BY <1>1 DEF Grows, HasRoom
  <2>2. PICK k, x : GrownDir(d, k, x)
    BY <1>1, <2>1, LargerOK
  <2>3. Sound(Vol(d), Cleared(d), sft)
    BY <2>2, GrownOK
  <2>4. x \in Clusters /\ vol.fat[x] = FREE /\ Cleared(d) = Filled(dir, {x}, NeverUsed) /\ NewIn(d) = <<x, 0>>
    BY <2>2 DEF GrownDir
  <2>5. /\ <<x, 0>> \in Locs /\ \A j \in Locs : j[1] = x => dir[j] = Blank(Junk)
    BY <2>4, FreshJunk
  <2>6. dir \in DirOf /\ DirsOK(dir)
    BY SoundFacts
  <2>7. /\ Files(Cleared(d)) = Files(dir) /\ Dir(Cleared(d)) = Dir(dir)
        /\ \A j \in Locs : Cleared(d)[j] = IF j[1] = x THEN Blank(NeverUsed) ELSE dir[j]
        /\ \A j \in Files(dir) : Cleared(d)[j] = dir[j]
    BY <2>4, <2>5, <2>6, ClearedIs
  <2>8. Cleared(d)[NewIn(d)].name = NeverUsed
    BY <2>4, <2>5, <2>7, Blanks
  <2> QED
    BY <2>3, <2>4, <2>5, <2>7, <2>8
<1>2. CASE ~Grows(d)
  <2>1. Vol(d) = vol /\ Cleared(d) = dir /\ NewIn(d) = find_free(d)
    BY <1>2 DEF Vol, Cleared, NewIn
  <2>2. Unused(d) # {}
    BY <1>2 DEF Grows, HasRoom
  <2>3. find_free(d) \in Locs /\ dir[find_free(d)].name \in {NeverUsed, DELETED}
    BY <2>2, FreeEntry
  <2> QED
    BY <2>1, <2>3
<1> QED
  BY <1>1, <1>2

\* An entry that is not in use.
LEMMA UnusedIs ==
  ASSUME NEW v, NEW d, NEW s, Sound(v, d, s), NEW n \in Locs, d[n].name \in {NeverUsed, DELETED}
  PROVE  /\ n \notin Files(d) /\ d[n].name # Junk /\ d[n].isdir = FALSE /\ At(s, n) = {}
         /\ v.fat \in FatOf /\ d[n] \in Entries
<1>1. d \in DirOf /\ DirsOK(d) /\ SftsOK(d, s) /\ v.fat \in FatOf /\ s \in SftsOf
  BY SoundFacts
<1>2. n \notin Files(d) /\ d[n].name # Junk /\ d[n].name \notin Names
  BY NamesApart DEF Files
<1>3. d[n] \in Entries
  BY <1>1 DEF DirOf
<1>4. d[n].isdir \in BOOLEAN
  BY <1>3 DEF Entries
<1>5. d[n].isdir = FALSE
  BY <1>1, <1>2, <1>4 DEF DirsOK
<1>6. \A j \in Sfts : s[j].loc # n
  BY <1>1, <1>2, ClosedLoc DEF SftsOK
<1> QED
  BY <1>1, <1>2, <1>3, <1>5, <1>6 DEF At

\* An entry for a file without clusters.
LEMMA MadeOK ==
  ASSUME NEW v, NEW d, NEW s, Sound(v, d, s), NEW n \in Locs, d[n].name \in {NeverUsed, DELETED}, NEW name \in Names,
         NEW d2, d2 = [d EXCEPT ![n] = Entry(name, FREE, 0)]
  PROVE  /\ Sound(v, d2, s) /\ n \in Files(d2) /\ At(s, n) = {} /\ ~d2[n].isdir
         /\ Kept(v.fat, d, s, v.fat, d2, s, n)
<1>1. /\ d \in DirOf /\ DirsOK(d) /\ v \in VolOf /\ CountOK(v)
  BY SoundFacts
<1>2. /\ n \notin Files(d) /\ d[n].name # Junk /\ d[n].isdir = FALSE /\ At(s, n) = {}
  BY UnusedIs
<1> DEFINE b == Entry(name, FREE, 0)
<1>3. b.name = name /\ b.isdir = FALSE /\ b.start = FREE /\ b.size = 0 /\ b \in Entries
  BY Sizes DEF Entry, Entries
<1> HIDE DEF b
<1>4. /\ d2 \in DirOf /\ d2[n] = b /\ \A k \in Locs : k # n => d2[k] = d[k]
  BY <1>1, <1>3 DEF DirOf, b
<1>5. n \in Files(d2) /\ d2[n].name # Junk
  BY <1>3, <1>4, NamesApart DEF Files
<1>6. Files(d2) \ {n} = Files(d) \ {n}
  BY <1>4 DEF Files
<1>7. Dir(d2) = Dir(d) /\ n \notin Dir(d)
  BY <1>2, <1>3, <1>4, <1>6 DEF Dir, Files
<1>8. DirsOK(d2)
  BY <1>1, <1>3, <1>4 DEF DirsOK
<1>9. /\ Whole(v.fat, d2[n].start) /\ d2[n].size =< Room(v.fat, d2[n].start)
      /\ ToSet(Chain(v.fat, d2[n].start)) = {}
  BY <1>3, <1>4, NoChain
<1>10. EntryChange(v, d, s, v, d2, n, n)
  <2>1. \A k \in Locs : d2[k] = d[k] \/ (k \in {n, n} /\ d2[k].name # Junk /\ d[k].name # Junk)
    BY <1>2, <1>4, <1>5
  <2> QED
    BY <1>1, <1>2, <1>4, <1>6, <1>7, <1>8, <1>9, <2>1 DEF EntryChange
<1> QED
  BY <1>2, <1>3, <1>4, <1>5, <1>10, EntryOK

\* The first clusters of a chain that is freed.
LEMMA FirstOfIs ==
  ASSUME NEW v \in VolOf, CountOK(v), NEW start \in Clusters \cup {FREE}, Whole(v.fat, start),
         NEW k \in 0..Len(Chain(v.fat, start))
  PROVE  /\ Wiped(v, FirstOf(v.fat, start, k)) \in VolOf /\ CountOK(Wiped(v, FirstOf(v.fat, start, k)))
         /\ FirstOf(v.fat, start, k) \subseteq ToSet(Chain(v.fat, start))
         /\ \A x \in Clusters : Wiped(v, FirstOf(v.fat, start, k)).fat[x] =
              IF x \in FirstOf(v.fat, start, k) THEN FREE ELSE v.fat[x]
         /\ k = Len(Chain(v.fat, start)) => FirstOf(v.fat, start, k) = ToSet(Chain(v.fat, start))
         /\ k = 0 => FirstOf(v.fat, start, k) = {}
<1> DEFINE c == Chain(v.fat, start)
           S == FirstOf(v.fat, start, k)
<1>1. /\ Len(c) \in Nat /\ c \in [1..Len(c) -> Clusters] /\ ToSet(c) = {c[j] : j \in 1..Len(c)}
      /\ \A x \in ToSet(c) : x \in Clusters /\ v.fat[x] # FREE
  BY ChainFacts
<1>2. S = {c[j] : j \in 1..k}
  BY DEF FirstOf
<1> HIDE DEF c, S
<1>3. S \subseteq ToSet(c)
  BY <1>1, <1>2 DEF c
<1>4. S \in SUBSET Clusters /\ \A x \in S : v.fat[x] # FREE
  BY <1>1, <1>3
<1>5. /\ Wiped(v, S) \in VolOf /\ CountOK(Wiped(v, S))
      /\ Wiped(v, S).fat = [x \in Clusters |-> IF x \in S THEN FREE ELSE v.fat[x]]
  BY <1>4, WipedOK
<1>6. k = Len(c) => S = ToSet(c)
  BY <1>1, <1>2
<1>7. k = 0 => S = {}
  BY <1>2
<1> QED
  BY <1>3, <1>5, <1>6, <1>7 DEF c, S

\* A file loses its clusters, or those that could be freed.
LEMMA EmptiedOK ==
  ASSUME NEW v, NEW d, NEW s, Sound(v, d, s), NEW l \in Files(d), ~d[l].isdir, At(s, l) = {},
         NEW k \in 0..Len(Chain(v.fat, d[l].start)),
         NEW d2, d2 = [d EXCEPT ![l] = Entry(d[l].name, FREE, 0)]
  PROVE  /\ Sound(Wiped(v, FirstOf(v.fat, d[l].start, k)), d2, s) /\ l \in Files(d2) /\ ~d2[l].isdir
         /\ Kept(v.fat, d, s, Wiped(v, FirstOf(v.fat, d[l].start, k)).fat, d2, s, l)
<1> DEFINE w == Wiped(v, FirstOf(v.fat, d[l].start, k))
           b == Entry(d[l].name, FREE, 0)
<1>1. /\ d \in DirOf /\ DirsOK(d) /\ v \in VolOf /\ CountOK(v)
  BY SoundFacts
<1>2. /\ l \in Locs /\ Whole(v.fat, d[l].start) /\ d[l].start \in Clusters \cup {FREE} /\ d[l].name \in Names
  BY IdleFile
<1>3. /\ w \in VolOf /\ CountOK(w)
      /\ FirstOf(v.fat, d[l].start, k) \subseteq ToSet(Chain(v.fat, d[l].start))
      /\ \A x \in Clusters : w.fat[x] = IF x \in FirstOf(v.fat, d[l].start, k) THEN FREE ELSE v.fat[x]
  BY <1>1, <1>2, FirstOfIs
<1>4. b.name = d[l].name /\ b.isdir = FALSE /\ b.start = FREE /\ b.size = 0 /\ b \in Entries
  BY <1>2, Sizes DEF Entry, Entries
<1> HIDE DEF w, b
<1>5. /\ d2 \in DirOf /\ d2[l] = b /\ \A j \in Locs : j # l => d2[j] = d[j]
  BY <1>1, <1>2, <1>4 DEF DirOf, b
<1>6. l \in Files(d2) /\ d2[l].name # Junk /\ d[l].name # Junk
  BY <1>2, <1>4, <1>5, NamesApart DEF Files
<1>7. Files(d2) \ {l} = Files(d) \ {l}
  BY <1>5 DEF Files
<1>8. Dir(d2) = Dir(d) /\ l \notin Dir(d)
  BY <1>4, <1>5, <1>7 DEF Dir, Files
<1>9. DirsOK(d2)
  BY <1>1, <1>4, <1>5 DEF DirsOK
<1>10. /\ Whole(w.fat, d2[l].start) /\ d2[l].size =< Room(w.fat, d2[l].start)
       /\ ToSet(Chain(w.fat, d2[l].start)) = {}
  BY <1>4, <1>5, NoChain
<1>11. EntryChange(v, d, s, w, d2, l, l)
  <2>1. \A j \in Locs : d2[j] = d[j] \/ (j \in {l, l} /\ d2[j].name # Junk /\ d[j].name # Junk)
    BY <1>5, <1>6
  <2>2. \A x \in Clusters :
          w.fat[x] = v.fat[x] \/ v.fat[x] = FREE \/ (l \in Files(d) /\ x \in ToSet(Chain(v.fat, d[l].start)))
    BY <1>3
  <2> QED
    BY <1>1, <1>2, <1>3, <1>5, <1>7, <1>8, <1>9, <1>10, <2>1, <2>2 DEF EntryChange
<1> QED
  BY <1>4, <1>5, <1>6, <1>11, EntryOK DEF w

\* A file is deleted.
LEMMA DeletedOK ==
  ASSUME NEW v, NEW d, NEW s, Sound(v, d, s), NEW l \in Files(d), ~d[l].isdir, At(s, l) = {},
         NEW k \in 0..Len(Chain(v.fat, d[l].start)),
         NEW d2, d2 = [d EXCEPT ![l] = Blank(DELETED)]
  PROVE  /\ Sound(Wiped(v, FirstOf(v.fat, d[l].start, k)), d2, s)
         /\ Files(d2) = Files(d) \ {l} /\ Dir(d2) = Dir(d)
         /\ Kept(v.fat, d, s, Wiped(v, FirstOf(v.fat, d[l].start, k)).fat, d2, s, l)
<1> DEFINE w == Wiped(v, FirstOf(v.fat, d[l].start, k))
           b == Blank(DELETED)
<1>1. /\ d \in DirOf /\ DirsOK(d) /\ v \in VolOf /\ CountOK(v)
  BY SoundFacts
<1>2. /\ l \in Locs /\ Whole(v.fat, d[l].start) /\ d[l].start \in Clusters \cup {FREE} /\ d[l].name \in Names
  BY IdleFile
<1>3. /\ w \in VolOf /\ CountOK(w)
      /\ FirstOf(v.fat, d[l].start, k) \subseteq ToSet(Chain(v.fat, d[l].start))
      /\ \A x \in Clusters : w.fat[x] = IF x \in FirstOf(v.fat, d[l].start, k) THEN FREE ELSE v.fat[x]
  BY <1>1, <1>2, FirstOfIs
<1>4. b.name = DELETED /\ b.isdir = FALSE /\ b \in Entries /\ DELETED \notin Names /\ DELETED # Junk
  BY Blanks, NamesApart
<1> HIDE DEF w, b
<1>5. /\ d2 \in DirOf /\ d2[l] = b /\ \A j \in Locs : j # l => d2[j] = d[j]
  BY <1>1, <1>2, <1>4 DEF DirOf, b
<1>6. l \notin Files(d2) /\ d2[l].name # Junk /\ d[l].name # Junk
  BY <1>2, <1>4, <1>5, NamesApart DEF Files
<1>7. Files(d2) \ {l} = Files(d) \ {l} /\ Files(d2) = Files(d) \ {l}
  BY <1>5, <1>6 DEF Files
<1>8. Dir(d2) = Dir(d) /\ l \notin Dir(d)
  BY <1>4, <1>5, <1>7 DEF Dir, Files
<1>9. DirsOK(d2)
  BY <1>1, <1>4, <1>5 DEF DirsOK
<1>10. EntryChange(v, d, s, w, d2, l, l)
  <2>1. \A j \in Locs : d2[j] = d[j] \/ (j \in {l, l} /\ d2[j].name # Junk /\ d[j].name # Junk)
    BY <1>5, <1>6
  <2>2. \A x \in Clusters :
          w.fat[x] = v.fat[x] \/ v.fat[x] = FREE \/ (l \in Files(d) /\ x \in ToSet(Chain(v.fat, d[l].start)))
    BY <1>3
  <2> QED
    BY <1>1, <1>2, <1>3, <1>5, <1>6, <1>7, <1>8, <1>9, <2>1, <2>2 DEF EntryChange
<1> QED
  BY <1>7, <1>8, <1>10, EntryOK DEF w

\* A file or a directory is renamed where it is.
LEMMA RenamedOK ==
  ASSUME NEW v, NEW d, NEW s, Sound(v, d, s), NEW l \in Files(d), At(s, l) = {}, NEW name \in Names,
         NEW d2, d2 = [d EXCEPT ![l].name = name]
  PROVE  /\ Sound(v, d2, s) /\ Files(d2) = Files(d) /\ Dir(d2) = Dir(d)
         /\ Kept(v.fat, d, s, v.fat, d2, s, l)
         /\ \A j \in Locs : j # l => d2[j] = d[j]
         /\ d2[l].name = name /\ d2[l].isdir = d[l].isdir /\ d2[l].start = d[l].start /\ d2[l].size = d[l].size
<1>1. /\ d \in DirOf /\ DirsOK(d) /\ v \in VolOf /\ CountOK(v)
  BY SoundFacts
<1>2. /\ l \in Locs /\ Whole(v.fat, d[l].start) /\ d[l].size =< Room(v.fat, d[l].start)
      /\ d[l].start \in Clusters \cup {FREE} /\ d[l].name \in Names /\ d[l] \in Entries
  BY IdleFile
<1> DEFINE b == [d[l] EXCEPT !.name = name]
<1>3. /\ b.name = name /\ b.isdir = d[l].isdir /\ b.start = d[l].start /\ b.size = d[l].size /\ b \in Entries
  BY <1>2 DEF Entries
<1>4. d2 = [d EXCEPT ![l] = b]
  OBVIOUS
<1> HIDE DEF b
<1>5. /\ d2 \in DirOf /\ d2[l] = b /\ \A j \in Locs : j # l => d2[j] = d[j]
  BY ONLY <1>1, <1>2, <1>3, <1>4 DEF DirOf
<1>6. l \in Files(d2) /\ d2[l].name # Junk /\ d[l].name # Junk
  BY <1>2, <1>3, <1>5, NamesApart DEF Files
<1>7. Files(d2) \ {l} = Files(d) \ {l} /\ Files(d2) = Files(d)
  BY <1>5, <1>6 DEF Files
<1>8. Dir(d2) = Dir(d)
  BY <1>3, <1>5, <1>7 DEF Dir
<1>9. DirsOK(d2)
  BY <1>1, <1>3, <1>5 DEF DirsOK
<1>10. EntryChange(v, d, s, v, d2, l, l)
  <2>1. \A j \in Locs : d2[j] = d[j] \/ (j \in {l, l} /\ d2[j].name # Junk /\ d[j].name # Junk)
    BY <1>5, <1>6
  <2>2. /\ Whole(v.fat, d2[l].start) /\ d2[l].size =< Room(v.fat, d2[l].start)
        /\ ToSet(Chain(v.fat, d2[l].start)) = ToSet(Chain(v.fat, d[l].start))
    BY <1>2, <1>3, <1>5
  <2>3. \A j \in Dir(d) \cap {l, l} : d2[j].start = d[j].start /\ v.fat = v.fat
    BY <1>3, <1>5
  <2> HIDE DEF b
  <2> QED
    BY ONLY <1>1, <1>2, <1>5, <1>7, <1>8, <1>9, <2>1, <2>2, <2>3, Sound(v, d, s), At(s, l) = {}, l \in Files(d) DEF EntryChange
<1>11. Sound(v, d2, s) /\ Kept(v.fat, d, s, v.fat, d2, s, l)
  BY ONLY <1>10, EntryOK
<1> QED
  BY ONLY <1>3, <1>5, <1>7, <1>8, <1>11

\* A file goes to another entry.
LEMMA MovedOK ==
  ASSUME NEW v, NEW d, NEW s, Sound(v, d, s), NEW l \in Files(d), ~d[l].isdir, At(s, l) = {}, NEW name \in Names,
         NEW n \in Locs, d[n].name \in {NeverUsed, DELETED},
         NEW b, b = [d[l] EXCEPT !.name = name], NEW d2, d2 = [d EXCEPT ![l] = Blank(DELETED), ![n] = b]
  PROVE  /\ Sound(v, d2, s) /\ Kept(v.fat, d, s, v.fat, d2, s, l)
         /\ Files(d2) \ {n} = Files(d) \ {l} /\ n \in Files(d2) /\ Dir(d2) = Dir(d)
<1>1. /\ d \in DirOf /\ DirsOK(d) /\ v \in VolOf /\ CountOK(v)
  BY SoundFacts
<1>2. /\ l \in Locs /\ Whole(v.fat, d[l].start) /\ d[l].size =< Room(v.fat, d[l].start)
      /\ d[l].start \in Clusters \cup {FREE} /\ d[l].name \in Names /\ d[l] \in Entries
  BY IdleFile
<1>3. n \notin Files(d) /\ d[n].name # Junk /\ d[n].isdir = FALSE /\ At(s, n) = {}
  BY UnusedIs
<1>4. /\ b.name = name /\ b.isdir = d[l].isdir /\ b.start = d[l].start /\ b.size = d[l].size /\ b \in Entries
  BY <1>2 DEF Entries
<1>5. /\ Blank(DELETED).name = DELETED /\ Blank(DELETED).isdir = FALSE /\ Blank(DELETED) \in Entries
      /\ DELETED \notin Names /\ DELETED # Junk
  BY Blanks, NamesApart
<1>6. l # n
  BY <1>3
<1>7. /\ d2 \in DirOf /\ d2[n] = b /\ d2[l] = Blank(DELETED) /\ \A j \in Locs : j \notin {l, n} => d2[j] = d[j]
  BY <1>1, <1>2, <1>4, <1>5, <1>6 DEF DirOf
<1>8. l \notin Files(d2) /\ n \in Files(d2) /\ d2[l].name # Junk /\ d2[n].name # Junk /\ d[l].name # Junk
  BY <1>2, <1>4, <1>5, <1>7, NamesApart DEF Files
<1>9. Files(d2) \ {n} = Files(d) \ {l}
  BY <1>3, <1>7, <1>8 DEF Files
<1>10. Dir(d2) = Dir(d) /\ l \notin Dir(d) /\ n \notin Dir(d)
  <2>1. l \notin Dir(d2) /\ n \notin Dir(d2) /\ l \notin Dir(d) /\ n \notin Dir(d)
    BY <1>3, <1>4, <1>7, <1>8 DEF Dir
  <2>2. \A j \in Locs : j \notin {l, n} => (j \in Dir(d2) <=> j \in Dir(d))
    BY <1>7 DEF Dir, Files
  <2>3. Dir(d) \subseteq Locs /\ Dir(d2) \subseteq Locs
    BY DEF Dir, Files
  <2>4. \A j : j \in Dir(d2) <=> j \in Dir(d)
    <3> SUFFICES ASSUME NEW j PROVE j \in Dir(d2) <=> j \in Dir(d)
      OBVIOUS
    <3>1. CASE j \in {l, n}
      BY ONLY <3>1, <2>1
    <3>2. CASE j \notin {l, n}
      BY ONLY <3>2, <2>2, <2>3
    <3> QED
      BY <3>1, <3>2
  <2>5. Dir(d2) = Dir(d)
    BY ONLY <2>4
  <2> QED
    BY <2>1, <2>5
<1>11. DirsOK(d2)
  BY <1>1, <1>4, <1>5, <1>7 DEF DirsOK
<1>12. EntryChange(v, d, s, v, d2, l, n)
  <2>1. \A j \in Locs : d2[j] = d[j] \/ (j \in {l, n} /\ d2[j].name # Junk /\ d[j].name # Junk)
    BY <1>3, <1>7, <1>8
  <2>2. /\ Whole(v.fat, d2[n].start) /\ d2[n].size =< Room(v.fat, d2[n].start)
        /\ ToSet(Chain(v.fat, d2[n].start)) = ToSet(Chain(v.fat, d[l].start))
    BY <1>2, <1>4, <1>7
  <2>3. \A j \in Dir(d) \cap {l, n} : d2[j].start = d[j].start /\ v.fat = v.fat
    BY <1>10
  <2> QED
    BY ONLY <1>1, <1>2, <1>3, <1>7, <1>9, <1>10, <1>11, <2>1, <2>2, <2>3, Sound(v, d, s), At(s, l) = {}, l \in Files(d), n \in Locs DEF EntryChange
<1>13. Sound(v, d2, s) /\ Kept(v.fat, d, s, v.fat, d2, s, l)
  BY ONLY <1>12, EntryOK
<1> QED
  BY ONLY <1>8, <1>9, <1>10, <1>13

\* A directory without files is removed: its clusters hold no entries then.
Removes(v, d, s, l, k, d2) ==
  /\ Sound(v, d, s) /\ l \in Dir(d)
  /\ \A j \in Locs : j[1] \in ToSet(Chain(v.fat, d[l].start)) => d[j].name \in {NeverUsed, DELETED}
  /\ k \in 0..Len(Chain(v.fat, d[l].start))
  /\ d2 = Filled([d EXCEPT ![l] = Blank(DELETED)], ToSet(Chain(v.fat, d[l].start)), Junk)

LEMMA RemovedOK ==
  ASSUME NEW v, NEW d, NEW s, NEW l, NEW k, NEW d2, Removes(v, d, s, l, k, d2)
  PROVE  /\ Sound(Wiped(v, FirstOf(v.fat, d[l].start, k)), d2, s)
         /\ Files(d2) = Files(d) \ {l} /\ Dir(d2) = Dir(d) \ {l}
         /\ Kept(v.fat, d, s, Wiped(v, FirstOf(v.fat, d[l].start, k)).fat, d2, s, l)
         /\ \A j \in Locs : d2[j] = IF j[1] \in ToSet(Chain(v.fat, d[l].start)) THEN Blank(Junk)
                                    ELSE IF j = l THEN Blank(DELETED) ELSE d[j]
<1>  /\ Sound(v, d, s) /\ l \in Dir(d)
     /\ \A j \in Locs : j[1] \in ToSet(Chain(v.fat, d[l].start)) => d[j].name \in {NeverUsed, DELETED}
     /\ k \in 0..Len(Chain(v.fat, d[l].start))
     /\ d2 = Filled([d EXCEPT ![l] = Blank(DELETED)], ToSet(Chain(v.fat, d[l].start)), Junk)
  BY DEF Removes
<1> DEFINE w == Wiped(v, FirstOf(v.fat, d[l].start, k))
           C == ToSet(Chain(v.fat, d[l].start))
           f == v.fat
           g == w.fat
<1>1. /\ d \in DirOf /\ s \in SftsOf /\ DirsOK(d) /\ v \in VolOf /\ CountOK(v)
      /\ FilesOK(f, d, s) /\ SftsOK(d, s) /\ HeldOK(f, d)
      /\ VolFit(f, Files(d), St(d, s), Sz(d, s))
  BY SoundFacts
<1>2. /\ l \in Files(d) /\ l \in Locs /\ At(s, l) = {} /\ St(d, s)[l] = d[l].start
  BY <1>1, DirClosed
<1>3. Whole(f, d[l].start) /\ d[l].start \in Clusters \cup {FREE} /\ d[l].name \in Names
  BY <1>2, IdleFile
<1>4. l[1] = Root
  BY <1>1, <1>2 DEF DirsOK, Dir
<1>5. /\ w \in VolOf /\ CountOK(w)
      /\ FirstOf(f, d[l].start, k) \subseteq C
      /\ \A x \in Clusters : g[x] = IF x \in FirstOf(f, d[l].start, k) THEN FREE ELSE f[x]
  BY <1>1, <1>3, FirstOfIs
<1>6. \A x \in C : x \in Clusters /\ x # Root
  <2>1. \A x \in C : x \in Clusters
    BY <1>3, ChainFacts
  <2> QED
    BY <2>1, Numbers DEF Root, FREE
<1>7. /\ Blank(DELETED).name = DELETED /\ Blank(DELETED).isdir = FALSE /\ Blank(DELETED) \in Entries
      /\ Blank(Junk).name = Junk /\ Blank(Junk).isdir = FALSE /\ Blank(Junk) \in Entries
      /\ DELETED \notin Names /\ DELETED # Junk /\ Junk \notin Names /\ NeverUsed \notin Names
  BY Blanks, NamesApart
<1> HIDE DEF w, C, f, g
<1>8. \A j \in Locs : d2[j] = IF j[1] \in C THEN Blank(Junk) ELSE IF j = l THEN Blank(DELETED) ELSE d[j]
  BY <1>1, <1>2 DEF Filled, DirOf, C, f
<1>9. d2 \in DirOf
  <2>1. d2 = [j \in Locs |-> d2[j]]
    BY DEF Filled
  <2>2. \A j \in Locs : d2[j] \in Entries
    BY <1>1, <1>7, <1>8 DEF DirOf
  <2> HIDE DEF C
  <2> QED
    BY ONLY <2>1, <2>2 DEF DirOf
<1>10. \A j \in Locs : j[1] \in C => j \notin Files(d) /\ j # l
  BY <1>4, <1>6, <1>7 DEF Files, C, f
<1>11. \A j \in Files(d) \ {l} : j \in Files(d2) /\ d2[j] = d[j] /\ j \in Locs
  BY <1>8, <1>10 DEF Files
<1>12. \A j \in Files(d2) : j \in Files(d) \ {l}
  BY <1>7, <1>8 DEF Files
<1>13. Files(d2) = Files(d) \ {l}
  BY <1>11, <1>12
<1>14. Dir(d2) = Dir(d) \ {l}
  BY <1>11, <1>13 DEF Dir
<1>15. DirsOK(d2)
  <2>1. ASSUME NEW j \in Locs, d2[j].isdir PROVE d2[j] = d[j]
    <3>1. d2[j] # Blank(Junk) /\ d2[j] # Blank(DELETED)
      BY <1>7, <2>1
    <3> QED
      BY <1>8, <3>1
  <2>2. \A j \in Locs : d[j].isdir => j[1] = Root /\ d[j].name \in Names /\ d[j].start \in Clusters /\ d[j].size = 0
    BY <1>1 DEF DirsOK
  <2> QED
    BY ONLY <2>1, <2>2 DEF DirsOK
<1>16. \A j \in Sfts : s[j].loc # l
  BY <1>2 DEF At
<1>17. SftsOK(d2, s)
  <2>1. ASSUME NEW j \in Sfts, s[j] # Closed
        PROVE  /\ s[j].loc \in Files(d2) /\ ~d2[s[j].loc].isdir
               /\ s[j].clean => d2[s[j].loc].start = s[j].start /\ d2[s[j].loc].size = s[j].size
    <3>1. /\ s[j].loc \in Files(d) /\ ~d[s[j].loc].isdir
          /\ s[j].clean => d[s[j].loc].start = s[j].start /\ d[s[j].loc].size = s[j].size
      BY <1>1, <2>1 DEF SftsOK
    <3>2. s[j].loc \in Files(d2) /\ d2[s[j].loc] = d[s[j].loc]
      BY <1>11, <1>16, <3>1
    <3> QED
      BY <3>1, <3>2
  <2>2. \A x, y \in Sfts : s[x].loc = s[y].loc /\ s[x] # Closed => x = y
    BY <1>1 DEF SftsOK
  <2> QED
    BY <2>1, <2>2 DEF SftsOK
<1>18. \A j \in Files(d) \ {l} : St(d2, s)[j] = St(d, s)[j] /\ Sz(d2, s)[j] = Sz(d, s)[j]
  <2> SUFFICES ASSUME NEW j \in Files(d) \ {l}
               PROVE  St(d2, s)[j] = St(d, s)[j] /\ Sz(d2, s)[j] = Sz(d, s)[j]
    OBVIOUS
  <2>1. d2[j].start = d[j].start /\ d2[j].size = d[j].size /\ j \in Locs
    BY <1>11
  <2>2. \A i \in At(s, j) : s[i].start = s[i].start /\ s[i].size = s[i].size
    OBVIOUS
  <2> QED
    BY ONLY <2>1, <2>2, <1>1, StKept
<1>19. Changes(f, d, s, g, d2, s, l, l)
  <2>1. \A x \in Clusters : g[x] = f[x] \/ f[x] = FREE \/ (l \in Files(d) /\ x \in ToSet(Chain(f, St(d, s)[l])))
    BY <1>2, <1>5 DEF C, f
  <2>2. l \notin Files(d2) /\ Files(d2) \ {l} = Files(d) \ {l}
    BY <1>13
  <2>3. \A j \in Sfts : s[j] # Closed =>
          Placed(g, s[j].start, s[j].cu, s[j].rel) \/ (s[j] = s[j] /\ s[j].loc # l)
    BY <1>16
  <2> QED
    BY ONLY <1>1, <1>9, <1>17, <1>18, <2>1, <2>2, <2>3 DEF Changes
<1>20. /\ FilesOK(g, d2, s)
       /\ \A j \in Files(d) \ {l} : /\ Chain(g, St(d2, s)[j]) = Chain(f, St(d, s)[j])
                                  /\ \A x \in ToSet(Chain(f, St(d, s)[j])) : g[x] = f[x]
  BY ONLY <1>19, OneFile
<1>21. Kept(f, d, s, g, d2, s, l)
  BY ONLY <1>11, <1>18, <1>20 DEF Kept
<1>22. \A j \in Dir(d) \ {l} : Chain(g, d2[j].start) = Chain(f, d[j].start) /\ j \in Dir(d2)
  <2> SUFFICES ASSUME NEW j \in Dir(d) \ {l} PROVE Chain(g, d2[j].start) = Chain(f, d[j].start)
    BY <1>14
  <2>1. j \in Files(d) /\ St(d, s)[j] = d[j].start
    BY <1>1, DirClosed
  <2>2. j \in Dir(d2)
    BY <1>14
  <2>3. St(d2, s)[j] = d2[j].start
    BY <1>17, <2>2, DirClosed
  <2> QED
    BY <2>1, <2>3, <1>20
<1>23. ASSUME NEW x
       PROVE  x \in Held(g, d2) <=> x \in Held(f, d) /\ x \notin C
  <2>1. ASSUME x \in Held(g, d2) PROVE x \in Held(f, d) /\ x \notin C
    <3>1. PICK j \in Dir(d2) : x \in ToSet(Chain(g, d2[j].start))
      BY <2>1 DEF Held
    <3>2. j \in Dir(d) \ {l} /\ j \in Files(d) /\ j # l
      BY <3>1, <1>14 DEF Dir
    <3>3. x \in ToSet(Chain(f, d[j].start))
      BY <3>1, <3>2, <1>22
    <3>4. St(d, s)[j] = d[j].start
      BY <1>1, <3>2, DirClosed
    <3>5. x \in Clusters
      <4>1. x \in Held(f, d)
        BY <3>2, <3>3 DEF Held
      <4> QED
        BY ONLY <1>1, <4>1, HeldUsed
    <3>6. x \notin ToSet(Chain(f, d[l].start))
      BY <1>1, <1>2, <3>2, <3>3, <3>4, <3>5 DEF VolFit
    <3> QED
      BY <3>2, <3>3, <3>6 DEF Held, C, f
  <2>2. ASSUME x \in Held(f, d), x \notin C PROVE x \in Held(g, d2)
    <3>1. PICK j \in Dir(d) : x \in ToSet(Chain(f, d[j].start))
      BY <2>2 DEF Held
    <3>2. j # l
      BY <2>2, <3>1 DEF C, f
    <3>3. j \in Dir(d2) /\ x \in ToSet(Chain(g, d2[j].start))
      BY <3>1, <3>2, <1>22
    <3> QED
      BY <3>3 DEF Held
  <2> QED
    BY <2>1, <2>2
<1>24. HeldOK(g, d2)
  <2>1. C \subseteq Held(f, d)
    BY DEF Held, C, f
  <2>2. ASSUME NEW j \in Locs
        PROVE  /\ d2[j].name = Junk <=> ~ (j[1] = Root \/ j[1] \in Held(g, d2))
               /\ d2[j].name = Junk => d2[j] = Blank(Junk)
    <3>1. CASE j[1] \in C
      BY <3>1, <1>6, <1>7, <1>8, <1>23
    <3>2. CASE j = l
      BY <3>2, <1>4, <1>6, <1>7, <1>8
    <3>3. CASE j[1] \notin C /\ j # l
      BY <3>3, <1>1, <1>8, <1>23 DEF HeldOK
    <3> QED
      BY <3>1, <3>2, <3>3
  <2> QED
    BY <2>2 DEF HeldOK
<1>25. Sound(w, d2, s)
  BY ONLY <1>1, <1>5, <1>9, <1>15, <1>20, <1>24 DEF Sound, GoodVol, g
<1> QED
  BY ONLY <1>8, <1>13, <1>14, <1>21, <1>25 DEF w, C, f, g

\* A directory is made: a cluster cleared, and an entry in the root.
MkdirEntry(name, x) == [name |-> name, isdir |-> TRUE, start |-> x, size |-> 0]

Mkdirs(v, d, s, x, n, name, d2) ==
  /\ Sound(v, d, s) /\ Free(v.fat) # {} /\ x = find_fat_free(v)
  /\ n \in Locs /\ n[1] = Root /\ d[n].name \in {NeverUsed, DELETED} /\ name \in Names
  /\ d2 = [Filled(d, {x}, NeverUsed) EXCEPT ![n] = MkdirEntry(name, x)]

Mkdired(v, d, x, n, name, d2) ==
  /\ x \in Clusters /\ v.fat[x] = FREE /\ Whole(Taken(v).fat, x)
  /\ x \in ToSet(Chain(Taken(v).fat, x)) /\ \A y \in ToSet(Chain(Taken(v).fat, x)) : y = x
  /\ \A j \in Dir(d2) : j \in Dir(d) \/ j = n
  /\ d2[n] = MkdirEntry(name, x)
  /\ \A j \in Locs : j # n => d2[j] = IF j[1] = x THEN Blank(NeverUsed) ELSE d[j]

LEMMA MkdirOK ==
  ASSUME NEW v, NEW d, NEW s, NEW x, NEW n, NEW name, NEW d2, Mkdirs(v, d, s, x, n, name, d2)
  PROVE  /\ Sound(Taken(v), d2, s) /\ Mkdired(v, d, x, n, name, d2)
         /\ Kept(v.fat, d, s, Taken(v).fat, d2, s, n)
<1> DEFINE w == Taken(v)
           f == v.fat
           g == w.fat
           e == Filled(d, {x}, NeverUsed)
           b == MkdirEntry(name, x)
<1>  /\ Sound(v, d, s) /\ Free(v.fat) # {} /\ x = find_fat_free(v)
      /\ n \in Locs /\ n[1] = Root /\ d[n].name \in {NeverUsed, DELETED} /\ name \in Names
      /\ d2 = [Filled(d, {x}, NeverUsed) EXCEPT ![n] = MkdirEntry(name, x)]
  BY DEF Mkdirs
<1>1. /\ d \in DirOf /\ s \in SftsOf /\ DirsOK(d) /\ v \in VolOf /\ CountOK(v)
      /\ FilesOK(f, d, s) /\ SftsOK(d, s) /\ HeldOK(f, d) /\ f \in FatOf
  BY SoundFacts
<1>2. /\ w \in VolOf /\ CountOK(w) /\ x \in Clusters /\ f[x] = FREE /\ g = [f EXCEPT ![x] = LAST]
  BY <1>1, TakenOK
<1>3. /\ x # Root /\ x \notin Held(f, d)
      /\ \A k \in Locs : k[1] = x => d[k] = Blank(Junk) /\ k \notin Files(d) /\ At(s, k) = {}
  BY <1>2, FreshJunk
<1>4. /\ e \in DirOf /\ DirsOK(e) /\ Files(e) = Files(d) /\ Dir(e) = Dir(d)
      /\ \A k \in Locs : e[k] = IF k[1] = x THEN Blank(NeverUsed) ELSE d[k]
      /\ \A k \in Files(d) : e[k] = d[k] /\ k[1] # x
  BY <1>1, <1>2, <1>3, ClearedIs
<1>5. b.name = name /\ b.isdir /\ b.start = x /\ b.size = 0 /\ b \in Entries
  BY <1>2, Sizes DEF MkdirEntry, Entries
<1>6. n \notin Files(d) /\ d[n].name # Junk /\ d[n].isdir = FALSE /\ At(s, n) = {}
  BY UnusedIs
<1>7. g \in FatOf /\ g[x] = LAST /\ \A y \in Clusters : y # x => g[y] = f[y]
  BY <1>1, <1>2 DEF VolOf, FatOf
<1> HIDE DEF w, f, g, e, b
<1>8. /\ d2 \in DirOf /\ d2[n] = b /\ \A j \in Locs : j # n => d2[j] = e[j]
  <2>1. d2 = [e EXCEPT ![n] = b]
    BY DEF e, b
  <2> QED
    BY ONLY <2>1, <1>4, <1>5, n \in Locs DEF DirOf
<1>9. \A j \in Locs : d2[j] = IF j = n THEN b ELSE IF j[1] = x THEN Blank(NeverUsed) ELSE d[j]
  BY ONLY <1>4, <1>8
<1>10. n[1] # x
  BY <1>3
<1>11. \A j \in Files(d) : d2[j] = d[j] /\ j \in Locs /\ j # n /\ j \in Files(d2)
  BY <1>4, <1>6, <1>8 DEF Files
<1>12. n \in Files(d2) /\ \A j \in Files(d2) : j = n \/ j \in Files(d)
  BY <1>4, <1>5, <1>8 DEF Files
<1>13. Files(d2) = Files(d) \cup {n}
  BY <1>11, <1>12
<1>14. Dir(d2) = Dir(d) \cup {n}
  BY <1>5, <1>8, <1>11, <1>13 DEF Dir
<1>15. DirsOK(d2)
  BY ONLY <1>2, <1>4, <1>5, <1>8, n[1] = Root, name \in Names DEF DirsOK
<1> DEFINE q == <<x>>
<1>16. Runs(g, x, q, 1) /\ q \in [1..1 -> Clusters] /\ q[1] = x
  BY <1>2, <1>7 DEF Runs
<1> HIDE DEF q
<1>17. Chain(g, x) = <<x>> /\ Whole(g, x) /\ ToSet(Chain(g, x)) = {x} /\ Len(Chain(g, x)) = 1
  <2>1. Chain(g, x) = q
    BY ONLY <1>16, RunsChain
  <2>2. Whole(g, x) /\ Len(Chain(g, x)) = 1
    BY <1>16, RunsWhole
  <2>3. DOMAIN q = 1..1 /\ q[1] = x
    BY <1>16
  <2>4. ToSet(q) = {x}
    BY <2>3 DEF ToSet
  <2> QED
    BY <2>1, <2>2, <2>4 DEF q
<1>18. SftsOK(d2, s)
  <2>1. ASSUME NEW j \in Sfts, s[j] # Closed
        PROVE  /\ s[j].loc \in Files(d2) /\ ~d2[s[j].loc].isdir
               /\ s[j].clean => d2[s[j].loc].start = s[j].start /\ d2[s[j].loc].size = s[j].size
    <3>1. /\ s[j].loc \in Files(d) /\ ~d[s[j].loc].isdir
          /\ s[j].clean => d[s[j].loc].start = s[j].start /\ d[s[j].loc].size = s[j].size
      BY <1>1, <2>1 DEF SftsOK
    <3>2. s[j].loc \in Files(d2) /\ d2[s[j].loc] = d[s[j].loc]
      BY <1>11, <3>1
    <3> QED
      BY <3>1, <3>2
  <2>2. \A y, z \in Sfts : s[y].loc = s[z].loc /\ s[y] # Closed => y = z
    BY <1>1 DEF SftsOK
  <2> QED
    BY <2>1, <2>2 DEF SftsOK
<1>19. \A j \in Files(d) \ {n} : St(d2, s)[j] = St(d, s)[j] /\ Sz(d2, s)[j] = Sz(d, s)[j]
  <2> SUFFICES ASSUME NEW j \in Files(d) \ {n}
               PROVE  St(d2, s)[j] = St(d, s)[j] /\ Sz(d2, s)[j] = Sz(d, s)[j]
    OBVIOUS
  <2>1. d2[j].start = d[j].start /\ d2[j].size = d[j].size /\ j \in Locs
    BY <1>11
  <2>2. \A i \in At(s, j) : s[i].start = s[i].start /\ s[i].size = s[i].size
    OBVIOUS
  <2> QED
    BY ONLY <2>1, <2>2, <1>1, StKept
<1>20. St(d2, s)[n] = x /\ Sz(d2, s)[n] = 0
  BY ONLY <1>5, <1>6, <1>8, n \in Locs, IdleIs
<1>21. 0 =< Room(g, x)
  BY <1>17, Sizes DEF Room
<1>22. Changes(f, d, s, g, d2, s, n, n)
  <2>1. \A y \in Clusters : g[y] = f[y] \/ f[y] = FREE \/ (n \in Files(d) /\ y \in ToSet(Chain(f, St(d, s)[n])))
    BY <1>2, <1>7
  <2>2. Files(d2) \ {n} = Files(d) \ {n}
    BY <1>13
  <2>3. \A j \in Sfts : s[j] # Closed =>
          Placed(g, s[j].start, s[j].cu, s[j].rel) \/ (s[j] = s[j] /\ s[j].loc # n)
    BY <1>6 DEF At
  <2>4. /\ Whole(g, St(d2, s)[n]) /\ Sz(d2, s)[n] =< Room(g, St(d2, s)[n])
        /\ \A y \in ToSet(Chain(g, St(d2, s)[n])) :
             f[y] = FREE \/ (n \in Files(d) /\ y \in ToSet(Chain(f, St(d, s)[n])))
    BY <1>2, <1>17, <1>20, <1>21
  <2> QED
    BY ONLY <1>1, <1>8, <1>18, <1>19, <2>1, <2>2, <2>3, <2>4 DEF Changes
<1>23. /\ FilesOK(g, d2, s)
       /\ \A j \in Files(d) \ {n} : /\ Chain(g, St(d2, s)[j]) = Chain(f, St(d, s)[j])
                                  /\ \A y \in ToSet(Chain(f, St(d, s)[j])) : g[y] = f[y]
  BY ONLY <1>22, OneFile
<1>25. \A j \in Dir(d) : Chain(g, d2[j].start) = Chain(f, d[j].start) /\ j \in Dir(d2) /\ j # n
  <2> SUFFICES ASSUME NEW j \in Dir(d) PROVE Chain(g, d2[j].start) = Chain(f, d[j].start) /\ j # n
    BY <1>14
  <2>1. j \in Files(d) /\ St(d, s)[j] = d[j].start
    BY <1>1, DirClosed
  <2>2. j \in Dir(d2)
    BY <1>14
  <2>3. St(d2, s)[j] = d2[j].start
    BY ONLY <1>18, <2>2, DirClosed
  <2>4. j # n
    BY <1>6, <2>1
  <2> QED
    BY <2>1, <2>3, <2>4, <1>23
<1>26. ASSUME NEW y
       PROVE  y \in Held(g, d2) <=> y \in Held(f, d) \/ y = x
  <2>1. ASSUME y \in Held(g, d2) PROVE y \in Held(f, d) \/ y = x
    <3>1. PICK j \in Dir(d2) : y \in ToSet(Chain(g, d2[j].start))
      BY <2>1 DEF Held
    <3>2. CASE j = n
      BY <3>1, <3>2, <1>5, <1>8, <1>17
    <3>3. CASE j # n
      BY <3>1, <3>3, <1>14, <1>25 DEF Held
    <3> QED
      BY <3>2, <3>3
  <2>2. ASSUME y \in Held(f, d) PROVE y \in Held(g, d2)
    BY <2>2, <1>25 DEF Held
  <2>3. x \in Held(g, d2)
    BY ONLY <1>5, <1>8, <1>14, <1>17 DEF Held
  <2> QED
    BY <2>1, <2>2, <2>3
<1>27. HeldOK(g, d2)
  <2>1. Blank(NeverUsed).name = NeverUsed /\ NeverUsed # Junk /\ Junk \notin Names
    BY Blanks, NamesApart
  <2>2. ASSUME NEW j \in Locs
        PROVE  /\ d2[j].name = Junk <=> ~ (j[1] = Root \/ j[1] \in Held(g, d2))
               /\ d2[j].name = Junk => d2[j] = Blank(Junk)
    <3>1. CASE j = n
      BY ONLY <3>1, <2>1, <1>5, <1>9, n \in Locs, n[1] = Root, name \in Names
    <3>2. CASE j # n /\ j[1] = x
      BY <3>2, <2>1, <1>9, <1>26
    <3>3. CASE j # n /\ j[1] # x
      BY <3>3, <1>1, <1>9, <1>26 DEF HeldOK
    <3> QED
      BY <3>1, <3>2, <3>3
  <2> QED
    BY <2>2 DEF HeldOK
<1>28. Sound(w, d2, s)
  BY ONLY <1>1, <1>2, <1>8, <1>15, <1>23, <1>27 DEF Sound, GoodVol, g
<1> QED
  <2>1. Whole(g, x) /\ x \in ToSet(Chain(g, x)) /\ \A y \in ToSet(Chain(g, x)) : y = x
    BY ONLY <1>17
  <2>2. /\ \A j \in Dir(d2) : j \in Dir(d) \/ j = n
        /\ d2[n] = b /\ \A j \in Locs : j # n => d2[j] = IF j[1] = x THEN Blank(NeverUsed) ELSE d[j]
    BY ONLY <1>8, <1>9, <1>14
  <2>3. Mkdired(v, d, x, n, name, d2)
    BY ONLY <1>2, <2>1, <2>2 DEF Mkdired, w, f, g, b
  <2>4. Kept(f, d, s, g, d2, s, n)
    <3>1. \A j \in Files(d) : j # n =>
            /\ j \in Files(d2) /\ Chain(g, St(d2, s)[j]) = Chain(f, St(d, s)[j])
            /\ St(d2, s)[j] = St(d, s)[j] /\ Sz(d2, s)[j] = Sz(d, s)[j]
            /\ \A y \in ToSet(Chain(f, St(d, s)[j])) : g[y] = f[y]
      BY ONLY <1>11, <1>19, <1>23
    <3> QED
      BY ONLY <3>1 DEF Kept
  <2> QED
    BY ONLY <1>28, <2>3, <2>4 DEF w, f, g
=============================================================================
