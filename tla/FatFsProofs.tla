---------------------------- MODULE FatFsProofs ----------------------------
(***************************************************************************)
(* The volume of FatFs, whatever calls fail, are aborted or stop with the  *)
(* machine: chains end and stay apart, sizes fit, cached positions and the *)
(* count of free clusters are right, what was flushed stays, directories   *)
(* are in order, and no cluster is lost but by a call that is interrupted. *)
(***************************************************************************)
EXTENDS FatFsFacts

-----------------------------------------------------------------------------
(* Names in directories.                                                   *)

Starts(d) == {Root} \cup {d[l].start : l \in Dir(d)}

\* The entries of a directory, one after another: names once, and nothing after the
\* first entry never used.
InOrder(q, d) ==
  /\ \A j, k \in DOMAIN q : j # k /\ d[q[j]].name \in Names => d[q[k]].name # d[q[j]].name
  /\ \A j, k \in DOMAIN q : j < k /\ d[q[j]].name = NeverUsed => d[q[k]].name = NeverUsed

Ordered(f, d) == \A e \in Starts(d) : InOrder(InDir(f, e), d)

LEMMA InOrderSame ==
  ASSUME NEW f, NEW e, NEW q, NEW m, DirList(f, e, q, m), NEW d, NEW d2, InOrder(q, d),
         \A j \in Locs : j[1] \in Part(f, e) => d2[j].name = d[j].name
  PROVE  InOrder(q, d2)
<1>1. m \in Nat /\ DOMAIN q = 1..m /\ \A j \in 1..m : d2[q[j]].name = d[q[j]].name
  BY DEF DirList
<1> QED
  BY <1>1 DEF InOrder

\* The name of the entry n changes.
NewName(q, m, d, d2, n) ==
  /\ d2[n].name # NeverUsed
  /\ d2[n].name \in Names => \A j \in 1..m : q[j] # n => d[q[j]].name # d2[n].name
  /\ \A j \in 1..m : q[j] = n /\ d[n].name = NeverUsed =>
       \A k \in 1..m : k < j => d[q[k]].name # NeverUsed

LEMMA InOrderSet ==
  ASSUME NEW f, NEW e, NEW q, NEW m, DirList(f, e, q, m), NEW d, NEW d2, InOrder(q, d), NEW n,
         \A j \in Locs : j[1] \in Part(f, e) /\ j # n => d2[j].name = d[j].name,
         NewName(q, m, d, d2, n)
  PROVE  InOrder(q, d2)
<1>1. /\ m \in Nat /\ DOMAIN q = 1..m
      /\ \A j \in 1..m : q[j] # n => d2[q[j]].name = d[q[j]].name
      /\ \A j, k \in 1..m : q[j] = q[k] => j = k
  BY DEF DirList
<1>2. /\ d2[n].name # NeverUsed
      /\ d2[n].name \in Names => \A j \in 1..m : q[j] # n => d[q[j]].name # d2[n].name
      /\ \A j \in 1..m : q[j] = n /\ d[n].name = NeverUsed =>
           \A k \in 1..m : k < j => d[q[k]].name # NeverUsed
  BY DEF NewName
<1>3. /\ \A j, k \in 1..m : j # k /\ d[q[j]].name \in Names => d[q[k]].name # d[q[j]].name
      /\ \A j, k \in 1..m : j < k /\ d[q[j]].name = NeverUsed => d[q[k]].name = NeverUsed
  BY <1>1 DEF InOrder
<1>4. ASSUME NEW j \in 1..m, NEW k \in 1..m, j # k, d2[q[j]].name \in Names
      PROVE  d2[q[k]].name # d2[q[j]].name
  <2>1. CASE q[j] = n
    <3>1. q[k] # n
      BY <2>1, <1>1, <1>4
    <3> QED
      BY <2>1, <3>1, <1>1, <1>2, <1>4
  <2>2. CASE q[k] = n
    <3>1. q[j] # n
      BY <2>2, <1>1, <1>4
    <3>2. d2[q[j]].name = d[q[j]].name
      BY <3>1, <1>1
    <3> QED
      BY <2>2, <3>1, <3>2, <1>2, <1>4
  <2>3. CASE q[j] # n /\ q[k] # n
    BY <2>3, <1>1, <1>3, <1>4
  <2> QED
    BY <2>1, <2>2, <2>3
<1>5. ASSUME NEW j \in 1..m, NEW k \in 1..m, j < k, d2[q[j]].name = NeverUsed
      PROVE  d2[q[k]].name = NeverUsed
  <2>1. q[j] # n /\ d[q[j]].name = NeverUsed
    BY <1>1, <1>2, <1>5
  <2>2. d[q[k]].name = NeverUsed
    BY <2>1, <1>3, <1>5
  <2>3. q[k] # n
    BY <2>1, <2>2, <1>2, <1>5
  <2> QED
    BY <2>2, <2>3, <1>1
<1> QED
  BY <1>1, <1>4, <1>5 DEF InOrder

\* The directories of a sound volume.
LEMMA StartsAre ==
  ASSUME NEW v, NEW d, NEW s, Sound(v, d, s), NEW e \in Starts(d)
  PROVE  /\ IsDir(v.fat, e)
         /\ e # Root => \E k \in Dir(d) : d[k].start = e /\ e \in Clusters /\ Whole(v.fat, e)
         /\ \A x \in Part(v.fat, e) : x = Root \/ x \in Held(v.fat, d)
<1>1. d \in DirOf /\ s \in SftsOf /\ FilesOK(v.fat, d, s) /\ DirsOK(d)
  BY SoundFacts
<1>2. ASSUME e # Root
      PROVE  \E k \in Dir(d) : d[k].start = e /\ e \in Clusters /\ Whole(v.fat, e)
  <2>1. PICK k \in Dir(d) : d[k].start = e
    BY <1>2 DEF Starts
  <2>2. Whole(v.fat, e)
    BY <1>1, <2>1, HeldUsed
  <2>3. e \in Clusters
    BY <1>1, <2>1 DEF DirsOK, Dir, Files
  <2> QED
    BY <2>1, <2>2, <2>3
<1>3. IsDir(v.fat, e)
  BY <1>2 DEF IsDir
<1>4. \A x \in Part(v.fat, e) : x = Root \/ x \in Held(v.fat, d)
  BY <1>2 DEF Part, Held
<1> QED
  BY <1>2, <1>3, <1>4

\* No cluster is in two directories.
LEMMA PartsApart ==
  ASSUME NEW v, NEW d, NEW s, Sound(v, d, s), NEW e \in Starts(d), NEW e2 \in Starts(d),
         NEW x, x \in Part(v.fat, e), x \in Part(v.fat, e2)
  PROVE  e = e2
<1>1. SftsOK(d, s) /\ VolFit(v.fat, Files(d), St(d, s), Sz(d, s))
  BY SoundFacts
<1>2. /\ e # Root => \E k \in Dir(d) : d[k].start = e /\ e \in Clusters /\ Whole(v.fat, e)
      /\ e2 # Root => \E k \in Dir(d) : d[k].start = e2 /\ e2 \in Clusters /\ Whole(v.fat, e2)
  BY StartsAre
<1>3. e # Root => Part(v.fat, e) = ToSet(Chain(v.fat, e)) /\ x \in Clusters
  BY <1>2, ChainFacts DEF Part
<1>4. e2 # Root => Part(v.fat, e2) = ToSet(Chain(v.fat, e2)) /\ x \in Clusters
  BY <1>2, ChainFacts DEF Part
<1>5. Root \notin Clusters
  BY Numbers DEF Root, FREE
<1>6. CASE e = Root
  <2>1. x = Root
    BY <1>6 DEF Part
  <2> QED
    BY <1>4, <1>5, <1>6, <2>1
<1>7. CASE e2 = Root
  <2>1. x = Root
    BY <1>7 DEF Part
  <2> QED
    BY <1>3, <1>5, <1>7, <2>1
<1>8. CASE e # Root /\ e2 # Root
  <2>1. PICK k \in Dir(d) : d[k].start = e
    BY <1>2, <1>8
  <2>2. PICK k2 \in Dir(d) : d[k2].start = e2
    BY <1>2, <1>8
  <2>3. k \in Files(d) /\ k2 \in Files(d) /\ St(d, s)[k] = e /\ St(d, s)[k2] = e2
    BY <1>1, <2>1, <2>2, DirClosed
  <2>4. k = k2
    BY <1>1, <1>3, <1>4, <1>8, <2>3 DEF VolFit
  <2> QED
    BY <2>1, <2>2, <2>4
<1> QED
  BY <1>6, <1>7, <1>8

\* One name changes, and directories keep their clusters.
LEMMA OrderedSet ==
  ASSUME NEW v, NEW d, NEW s, Sound(v, d, s), Ordered(v.fat, d), NEW d2, NEW g, NEW n,
         Starts(d2) \subseteq Starts(d),
         \A e \in Starts(d2) : e # Root => Chain(g, e) = Chain(v.fat, e),
         \A e \in Starts(d2) : \A j \in Locs : j[1] \in Part(v.fat, e) /\ j # n => d2[j].name = d[j].name,
         \A e \in Starts(d2) : n \in Locs /\ n[1] \in Part(v.fat, e) =>
           \/ d2[n].name = d[n].name
           \/ \A m : DirList(v.fat, e, InDir(v.fat, e), m) => NewName(InDir(v.fat, e), m, d, d2, n)
  PROVE  Ordered(g, d2)
<1> SUFFICES ASSUME NEW e \in Starts(d2) PROVE InOrder(InDir(g, e), d2)
  BY DEF Ordered
<1>1. InDir(g, e) = InDir(v.fat, e)
  BY DEF InDir
<1>2. e \in Starts(d) /\ InOrder(InDir(v.fat, e), d)
  BY DEF Ordered
<1>3. PICK m : DirList(v.fat, e, InDir(v.fat, e), m)
  BY <1>2, StartsAre, InDirIs
<1>4. \A j \in Locs : j[1] \in Part(v.fat, e) /\ j # n => d2[j].name = d[j].name
  OBVIOUS
<1>5. CASE /\ n \in Locs /\ n[1] \in Part(v.fat, e) /\ d2[n].name # d[n].name
  <2>1. NewName(InDir(v.fat, e), m, d, d2, n)
    BY <1>3, <1>5
  <2>2. InOrder(InDir(v.fat, e), d2)
    BY ONLY <1>2, <1>3, <1>4, <2>1, InOrderSet
  <2> QED
    BY <1>1, <2>2
<1>6. CASE ~ (n \in Locs /\ n[1] \in Part(v.fat, e) /\ d2[n].name # d[n].name)
  <2> DEFINE q == InDir(v.fat, e)
  <2>1. \A j \in Locs : j[1] \in Part(v.fat, e) => d2[j].name = d[j].name
    BY <1>4, <1>6
  <2>3. InOrder(q, d) /\ DirList(v.fat, e, q, m)
    BY <1>2, <1>3
  <2> HIDE DEF q
  <2>4. m \in Nat /\ DOMAIN q = 1..m /\ \A j \in 1..m : d2[q[j]].name = d[q[j]].name
    BY <2>1, <2>3 DEF DirList
  <2>5. InOrder(q, d2)
    BY <2>3, <2>4 DEF InOrder
  <2>2. InOrder(InDir(v.fat, e), d2)
    BY <2>5 DEF q
  <2> QED
    BY <1>1, <2>2
<1> QED
  BY <1>5, <1>6

-----------------------------------------------------------------------------
(* What is on the disk, e, when FAT and entries are f and d.               *)

\* Directories on the disk are whole, and hold entries.
DiskGood(e) ==
  /\ e.fat \in FatOf /\ e.dir \in DirOf /\ DirsOK(e.dir) /\ HeldOK(e.fat, e.dir)
  /\ \A k \in Dir(e.dir) : Whole(e.fat, e.dir[k].start)

\* What is not on the disk yet makes chains longer, or clears a cluster.
FatAhead(e, f) ==
  \A c \in Clusters : e.fat[c] = f[c] \/ (e.fat[c] \in {FREE, LAST} /\ f[c] # FREE)
DirAhead(e, d) ==
  \A l \in Locs : d[l] = e.dir[l] \/ (l[1] # Root /\ d[l] = Blank(NeverUsed) /\ e.dir[l] = Blank(Junk))

SavedIn(e, f, d, s, S) ==
  \A l \in S :
    /\ l \in Files(d) /\ ~d[l].isdir /\ d[l] = e.dir[l]
    /\ \A i \in Sfts : s[i].loc = l => s[i].clean
    /\ \A c \in ToSet(Chain(f, d[l].start)) : e.fat[c] = f[c]

Behind(e, f, d, s, S) == DiskGood(e) /\ FatAhead(e, f) /\ DirAhead(e, d) /\ SavedIn(e, f, d, s, S)

\* After a flush nothing is missing.
LEMMA FlushedIs ==
  ASSUME NEW v, NEW d, NEW s, Sound(v, d, s), NEW e, e.fat = v.fat, e.dir = d, NEW S,
         S = {l \in Locs : d[l].name \in Names /\ ~d[l].isdir /\ \A i \in Sfts : s[i].loc = l => s[i].clean}
  PROVE  Behind(e, v.fat, d, s, S)
<1>1. v.fat \in FatOf /\ d \in DirOf /\ s \in SftsOf /\ DirsOK(d) /\ HeldOK(v.fat, d) /\ FilesOK(v.fat, d, s)
  BY SoundFacts
<1>2. DiskGood(e)
  BY <1>1, HeldUsed DEF DiskGood
<1>3. FatAhead(e, v.fat) /\ DirAhead(e, d)
  BY DEF FatAhead, DirAhead
<1>4. SavedIn(e, v.fat, d, s, S)
  BY DEF SavedIn, Files
<1> QED
  BY <1>2, <1>3, <1>4 DEF Behind

\* A file that is saved is what its entry says.
HasSaved(v, d, s, e, S) == Sound(v, d, s) /\ SavedIn(e, v.fat, d, s, S)

LEMMA SavedStart ==
  ASSUME NEW v, NEW d, NEW s, NEW e, NEW S, HasSaved(v, d, s, e, S), NEW k \in S
  PROVE  /\ k \in Files(d) /\ k \in Locs /\ St(d, s)[k] = d[k].start /\ Sz(d, s)[k] = d[k].size
         /\ d[k].start \in Clusters \cup {FREE} /\ Whole(v.fat, d[k].start)
         /\ d[k].size =< Room(v.fat, d[k].start)
<1>1. SftsOK(d, s) /\ VolFit(v.fat, Files(d), St(d, s), Sz(d, s)) /\ d \in DirOf /\ s \in SftsOf
  BY SoundFacts DEF HasSaved
<1>2. k \in Files(d) /\ k \in Locs /\ \A i \in Sfts : s[i].loc = k => s[i].clean
  BY DEF SavedIn, Files, HasSaved
<1>3. St(d, s)[k] = d[k].start /\ Sz(d, s)[k] = d[k].size
  <2>1. CASE At(s, k) = {} /\ St(d, s)[k] = d[k].start /\ Sz(d, s)[k] = d[k].size
    BY <2>1
  <2>2. ASSUME NEW j \in Sfts, s[j] # Closed, s[j].loc = k, St(d, s)[k] = s[j].start, Sz(d, s)[k] = s[j].size
        PROVE  St(d, s)[k] = d[k].start /\ Sz(d, s)[k] = d[k].size
    BY <1>1, <1>2, <2>2 DEF SftsOK
  <2> QED
    BY <1>1, <1>2, <2>1, <2>2, OpenOrNot
<1>4. St(d, s)[k] \in Clusters \cup {FREE}
  BY <1>1, <1>2, StTypes
<1> QED
  BY <1>1, <1>2, <1>3, <1>4 DEF VolFit

\* A call that writes nothing to the disk, and whose file is no longer saved.
Away(v, d, s, e, S, w, s2, l, T) ==
  /\ Sound(v, d, s) /\ Behind(e, v.fat, d, s, S)
  /\ Grown(v.fat, w.fat) /\ OthersStay(v.fat, d, s, w.fat, s2, l)
  /\ T \subseteq S /\ l \notin T
  /\ \A k \in T : \A i \in Sfts : s2[i].loc = k => s2[i].clean

LEMMA GrownAhead ==
  ASSUME NEW e, NEW f, NEW g, FatAhead(e, f), Grown(f, g)
  PROVE  FatAhead(e, g)
<1> QED
  BY Numbers DEF FatAhead, Grown

LEMMA StillBehind ==
  ASSUME NEW v, NEW d, NEW s, NEW e, NEW S, NEW w, NEW s2, NEW l, NEW T, Away(v, d, s, e, S, w, s2, l, T)
  PROVE  Behind(e, w.fat, d, s2, T)
<1>1. /\ Sound(v, d, s) /\ DiskGood(e) /\ FatAhead(e, v.fat) /\ DirAhead(e, d) /\ SavedIn(e, v.fat, d, s, S)
      /\ Grown(v.fat, w.fat) /\ OthersStay(v.fat, d, s, w.fat, s2, l)
      /\ T \subseteq S /\ l \notin T
      /\ \A k \in T : \A i \in Sfts : s2[i].loc = k => s2[i].clean
  BY DEF Away, Behind
<1>2. FatAhead(e, w.fat)
  BY <1>1, GrownAhead
<1>3. ASSUME NEW k \in T
      PROVE  /\ k \in Files(d) /\ ~d[k].isdir /\ d[k] = e.dir[k]
             /\ \A c \in ToSet(Chain(w.fat, d[k].start)) : e.fat[c] = w.fat[c]
  <2>1. k \in S /\ k # l
    BY <1>1
  <2>2. k \in Files(d) /\ ~d[k].isdir /\ d[k] = e.dir[k] /\ \A c \in ToSet(Chain(v.fat, d[k].start)) : e.fat[c] = v.fat[c]
    BY <1>1, <2>1 DEF SavedIn
  <2>3. St(d, s)[k] = d[k].start
    <3>1. HasSaved(v, d, s, e, S)
      BY <1>1 DEF HasSaved
    <3>2. k \in S
      BY <2>1
    <3> QED
      BY ONLY <3>1, <3>2, SavedStart
  <2>4. /\ Chain(w.fat, St(d, s2)[k]) = Chain(v.fat, St(d, s)[k]) /\ St(d, s2)[k] = St(d, s)[k]
        /\ \A x \in ToSet(Chain(v.fat, St(d, s)[k])) : w.fat[x] = v.fat[x]
    BY <1>1, <2>1, <2>2 DEF OthersStay
  <2>5. Chain(w.fat, d[k].start) = Chain(v.fat, d[k].start)
    BY <2>3, <2>4
  <2>6. \A x \in ToSet(Chain(v.fat, d[k].start)) : w.fat[x] = v.fat[x]
    BY <2>3, <2>4
  <2> QED
    BY <2>2, <2>5, <2>6
<1>4. SavedIn(e, w.fat, d, s2, T)
  BY <1>1, <1>3 DEF SavedIn
<1> QED
  BY <1>1, <1>2, <1>4 DEF Behind

\* A directory was made larger, and what is on the disk does not know.
LEMMA GrownBehind ==
  ASSUME Sound(vol, dir, sft), NEW d \in Dirs, NEW k, NEW x, GrownDir(d, k, x),
         NEW e, NEW S, Behind(e, vol.fat, dir, sft, S)
  PROVE  Behind(e, Vol(d).fat, Cleared(d), sft, S)
<1>1. /\ DiskGood(e) /\ FatAhead(e, vol.fat) /\ DirAhead(e, dir) /\ SavedIn(e, vol.fat, dir, sft, S)
  BY DEF Behind
<1>2. /\ k \in Dir(dir) /\ x \in Clusters /\ vol.fat[x] = FREE /\ Cleared(d) = Filled(dir, {x}, NeverUsed)
  BY DEF GrownDir
<1>3. /\ Kept(vol.fat, dir, sft, Vol(d).fat, Cleared(d), sft, k)
      /\ Grown(vol.fat, Vol(d).fat)
  BY GrownOK
<1>4. dir \in DirOf /\ DirsOK(dir)
  BY SoundFacts
<1>5. x # Root /\ \A l \in Locs : l[1] = x => dir[l] = Blank(Junk)
  <2>1. x \in Clusters /\ vol.fat[x] = FREE
    BY <1>2
  <2>2. x # Root /\ \A l \in Locs : l[1] = x => dir[l] = Blank(Junk) /\ l \notin Files(dir) /\ At(sft, l) = {}
    BY <2>1, FreshJunk, Zenon
  <2> QED
    BY <2>2
<1>6. /\ Files(Cleared(d)) = Files(dir)
      /\ \A l \in Locs : Cleared(d)[l] = IF l[1] = x THEN Blank(NeverUsed) ELSE dir[l]
      /\ \A l \in Files(dir) : Cleared(d)[l] = dir[l]
  BY <1>2, <1>4, <1>5, ClearedIs
<1>7. FatAhead(e, Vol(d).fat)
  BY <1>1, <1>3, GrownAhead
<1>8. DirAhead(e, Cleared(d))
  <2> SUFFICES ASSUME NEW l \in Locs
               PROVE  \/ Cleared(d)[l] = e.dir[l]
                      \/ l[1] # Root /\ Cleared(d)[l] = Blank(NeverUsed) /\ e.dir[l] = Blank(Junk)
    BY DEF DirAhead
  <2>1. \/ dir[l] = e.dir[l]
        \/ l[1] # Root /\ dir[l] = Blank(NeverUsed) /\ e.dir[l] = Blank(Junk)
    BY <1>1 DEF DirAhead
  <2>2. Blank(NeverUsed) # Blank(Junk)
    BY Blanks, NamesApart
  <2> QED
    BY <1>5, <1>6, <2>1, <2>2
<1>9. SavedIn(e, Vol(d).fat, Cleared(d), sft, S)
  <2> SUFFICES ASSUME NEW l \in S
               PROVE  /\ l \in Files(Cleared(d)) /\ ~Cleared(d)[l].isdir /\ Cleared(d)[l] = e.dir[l]
                      /\ \A i \in Sfts : sft[i].loc = l => sft[i].clean
                      /\ \A c \in ToSet(Chain(Vol(d).fat, Cleared(d)[l].start)) : e.fat[c] = Vol(d).fat[c]
    BY DEF SavedIn
  <2>1. /\ l \in Files(dir) /\ ~dir[l].isdir /\ dir[l] = e.dir[l]
        /\ \A i \in Sfts : sft[i].loc = l => sft[i].clean
        /\ \A c \in ToSet(Chain(vol.fat, dir[l].start)) : e.fat[c] = vol.fat[c]
    BY <1>1 DEF SavedIn
  <2>2. St(dir, sft)[l] = dir[l].start
    <3>1. HasSaved(vol, dir, sft, e, S)
      BY <1>1 DEF HasSaved
    <3>2. l \in S
      OBVIOUS
    <3> QED
      BY ONLY <3>1, <3>2, SavedStart
  <2>3. l # k
    BY <1>2, <2>1 DEF Dir
  <2>4. /\ Chain(Vol(d).fat, St(Cleared(d), sft)[l]) = Chain(vol.fat, St(dir, sft)[l])
        /\ St(Cleared(d), sft)[l] = St(dir, sft)[l]
        /\ \A c \in ToSet(Chain(vol.fat, St(dir, sft)[l])) : Vol(d).fat[c] = vol.fat[c]
    BY <1>3, <2>1, <2>3 DEF Kept
  <2>5. Cleared(d)[l] = dir[l]
    BY <1>6, <2>1
  <2>6. Chain(Vol(d).fat, Cleared(d)[l].start) = Chain(vol.fat, dir[l].start)
    BY <2>2, <2>4, <2>5
  <2>7. \A c \in ToSet(Chain(vol.fat, dir[l].start)) : Vol(d).fat[c] = vol.fat[c]
    BY <2>2, <2>4
  <2> QED
    BY <1>6, <2>1, <2>5, <2>6, <2>7
<1> QED
  BY <1>1, <1>7, <1>8, <1>9 DEF Behind

-----------------------------------------------------------------------------
(* How calls end.                                                          *)

DiskOf == [fat : FatOf, dir : DirOf]

\* Between calls.
Now == /\ Sound(vol, dir, sft) /\ Behind(disk, vol.fat, dir, sft, saved)
       /\ disk \in DiskOf /\ saved \subseteq Locs
NowNext == /\ Sound(vol', dir', sft') /\ Behind(disk', vol'.fat, dir', sft', saved')
           /\ disk' \in DiskOf /\ saved' \subseteq Locs

\* What it was like when the model stops.
TypesNext == vol' \in VolOf /\ dir' \in DirOf /\ sft' \in SftsOf /\ disk' \in DiskOf /\ saved' \subseteq Locs

Ended == (NowNext /\ (Fine \/ Fault(FALSE))) \/ (TypesNext /\ Fault(TRUE))

LEMMA FlushNow ==
  ASSUME Sound(vol', dir', sft'), flush_buffers
  PROVE  NowNext
<1> DEFINE S == {l \in Locs : dir'[l].name \in Names /\ ~dir'[l].isdir /\ \A i \in Sfts : sft'[i].loc = l => sft'[i].clean}
<1>1. disk' = [fat |-> vol'.fat, dir |-> dir'] /\ saved' = S
  BY DEF flush_buffers
<1>2. disk'.fat = vol'.fat /\ disk'.dir = dir'
  BY <1>1
<1>3. Behind(disk', vol'.fat, dir', sft', S)
  BY <1>2, FlushedIs
<1>4. vol'.fat \in FatOf /\ dir' \in DirOf
  BY SoundFacts
<1> QED
  BY <1>1, <1>3, <1>4 DEF NowNext, DiskOf

\* A call that changes the SFT of the file at l, if any, and the clusters of that.
AwayNow(l) ==
  /\ dir' = dir /\ disk' = disk /\ Sound(vol', dir, sft')
  /\ Grown(vol.fat, vol'.fat) /\ OthersStay(vol.fat, dir, sft, vol'.fat, sft', l)
  /\ saved' \subseteq saved /\ l \notin saved'
  /\ \A k \in saved' : \A i \in Sfts : sft'[i].loc = k => sft'[i].clean

LEMMA AwayOK ==
  ASSUME Now, NEW l, AwayNow(l)
  PROVE  NowNext
<1>1. Away(vol, dir, sft, disk, saved, vol', sft', l, saved')
  BY DEF Now, AwayNow, Away
<1>2. Behind(disk, vol'.fat, dir, sft', saved')
  BY <1>1, StillBehind
<1> QED
  BY <1>2 DEF Now, AwayNow, NowNext

LEMMA SavedClean ==
  ASSUME Now, NEW k \in saved, NEW i \in Sfts, sft[i].loc = k
  PROVE  sft[i].clean
<1> QED
  BY DEF Now, Behind, SavedIn

LEMMA NotSaved ==
  ASSUME Now
  PROVE  <<>> \notin saved /\ \A k \in saved : k \notin Dir(dir) /\ k \in Files(dir)
<1>1. \A k \in saved : k \in Files(dir) /\ ~dir[k].isdir
  BY DEF Now, Behind, SavedIn
<1>2. <<>> \notin Locs
  BY ClosedLoc
<1> QED
  BY <1>1, <1>2 DEF Dir, Files

LEMMA NothingOthers ==
  ASSUME NEW f, NEW d, NEW s, NEW s2, NEW l, \A k \in Locs : St(d, s2)[k] = St(d, s)[k] /\ Sz(d, s2)[k] = Sz(d, s)[k]
  PROVE  OthersStay(f, d, s, f, s2, l) /\ Grown(f, f)
<1>1. \A k \in Files(d) : k \in Locs
  BY DEF Files
<1>2. \A k \in Files(d) : St(d, s2)[k] = St(d, s)[k] /\ Sz(d, s2)[k] = Sz(d, s)[k]
  BY <1>1
<1>3. \A k \in Files(d) : Chain(f, St(d, s2)[k]) = Chain(f, St(d, s)[k])
  BY <1>2
<1> QED
  BY <1>2, <1>3 DEF OthersStay, Grown

\* dos_open.
LEMMA OpenEnded ==
  ASSUME Now, NEW i \in Sfts, NEW l \in Locs, dos_open(i, l)
  PROVE  Ended
<1>1. /\ sft[i] = Closed /\ l \in Files(dir) /\ ~dir[l].isdir /\ At(sft, l) = {}
      /\ sft' = With(sft, i, Opened(l, dir)) /\ vol' = vol /\ dir' = dir /\ disk' = disk /\ saved' = saved
      /\ Fine
  BY DEF dos_open, Live, Files, Idle, OpenAt, At, With
<1>2. /\ Sound(vol, dir, With(sft, i, Opened(l, dir)))
      /\ \A k \in Locs : /\ St(dir, With(sft, i, Opened(l, dir)))[k] = St(dir, sft)[k]
                         /\ Sz(dir, With(sft, i, Opened(l, dir)))[k] = Sz(dir, sft)[k]
  BY <1>1, OpenedOK DEF Now
<1>3. Opened(l, dir).clean = TRUE
  BY Zenon DEF Opened, Closed
<1>4. \A k \in saved : \A j \in Sfts : sft'[j].loc = k => sft'[j].clean
  <2> SUFFICES ASSUME NEW k \in saved, NEW j \in Sfts, sft'[j].loc = k PROVE sft'[j].clean
    OBVIOUS
  <2>1. sft \in SftsOf
    BY SoundFacts DEF Now
  <2>2. sft'[j] = IF j = i THEN Opened(l, dir) ELSE sft[j]
    BY SMTT(40), <1>1, <2>1 DEF With, SftsOf
  <2> QED
    BY <1>3, <2>2, SavedClean
<1>5. OthersStay(vol.fat, dir, sft, vol.fat, sft', <<>>) /\ Grown(vol.fat, vol.fat)
  BY <1>1, <1>2, NothingOthers
<1>6. AwayNow(<<>>)
  BY <1>1, <1>2, <1>4, <1>5, NotSaved DEF AwayNow
<1> QED
  BY <1>1, <1>6, AwayOK DEF Ended

LEMMA NowReady ==
  ASSUME Now, NEW i \in Sfts, sft[i] # Closed
  PROVE  Ready(vol, dir, sft, i)
<1> QED
  BY SoundFacts DEF Now, Ready, Sound

LEMMA NewOfIs ==
  ASSUME NEW a, NEW m, NEW size, NEW pos, NEW clean
  PROVE  /\ NewOf(a, m, size, pos, clean).loc = a.loc /\ NewOf(a, m, size, pos, clean).start = m.start
         /\ NewOf(a, m, size, pos, clean).size = size /\ NewOf(a, m, size, pos, clean).clean = clean
<1> QED
  BY DEF NewOf

\* Reading and seeking.
LEMMA BrowsedEnded ==
  ASSUME Now, NEW i \in Sfts, sft[i] # Closed, Browsed(i)
  PROVE  Ended
<1>1. PICK m, pos : /\ Advanced(vol, dir, sft, i, m) /\ m.vol = vol /\ m.start = sft[i].start
                    /\ sft' = With(sft, i, NewOf(sft[i], m, sft[i].size, pos, sft[i].clean))
                    /\ FitsIn(m, sft[i].size, pos)
  BY Zenon DEF Browsed
<1>2. vol' = vol /\ dir' = dir /\ disk' = disk /\ saved' = saved /\ (Fine \/ Fault(FALSE))
  BY DEF Browsed
<1> DEFINE r == NewOf(sft[i], m, sft[i].size, pos, sft[i].clean)
<1>3. /\ SftsOK(dir, sft) /\ sft \in SftsOf /\ sft[i] \in SftOf /\ sft[i].clean \in BOOLEAN
  BY SoundFacts DEF Now, SftsOf, SftOf
<1>4. FileSteps(vol.fat, dir, sft, i, r, vol.fat)
  <2>1. Moved(vol, dir, sft, i, m)
    BY <1>1, AdvancedMoved
  <2>2. sft[i].size \in 0..MaxSize /\ pos \in 0..MaxSize /\ sft[i].size =< Room(m.vol.fat, m.start)
    BY <1>1 DEF FitsIn
  <2> DEFINE cl == sft[i].clean
  <2>3. cl => sft[i].clean /\ m.start = sft[i].start /\ sft[i].size = sft[i].size
    BY <1>1
  <2>4. cl \in BOOLEAN
    BY <1>3
  <2> HIDE DEF cl
  <2>5. FileSteps(vol.fat, dir, sft, i, NewOf(sft[i], m, sft[i].size, pos, cl), m.vol.fat)
    BY <2>1, <2>2, <2>3, <2>4, MovedSft
  <2> QED
    BY <2>5, <1>1 DEF cl
<1>5. r.loc = sft[i].loc /\ r.start = sft[i].start /\ r.size = sft[i].size /\ r.clean = sft[i].clean
  BY <1>1, NewOfIs
<1> HIDE DEF r
<1>6. /\ \A k \in Locs :
           /\ St(dir, With(sft, i, r))[k] = IF k = sft[i].loc THEN r.start ELSE St(dir, sft)[k]
           /\ Sz(dir, With(sft, i, r))[k] = IF k = sft[i].loc THEN r.size ELSE Sz(dir, sft)[k]
      /\ With(sft, i, r) \in SftsOf
  BY <1>4, FileStep
<1>7. St(dir, sft)[sft[i].loc] = sft[i].start /\ Sz(dir, sft)[sft[i].loc] = sft[i].size
  BY <1>3, OpenIs
<1>8. sft' = With(sft, i, r)
  BY <1>1 DEF r
<1>9. \A k \in Locs : St(dir, sft')[k] = St(dir, sft)[k] /\ Sz(dir, sft')[k] = Sz(dir, sft)[k]
  BY <1>5, <1>6, <1>7, <1>8
<1>10. OthersStay(vol.fat, dir, sft, vol.fat, sft', <<>>) /\ Grown(vol.fat, vol.fat)
  BY <1>9, NothingOthers
<1>11. Sound(vol', dir, sft')
  <2>1. Outcome(vol, dir, sft, vol', sft', sft[i].loc)
    BY NowReady, BrowsedOutcome
  <2> QED
    BY <2>1, SoundFacts DEF Outcome, Sound, Now
<1>12. \A k \in saved : \A j \in Sfts : sft'[j].loc = k => sft'[j].clean
  <2> SUFFICES ASSUME NEW k \in saved, NEW j \in Sfts, sft'[j].loc = k PROVE sft'[j].clean
    OBVIOUS
  <2>2. sft'[j] = IF j = i THEN r ELSE sft[j]
    BY <1>3, <1>8 DEF With, SftsOf
  <2> QED
    BY <1>5, <2>2, SavedClean
<1>13. AwayNow(<<>>)
  BY <1>2, <1>10, <1>11, <1>12, NotSaved DEF AwayNow
<1> QED
  BY <1>2, <1>13, AwayOK DEF Ended

\* What a call on the open file i leaves, when it writes nothing to the disk.
LEMMA FileEnded ==
  ASSUME Now, NEW i \in Sfts, sft[i] # Closed, Outcome(vol, dir, sft, vol', sft', sft[i].loc),
         Grown(vol.fat, vol'.fat), dir' = dir, Unflushed(sft[i].loc),
         \A j \in Sfts : j # i => sft'[j] = sft[j], sft'[i].loc = sft[i].loc
  PROVE  NowNext
<1>1. disk' = disk /\ saved' = saved \ {sft[i].loc}
  BY DEF Unflushed
<1>2. Sound(vol', dir, sft') /\ OthersStay(vol.fat, dir, sft, vol'.fat, sft', sft[i].loc)
  BY SoundFacts DEF Outcome, Sound, Now
<1>3. \A k \in saved' : \A j \in Sfts : sft'[j].loc = k => sft'[j].clean
  BY <1>1, SavedClean
<1>4. AwayNow(sft[i].loc)
  BY <1>1, <1>2, <1>3 DEF AwayNow
<1> QED
  BY <1>4, AwayOK

\* A call changes no SFT but its own, and that not always.
Rewritten(i) ==
  \/ sft' = sft
  \/ \E m, size, pos : sft' = [Back(i, m, size, pos) EXCEPT ![i].clean = FALSE]

LEMMA RewrittenElse ==
  ASSUME sft \in SftsOf, NEW i \in Sfts, Rewritten(i)
  PROVE  (\A j \in Sfts : j # i => sft'[j] = sft[j]) /\ sft'[i].loc = sft[i].loc
<1>1. CASE sft' = sft
  BY <1>1
<1>2. ASSUME NEW m, NEW size, NEW pos, sft' = [Back(i, m, size, pos) EXCEPT ![i].clean = FALSE]
      PROVE  (\A j \in Sfts : j # i => sft'[j] = sft[j]) /\ sft'[i].loc = sft[i].loc
  <2>1. sft' = With(sft, i, NewOf(sft[i], m, size, pos, FALSE))
    BY <1>2, BackIs
  <2> DEFINE r == NewOf(sft[i], m, size, pos, FALSE)
  <2>2. r.loc = sft[i].loc
    BY DEF NewOf
  <2> HIDE DEF r
  <2>3. sft' = With(sft, i, r)
    BY <2>1 DEF r
  <2> QED
    BY <2>2, <2>3 DEF With, SftsOf
<1> QED
  BY <1>1, <1>2 DEF Rewritten

LEMMA WriteElse ==
  ASSUME NEW i, NEW n, rwblock_write(i, n)
  PROVE  Rewritten(i)
<1> DEFINE s == sft[i]
           first == s.pos \div ClusterSize
           end == s.pos + n
           to == (end - 1) \div ClusterSize
           begin == Rewound(Fnode(i), first)
           full == map_cluster(begin, to, TRUE)
           Onto(m) == m.cu # FREE /\ m.rel >= first
           Upto(m, pos) == sft' = [Back(i, m, Greater(s.size, pos), pos) EXCEPT ![i].clean = FALSE]
           Less(m) == sft' = [Back(i, m, Stuck(s, m), s.pos) EXCEPT ![i].clean = FALSE]
<1>1. \/ IF Mapped(full, to) THEN Upto(full, end)
         ELSE IF Onto(full) THEN Upto(full, (full.rel + 1) * ClusterSize)
         ELSE Less(full)
      \/ \E m \in Interrupted(begin, to, TRUE) :
           \/ UNCHANGED sft
           \/ IF Onto(m) THEN \E q \in first..m.rel : Upto(m, Greater(s.pos, q * ClusterSize))
              ELSE Less(m)
  BY Zenon DEF rwblock_write
<1>2. \A m, pos : Upto(m, pos) => Rewritten(i)
  BY Zenon DEF Rewritten
<1>3. \A m : Less(m) => Rewritten(i)
  BY Zenon DEF Rewritten
<1>4. sft' = sft => Rewritten(i)
  BY DEF Rewritten
<1> HIDE DEF Upto, Less, begin, full, first, end, to, s, Onto
<1> QED
  BY <1>1, <1>2, <1>3, <1>4

LEMMA TruncElse ==
  ASSUME NEW i, rwblock_trunc(i)
  PROVE  Rewritten(i)
<1> DEFINE s == sft[i]
           m == map_cluster(Fnode(i), LastByte(s.pos), s.pos > s.size)
           rest == IF m.cu = FREE THEN 0 ELSE Len(Chain(m.vol.fat, m.vol.fat[m.cu]))
           Ends(x, size) == sft' = [Back(i, x, size, s.pos) EXCEPT ![i].clean = FALSE]
<1>1. \/ Ends(Fnode(i), 0)
      \/ Ends(m, Stuck(s, m))
      \/ \E k \in 0..rest : Ends(m, s.pos) \/ Ends(Shrunk(m, s.pos, k), s.pos)
      \/ sft' = sft
      \/ \E x \in Interrupted(Fnode(i), LastByte(s.pos), s.pos > s.size) : sft' = sft \/ Ends(x, Stuck(s, x))
  BY Zenon DEF rwblock_trunc
<1>2. \A x, size : Ends(x, size) => Rewritten(i)
  BY Zenon DEF Rewritten
<1>3. sft' = sft => Rewritten(i)
  BY DEF Rewritten
<1> HIDE DEF Ends, m, rest, s
<1> QED
  BY <1>1, <1>2, <1>3

\* Reading, seeking, writing and truncating.
LEMMA ReadEnded ==
  ASSUME Now, NEW i \in Sfts, NEW n \in Nat \ {0}, rwblock_read(i, n)
  PROVE  Ended
<1>1. sft[i] # Closed
  BY Zenon DEF rwblock_read
<1> QED
  BY <1>1, NowReady, ReadStep, BrowsedEnded

LEMMA SeekEnded ==
  ASSUME Now, NEW i \in Sfts, NEW pos \in Seeks, SftSeek(i, pos)
  PROVE  Ended
<1>1. sft[i] # Closed
  BY DEF SftSeek
<1> QED
  BY <1>1, NowReady, SeekStep, BrowsedEnded

LEMMA WriteEnded ==
  ASSUME Now, NEW i \in Sfts, NEW n \in Nat \ {0}, rwblock_write(i, n)
  PROVE  Ended
<1>1. sft[i] # Closed
  BY Zenon DEF rwblock_write
<1>2. /\ Outcome(vol, dir, sft, vol', sft', sft[i].loc) /\ Grown(vol.fat, vol'.fat)
      /\ dir' = dir /\ Unflushed(sft[i].loc) /\ (Fine \/ Fault(FALSE))
  BY <1>1, NowReady, WriteStep
<1>3. sft \in SftsOf
  BY SoundFacts DEF Now
<1>4. (\A j \in Sfts : j # i => sft'[j] = sft[j]) /\ sft'[i].loc = sft[i].loc
  BY <1>3, WriteElse, RewrittenElse
<1> QED
  BY <1>1, <1>2, <1>4, FileEnded DEF Ended

LEMMA TruncCallEnded ==
  ASSUME Now, NEW i \in Sfts, rwblock_trunc(i)
  PROVE  Ended
<1>1. sft[i] # Closed
  BY Zenon DEF rwblock_trunc
<1>2. TruncEnded(i)
  BY <1>1, NowReady, TruncStep
<1>3. sft \in SftsOf /\ dir \in DirOf /\ disk \in DiskOf /\ saved \subseteq Locs
  BY SoundFacts DEF Now
<1>4. (\A j \in Sfts : j # i => sft'[j] = sft[j]) /\ sft'[i].loc = sft[i].loc
  BY <1>3, TruncElse, RewrittenElse
<1>5. CASE /\ Outcome(vol, dir, sft, vol', sft', sft[i].loc) /\ Grown(vol.fat, vol'.fat)
           /\ Unflushed(sft[i].loc) /\ (Fine \/ Fault(FALSE)) /\ dir' = dir
  BY <1>1, <1>4, <1>5, FileEnded DEF Ended
<1>6. CASE /\ Outcome(vol, dir, sft, vol', sft', sft[i].loc)
           /\ flush_buffers /\ (Fine \/ Fault(FALSE)) /\ dir' = dir
  <2>1. Sound(vol', dir', sft')
    BY <1>3, <1>6 DEF Outcome, Sound
  <2> QED
    BY <1>6, <2>1, FlushNow DEF Ended
<1>7. CASE vol' \in VolOf /\ sft' = sft /\ Unflushed(sft[i].loc) /\ Fault(TRUE) /\ dir' = dir
  BY <1>3, <1>7 DEF Unflushed, Ended, TypesNext
<1> QED
  BY <1>2, <1>5, <1>6, <1>7 DEF TruncEnded

LEMMA SavedSubset == Now => saved \subseteq Locs
BY DEF Now

\* A call that ends before anything was written: clusters were taken, and none linked to.
LEMMA LeakEnded ==
  ASSUME Now, vol' = Taken(vol), UNCHANGED <<dir, sft, disk>>, saved' \subseteq saved, Fine \/ Fault(FALSE)
  PROVE  Ended
<1>1. vol \in VolOf /\ CountOK(vol) /\ dir \in DirOf /\ sft \in SftsOf /\ GoodVol(vol, dir, sft)
  BY SoundFacts DEF Now, Sound
<1>2. Taken(vol) \in VolOf /\ CountOK(Taken(vol)) /\ \A y \in Clusters : Taken(vol).fat[y] = vol.fat[y] \/ y \in Free(vol.fat)
  BY <1>1, TakenOK DEF VolOf, FatOf, Free
<1>3. \A y \in Clusters : Taken(vol).fat[y] = vol.fat[y] \/ Taken(vol).fat[y] = LAST
  BY <1>1, TakenOK DEF VolOf, FatOf
<1>4. Leaks(vol, dir, sft, vol')
  BY <1>1, <1>2 DEF Leaks, Free
<1>5. GoodVol(vol', dir, sft) /\ OthersStay(vol.fat, dir, sft, vol'.fat, sft, <<>>)
  BY <1>4, LeakGood
<1>6. Grown(vol.fat, vol'.fat)
  BY <1>2, <1>3, Numbers DEF Grown, Free
<1>7. Sound(vol', dir, sft)
  BY <1>1, <1>2, <1>5 DEF Sound
<1>8. sft' = sft
  OBVIOUS
<1>9. \A k \in saved' : \A j \in Sfts : sft'[j].loc = k => sft'[j].clean
  BY <1>8, SavedClean
<1>10. AwayNow(<<>>)
  BY <1>5, <1>6, <1>7, <1>9, NotSaved DEF AwayNow
<1> QED
  BY <1>10, AwayOK DEF Ended

\* A call that changes nothing at all but what is known to be saved.
LEMMA NothingEnded ==
  ASSUME Now, vol'.fat = vol.fat, vol' \in VolOf, CountOK(vol'), UNCHANGED <<dir, sft, disk>>, saved' \subseteq saved
  PROVE  NowNext
<1>1. vol \in VolOf /\ CountOK(vol) /\ dir \in DirOf /\ sft \in SftsOf /\ GoodVol(vol, dir, sft)
  BY SoundFacts DEF Now, Sound
<1>2. GoodVol(vol', dir, sft)
  BY <1>1 DEF GoodVol
<1>3. OthersStay(vol.fat, dir, sft, vol.fat, sft, <<>>) /\ Grown(vol.fat, vol.fat)
  BY NothingOthers
<1>4. Sound(vol', dir, sft)
  BY <1>1, <1>2 DEF Sound
<1>5. \A k \in saved' : \A j \in Sfts : sft'[j].loc = k => sft'[j].clean
  BY SavedClean
<1>6. AwayNow(<<>>)
  BY <1>3, <1>4, <1>5, NotSaved DEF AwayNow
<1> QED
  BY <1>6, AwayOK

\* dos_free.
LEMMA FreeEnded ==
  ASSUME Now, dos_free
  PROVE  Ended
<1>1. vol \in VolOf /\ dir \in DirOf /\ sft \in SftsOf /\ disk \in DiskOf /\ saved \subseteq Locs
  BY SMTT(30), SoundFacts DEF Now
<1>2. PICK S \in SUBSET Free(vol.fat) :
        /\ vol' = [vol EXCEPT !.nfree = Cardinality(S), !.hint = IF S = {} THEN @ ELSE Min(S)]
        /\ IF S = Free(vol.fat) THEN Fine ELSE Fault(TRUE)
  BY DEF dos_free
<1>3. dir' = dir /\ sft' = sft /\ disk' = disk /\ saved' = saved
  BY DEF dos_free
<1>4. S \subseteq Clusters /\ IsFiniteSet(S) /\ IsFiniteSet(Clusters)
  BY FreeFinite, FS_Subset DEF Free
<1>5. Cardinality(S) \in 0..MaxCluster
  <2>1. Cardinality(S) \in Nat /\ Cardinality(S) =< Cardinality(Free(vol.fat))
    BY <1>4, FreeFinite, FS_Subset, FS_CardinalityType
  <2>2. Cardinality(Free(vol.fat)) \in 0..MaxCluster
    BY FreeFinite
  <2> QED
    BY <2>1, <2>2, Sizes
<1>6. S # {} => Min(S) \in S
  <2> SUFFICES ASSUME S # {} PROVE Min(S) \in S
    OBVIOUS
  <2>1. S \subseteq Nat /\ S # {}
    BY <1>4, Numbers
  <2> QED
    BY <2>1, Least DEF Min
<1> DEFINE h == IF S = {} THEN vol.hint ELSE Min(S)
           c == Cardinality(S)
<1>7. h \in Clusters \cup {UNKNOWN}
  BY <1>1, <1>4, <1>6 DEF VolOf
<1>8. vol' = [vol EXCEPT !.nfree = c, !.hint = h]
  BY <1>2
<1> HIDE DEF h, c
<1>9. vol' \in VolOf /\ vol'.fat = vol.fat /\ vol'.nfree = c
  BY <1>1, <1>5, <1>7, <1>8 DEF VolOf, c
<1>10. CASE S = Free(vol.fat)
  <2>1. CountOK(vol')
    BY <1>9, <1>10 DEF CountOK, c
  <2> QED
    BY <1>2, <1>3, <1>9, <1>10, <2>1, NothingEnded DEF Ended
<1>11. CASE S # Free(vol.fat)
  BY <1>1, <1>2, <1>3, <1>9, <1>11 DEF Ended, TypesNext
<1> QED
  BY <1>10, <1>11

\* dos_close and dos_commit.
LEMMA CloseEnded ==
  ASSUME Now, NEW i \in Sfts, NEW commit \in BOOLEAN, dos_close(i, commit)
  PROVE  Ended
<1> DEFINE d2 == [dir EXCEPT ![sft[i].loc] = Entry(dir[sft[i].loc].name, sft[i].start, sft[i].size)]
<1>1. /\ sft[i] # Closed /\ vol' = vol
      /\ \/ /\ dir' = IF sft[i].clean THEN dir ELSE d2
            /\ sft' = IF commit THEN sft ELSE With(sft, i, Closed)
            /\ flush_buffers /\ Fine
         \/ UNCHANGED <<dir, sft, disk, saved>> /\ Fault(FALSE)
  BY DEF dos_close, With
<1>2. Sound(vol, dir, sft) /\ vol \in VolOf /\ CountOK(vol) /\ SftsOK(dir, sft)
  BY SoundFacts DEF Now
<1>3. Sound(vol, d2, sft) /\ d2[sft[i].loc].start = sft[i].start /\ d2[sft[i].loc].size = sft[i].size
  BY <1>1, <1>2, UpdatedOK DEF Updated
<1> HIDE DEF d2
<1>4. CASE /\ dir' = IF sft[i].clean THEN dir ELSE d2
           /\ sft' = IF commit THEN sft ELSE With(sft, i, Closed)
           /\ flush_buffers /\ Fine
  <2> DEFINE b == IF sft[i].clean THEN dir ELSE d2
  <2>1. Sound(vol, b, sft) /\ b[sft[i].loc].start = sft[i].start /\ b[sft[i].loc].size = sft[i].size
    BY <1>1, <1>2, <1>3 DEF SftsOK
  <2>2. dir' = b
    BY <1>4
  <2> HIDE DEF b
  <2>3. Sound(vol, b, With(sft, i, Closed))
    BY <1>1, <2>1, ClosedOK
  <2>4. Sound(vol', dir', sft')
    BY <1>1, <1>4, <2>1, <2>2, <2>3
  <2> QED
    BY <1>4, <2>4, FlushNow DEF Ended
<1>5. CASE UNCHANGED <<dir, sft, disk, saved>> /\ Fault(FALSE)
  BY <1>1, <1>2, <1>5, NothingEnded DEF Ended
<1> QED
  BY <1>1, <1>4, <1>5

\* The clusters that were freed before the call ended.
LEMMA WipedEnded ==
  ASSUME Now, NEW l \in Files(dir), At(sft, l) = {}, NEW k \in 0..Len(Chain(vol.fat, dir[l].start)),
         vol' = Wiped(vol, FirstOf(vol.fat, dir[l].start, k)), UNCHANGED <<dir, sft>>, Unflushed(l), Fault(k > 0)
  PROVE  Ended
<1>1. vol \in VolOf /\ CountOK(vol) /\ dir \in DirOf /\ sft \in SftsOf /\ disk \in DiskOf /\ saved \subseteq Locs
      /\ Sound(vol, dir, sft)
  BY SoundFacts DEF Now
<1>2. /\ Whole(vol.fat, dir[l].start) /\ dir[l].start \in Clusters \cup {FREE}
  BY <1>1, IdleFile
<1>3. /\ vol' \in VolOf /\ CountOK(vol')
      /\ \A x \in Clusters : vol'.fat[x] = IF x \in FirstOf(vol.fat, dir[l].start, k) THEN FREE ELSE vol.fat[x]
      /\ k = 0 => FirstOf(vol.fat, dir[l].start, k) = {}
  <2> DEFINE F == FirstOf(vol.fat, dir[l].start, k)
             w == Wiped(vol, F)
  <2>1. /\ w \in VolOf /\ CountOK(w)
        /\ \A x \in Clusters : w.fat[x] = IF x \in F THEN FREE ELSE vol.fat[x]
        /\ k = 0 => F = {}
    BY <1>1, <1>2, FirstOfIs
  <2> HIDE DEF w, F
  <2>2. vol' = w
    BY DEF w, F
  <2> QED
    BY <2>1, <2>2 DEF F
<1>4. disk' = disk /\ saved' \subseteq saved /\ saved' \subseteq Locs
  BY <1>1 DEF Unflushed
<1> DEFINE bad == k > 0
<1>5. Fault(bad)
  OBVIOUS
<1>6. CASE k = 0
  <2>1. vol'.fat = vol.fat
    <3>1. vol'.fat \in FatOf /\ vol.fat \in FatOf
      BY <1>1, <1>3 DEF VolOf
    <3>2. \A x \in Clusters : vol'.fat[x] = vol.fat[x]
      BY <1>3, <1>6
    <3> QED
      BY <3>1, <3>2 DEF FatOf
  <2>2. NowNext
    BY <1>3, <1>4, <2>1, NothingEnded
  <2>3. bad = FALSE
    BY <1>6
  <2> HIDE DEF bad
  <2>4. Fault(FALSE)
    BY <1>5, <2>3
  <2> QED
    BY <2>2, <2>4 DEF Ended
<1>7. CASE k # 0
  <2>3. bad = TRUE
    BY <1>7
  <2> HIDE DEF bad
  <2>4. Fault(TRUE)
    BY <1>5, <2>3
  <2> QED
    BY <1>1, <1>3, <1>4, <2>4 DEF Ended, TypesNext
<1> QED
  BY <1>6, <1>7

\* dos_open with O_TRUNC.
LEMMA OpenTruncEnded ==
  ASSUME Now, NEW i \in Sfts, NEW l \in Locs, dos_open_trunc(i, l)
  PROVE  Ended
<1> DEFINE all == Len(Chain(vol.fat, dir[l].start))
           d2 == [dir EXCEPT ![l] = Entry(dir[l].name, FREE, 0)]
<1>1. sft[i] = Closed /\ l \in Files(dir) /\ ~dir[l].isdir /\ At(sft, l) = {}
  BY DEF dos_open_trunc, Live, Files, Idle, OpenAt, At
<1>2. PICK k \in 0..all :
        /\ vol' = Wiped(vol, FirstOf(vol.fat, dir[l].start, k))
        /\ \/ /\ dir' = d2 /\ sft' = With(sft, i, Opened(l, dir'))
              /\ flush_buffers /\ IF k < all THEN Fault(FALSE) ELSE Fine
           \/ UNCHANGED <<dir, sft>> /\ Unflushed(l) /\ Fault(k > 0)
  BY DEF dos_open_trunc, With
<1>3. Sound(vol, dir, sft)
  BY DEF Now
<1>4. CASE /\ dir' = d2 /\ sft' = With(sft, i, Opened(l, dir'))
           /\ flush_buffers /\ IF k < all THEN Fault(FALSE) ELSE Fine
  <2> DEFINE w == Wiped(vol, FirstOf(vol.fat, dir[l].start, k))
  <2>1. Sound(w, d2, sft) /\ l \in Files(d2) /\ ~d2[l].isdir
    BY <1>1, <1>3, EmptiedOK
  <2>2. vol' = w
    BY <1>2
  <2> HIDE DEF w, d2
  <2>3. Sound(w, d2, With(sft, i, Opened(l, d2)))
    BY <1>1, <2>1, OpenedOK
  <2>4. Sound(vol', dir', sft')
    BY <1>4, <2>2, <2>3
  <2> QED
    BY <1>4, <2>4, FlushNow DEF Ended
<1>5. CASE UNCHANGED <<dir, sft>> /\ Unflushed(l) /\ Fault(k > 0)
  BY <1>1, <1>2, <1>5, WipedEnded
<1> QED
  BY <1>2, <1>4, <1>5

\* dos_delete.
LEMMA DeleteEnded ==
  ASSUME Now, NEW l \in Locs, dos_delete(l)
  PROVE  Ended
<1> DEFINE all == Len(Chain(vol.fat, dir[l].start))
           d2 == [dir EXCEPT ![l] = Blank(DELETED)]
<1>1. l \in Files(dir) /\ ~dir[l].isdir /\ At(sft, l) = {} /\ delete_dir_entry(l)
  BY DEF dos_delete, Live, Files, Idle, OpenAt, At
<1>2. PICK k \in 0..all :
        /\ vol' = Wiped(vol, FirstOf(vol.fat, dir[l].start, k))
        /\ \/ /\ dir' = Filled(d2, {}, Junk) /\ sft' = sft
              /\ flush_buffers /\ IF k < all THEN Fault(FALSE) ELSE Fine
           \/ UNCHANGED <<dir, sft>> /\ Unflushed(l) /\ Fault(k > 0)
  BY <1>1 DEF delete_dir_entry
<1>3. Sound(vol, dir, sft)
  BY DEF Now
<1>4. CASE /\ dir' = Filled(d2, {}, Junk) /\ sft' = sft
           /\ flush_buffers /\ IF k < all THEN Fault(FALSE) ELSE Fine
  <2> DEFINE w == Wiped(vol, FirstOf(vol.fat, dir[l].start, k))
  <2>1. Sound(w, d2, sft)
    BY <1>1, <1>3, DeletedOK
  <2>2. d2 \in DirOf
    BY <2>1, SoundFacts
  <2> HIDE DEF w, d2
  <2>3. Filled(d2, {}, Junk) = d2
    BY <2>2 DEF Filled, DirOf
  <2>4. vol' = w
    BY <1>2 DEF w
  <2>5. Sound(vol', dir', sft')
    BY <1>4, <2>1, <2>3, <2>4
  <2> QED
    BY <1>4, <2>5, FlushNow DEF Ended
<1>5. CASE UNCHANGED <<dir, sft>> /\ Unflushed(l) /\ Fault(k > 0)
  BY <1>1, <1>2, <1>5, WipedEnded
<1> QED
  BY <1>2, <1>4, <1>5

\* A directory that grows, and no more.
LEMMA GrownOnlyEnded ==
  ASSUME Now, NEW d \in Dirs, GrownOnly(d)
  PROVE  Ended
<1>1. /\ Sound(vol, dir, sft) /\ vol \in VolOf /\ dir \in DirOf /\ sft \in SftsOf /\ disk \in DiskOf /\ saved \subseteq Locs
      /\ Behind(disk, vol.fat, dir, sft, saved)
  BY SoundFacts DEF Now
<1>2. /\ Grows(d) /\ Free(vol.fat) # {} /\ sft' = sft
      /\ \/ vol' = Taken(vol) /\ UNCHANGED <<dir, disk, saved>> /\ Fault(FALSE)
         \/ vol' = Vol(d) /\ UNCHANGED <<dir, disk, saved>> /\ Fault(TRUE)
         \/ vol' = Vol(d) /\ dir' = Cleared(d) /\ UNCHANGED <<disk, saved>> /\ Fault(FALSE)
         \/ vol' = Vol(d) /\ dir' = Cleared(d) /\ flush_buffers /\ Fault(FALSE)
  BY DEF GrownOnly
<1>3. PICK k, x : GrownDir(d, k, x)
  BY <1>1, <1>2, LargerOK
<1>4. Vol(d) \in VolOf
  BY <1>3 DEF GrownDir
<1>5. Sound(Vol(d), Cleared(d), sft)
  BY <1>1, <1>3, GrownOK
<1>6. Behind(disk, Vol(d).fat, Cleared(d), sft, saved)
  <2> DEFINE e == disk
             S == saved
  <2>1. Behind(e, vol.fat, dir, sft, S)
    BY <1>1
  <2> HIDE DEF e, S
  <2>2. Behind(e, Vol(d).fat, Cleared(d), sft, S)
    BY <2>1, <1>1, <1>3, GrownBehind
  <2> QED
    BY <2>2 DEF e, S
<1>7. CASE vol' = Taken(vol) /\ UNCHANGED <<dir, disk, saved>> /\ Fault(FALSE)
  BY <1>2, <1>7, LeakEnded
<1>8. CASE vol' = Vol(d) /\ UNCHANGED <<dir, disk, saved>> /\ Fault(TRUE)
  BY <1>1, <1>2, <1>4, <1>8 DEF Ended, TypesNext
<1>9. CASE vol' = Vol(d) /\ dir' = Cleared(d) /\ UNCHANGED <<disk, saved>> /\ Fault(FALSE)
  BY <1>1, <1>2, <1>5, <1>6, <1>9 DEF Ended, NowNext
<1>10. CASE vol' = Vol(d) /\ dir' = Cleared(d) /\ flush_buffers /\ Fault(FALSE)
  <2>1. Sound(vol', dir', sft')
    BY <1>2, <1>5, <1>10
  <2> QED
    BY <1>10, <2>1, FlushNow DEF Ended
<1> QED
  BY <1>2, <1>7, <1>8, <1>9, <1>10

LEMMA DiskFullEnded ==
  ASSUME Now, DiskFull
  PROVE  Ended
<1> QED
  BY LeakEnded DEF DiskFull

\* dos_create.
LEMMA CreateEnded ==
  ASSUME Now, NEW i \in Sfts, NEW d \in Dirs, NEW name \in Names, dos_create(i, d, name)
  PROVE  Ended
<1> DEFINE d2 == [Cleared(d) EXCEPT ![NewIn(d)] = Entry(name, FREE, 0)]
<1>1. /\ sft[i] = Closed
      /\ \/ /\ HasRoom(d) /\ vol' = Vol(d) /\ dir' = d2 /\ sft' = With(sft, i, Opened(NewIn(d), dir'))
            /\ flush_buffers /\ Fine
         \/ GrownOnly(d)
         \/ DiskFull
  BY DEF dos_create, With
<1>2. Sound(vol, dir, sft)
  BY DEF Now
<1>3. CASE /\ HasRoom(d) /\ vol' = Vol(d) /\ dir' = d2 /\ sft' = With(sft, i, Opened(NewIn(d), dir'))
           /\ flush_buffers /\ Fine
  <2> DEFINE n == NewIn(d)
             w == Vol(d)
             c == Cleared(d)
  <2>1. Sound(w, c, sft) /\ n \in Locs /\ c[n].name \in {NeverUsed, DELETED}
    BY <1>2, <1>3, RoomOK
  <2>2. d2 = [c EXCEPT ![n] = Entry(name, FREE, 0)] /\ vol' = w /\ sft' = With(sft, i, Opened(n, dir'))
    BY <1>3
  <2> HIDE DEF n, w, c, d2
  <2>3. Sound(w, d2, sft) /\ n \in Files(d2) /\ At(sft, n) = {} /\ ~d2[n].isdir
    BY <2>1, <2>2, MadeOK
  <2>4. Sound(w, d2, With(sft, i, Opened(n, d2)))
    BY <1>1, <2>3, OpenedOK
  <2>5. Sound(vol', dir', sft')
    BY <1>3, <2>2, <2>4
  <2> QED
    BY <1>3, <2>5, FlushNow DEF Ended
<1> QED
  BY <1>1, <1>3, GrownOnlyEnded, DiskFullEnded

\* dos_mkdir.
LEMMA MkdirEnded ==
  ASSUME Now, NEW name \in Names, dos_mkdir(name)
  PROVE  Ended
<1> DEFINE x == find_fat_free(vol)
           n == find_free(Root)
           d2 == [Filled(dir, {x}, NeverUsed) EXCEPT ![n] = MkdirEntry(name, x)]
<1>1. /\ Unused(Root) # {} /\ sft' = sft
      /\ \/ Free(vol.fat) # {} /\ vol' = Taken(vol) /\ dir' = d2 /\ flush_buffers /\ Fine
         \/ vol' = Taken(vol) /\ UNCHANGED <<dir, disk, saved>> /\ Fault(FALSE)
         \/ DiskFull
  BY DEF dos_mkdir, MkdirEntry
<1>2. Sound(vol, dir, sft)
  BY DEF Now
<1>3. CASE Free(vol.fat) # {} /\ vol' = Taken(vol) /\ dir' = d2 /\ flush_buffers /\ Fine
  <2>1. Root \in Dirs
    BY DEF Dirs
  <2>2. n \in Locs /\ n[1] \in Part(vol.fat, Root) /\ dir[n].name \in {NeverUsed, DELETED}
    BY <1>1, <1>2, <2>1, FreeEntry
  <2>3. n[1] = Root
    BY <2>2 DEF Part
  <2>4. x = find_fat_free(vol) /\ d2 = [Filled(dir, {x}, NeverUsed) EXCEPT ![n] = MkdirEntry(name, x)]
    OBVIOUS
  <2> HIDE DEF n, d2, x
  <2>5. Sound(Taken(vol), d2, sft)
    <3>1. Free(vol.fat) # {} /\ n \in Locs
      BY <1>3, <2>2
    <3>2. dir[n].name \in {NeverUsed, DELETED} /\ name \in Names
      BY <2>2
    <3>3. Mkdirs(vol, dir, sft, x, n, name, d2)
      BY <1>2, <2>3, <2>4, <3>1, <3>2 DEF Mkdirs
    <3> QED
      BY <3>3, MkdirOK
  <2>6. Sound(vol', dir', sft')
    BY <1>1, <1>3, <2>5
  <2> QED
    BY <1>3, <2>6, FlushNow DEF Ended
<1>4. CASE vol' = Taken(vol) /\ UNCHANGED <<dir, disk, saved>> /\ Fault(FALSE)
  BY <1>1, <1>4, LeakEnded
<1> QED
  BY <1>1, <1>3, <1>4, DiskFullEnded

\* rmdir looks at every entry of the directory.
LEMMA EmptyDir ==
  ASSUME NEW v, NEW d, NEW s, Sound(v, d, s), NEW l \in Dir(d),
         \A y \in ToSet(InDir(v.fat, d[l].start)) : d[y].name \in {NeverUsed, DELETED}
  PROVE  \A j \in Locs : j[1] \in ToSet(Chain(v.fat, d[l].start)) => d[j].name \in {NeverUsed, DELETED}
<1> DEFINE e == d[l].start
           q == InDir(v.fat, e)
<1> SUFFICES ASSUME NEW j \in Locs, j[1] \in ToSet(Chain(v.fat, e)) PROVE d[j].name \in {NeverUsed, DELETED}
  OBVIOUS
<1>1. d \in DirOf /\ s \in SftsOf /\ FilesOK(v.fat, d, s) /\ DirsOK(d)
  BY SoundFacts
<1>2. e \in Clusters /\ Whole(v.fat, e)
  BY <1>1, HeldUsed DEF DirsOK, Dir, Files
<1>3. IsDir(v.fat, e) /\ e # Root
  BY <1>2, Numbers DEF IsDir, Root, FREE
<1>4. PICK m : DirList(v.fat, e, q, m)
  BY <1>3, InDirIs
<1>5. j[1] \in Part(v.fat, e)
  BY <1>3 DEF Part
<1>6. \A y \in ToSet(q) : d[y].name \in {NeverUsed, DELETED}
  OBVIOUS
<1> HIDE DEF q, e
<1>7. PICK p \in 1..m : q[p] = j
  BY <1>4, <1>5 DEF DirList
<1>8. j \in ToSet(q)
  BY <1>4, <1>7 DEF DirList, ToSet
<1> QED
  BY <1>6, <1>8

\* dos_rmdir.
LEMMA RmdirEnded ==
  ASSUME Now, NEW l \in Locs, dos_rmdir(l)
  PROVE  Ended
<1> DEFINE all == Len(Chain(vol.fat, dir[l].start))
           d2 == Filled([dir EXCEPT ![l] = Blank(DELETED)], ToSet(Chain(vol.fat, dir[l].start)), Junk)
<1>1. /\ l \in Dir(dir) /\ l \in Files(dir) /\ delete_dir_entry(l)
      /\ \A e \in ToSet(InDir(vol.fat, dir[l].start)) : dir[e].name \in {NeverUsed, DELETED}
  BY DEF dos_rmdir, Live, Files, Dir
<1>2. PICK k \in 0..all :
        /\ vol' = Wiped(vol, FirstOf(vol.fat, dir[l].start, k))
        /\ \/ /\ dir' = d2 /\ sft' = sft
              /\ flush_buffers /\ IF k < all THEN Fault(FALSE) ELSE Fine
           \/ UNCHANGED <<dir, sft>> /\ Unflushed(l) /\ Fault(k > 0)
  BY <1>1 DEF delete_dir_entry, Dir
<1>3. Sound(vol, dir, sft) /\ SftsOK(dir, sft) /\ sft \in SftsOf /\ dir \in DirOf /\ FilesOK(vol.fat, dir, sft) /\ DirsOK(dir)
  BY SoundFacts DEF Now
<1>4. At(sft, l) = {}
  BY <1>1, <1>3, DirClosed
<1>5. CASE /\ dir' = d2 /\ sft' = sft
           /\ flush_buffers /\ IF k < all THEN Fault(FALSE) ELSE Fine
  <2> DEFINE w == Wiped(vol, FirstOf(vol.fat, dir[l].start, k))
  <2>3. \A j \in Locs : j[1] \in ToSet(Chain(vol.fat, dir[l].start)) => dir[j].name \in {NeverUsed, DELETED}
    BY <1>1, <1>3, EmptyDir
  <2>4. Sound(w, d2, sft)
    <3>1. Removes(vol, dir, sft, l, k, d2)
      BY <1>1, <1>3, <2>3 DEF Removes
    <3> HIDE DEF d2
    <3> QED
      BY <3>1, RemovedOK
  <2> HIDE DEF w, d2
  <2>5. vol' = w
    BY <1>2 DEF w
  <2>6. Sound(vol', dir', sft')
    BY <1>5, <2>4, <2>5
  <2> QED
    BY <1>5, <2>6, FlushNow DEF Ended
<1>6. CASE UNCHANGED <<dir, sft>> /\ Unflushed(l) /\ Fault(k > 0)
  BY <1>1, <1>2, <1>4, <1>6, WipedEnded
<1> QED
  BY <1>2, <1>5, <1>6

LEMMA WipedNone ==
  ASSUME NEW v \in VolOf, NEW f, NEW start
  PROVE  Wiped(v, FirstOf(f, start, 0)) = v
<1>1. FirstOf(f, start, 0) = {}
  BY DEF FirstOf
<1>2. Cardinality({}) = 0
  BY FS_EmptySet
<1>3. v = [fat |-> v.fat, hint |-> v.hint, nfree |-> v.nfree] /\ v.fat = [c \in Clusters |-> v.fat[c]]
  BY DEF VolOf, FatOf
<1>4. (IF v.nfree = UNKNOWN THEN UNKNOWN ELSE v.nfree + Cardinality({})) = v.nfree
  BY <1>2, Sizes DEF VolOf, UNKNOWN
<1>5. [c \in Clusters |-> IF c \in {} THEN FREE ELSE v.fat[c]] = v.fat
  BY <1>3
<1>6. Wiped(v, {}) = v
  BY <1>3, <1>4, <1>5 DEF Wiped
<1> QED
  BY <1>1, <1>6

\* dos_rename.
LEMMA RenameEnded ==
  ASSUME Now, NEW l \in Locs, NEW d \in Dirs, NEW name \in Names, dos_rename(l, d, name)
  PROVE  Ended
<1>1. /\ l \in Files(dir) /\ At(sft, l) = {} /\ sft' = sft
      /\ \/ dir' = [dir EXCEPT ![l].name = name] /\ vol' = vol /\ flush_buffers /\ Fine
         \/ /\ ~dir[l].isdir /\ HasRoom(d) /\ vol' = Vol(d)
            /\ \/ /\ dir' = [Cleared(d) EXCEPT ![l] = Blank(DELETED), ![NewIn(d)] = [dir[l] EXCEPT !.name = name]]
                  /\ Fine
               \/ /\ dir' = [Cleared(d) EXCEPT ![l] = Blank(DELETED)]
                  /\ Fault(FALSE)
            /\ flush_buffers
         \/ GrownOnly(d)
         \/ DiskFull
  BY DEF dos_rename, Live, Files, Idle, OpenAt, At
<1>2. Sound(vol, dir, sft)
  BY DEF Now
<1>3. CASE dir' = [dir EXCEPT ![l].name = name] /\ vol' = vol /\ flush_buffers /\ Fine
  <2> DEFINE d2 == [dir EXCEPT ![l].name = name]
  <2>1. Sound(vol, d2, sft)
    BY <1>1, <1>2, RenamedOK
  <2> HIDE DEF d2
  <2>2. dir' = d2
    BY <1>3 DEF d2
  <2>3. Sound(vol', dir', sft')
    BY <1>1, <1>3, <2>1, <2>2
  <2> QED
    BY <1>3, <2>3, FlushNow DEF Ended
<1>4. CASE /\ ~dir[l].isdir /\ HasRoom(d) /\ vol' = Vol(d)
           /\ \/ /\ dir' = [Cleared(d) EXCEPT ![l] = Blank(DELETED), ![NewIn(d)] = [dir[l] EXCEPT !.name = name]]
                 /\ Fine
              \/ /\ dir' = [Cleared(d) EXCEPT ![l] = Blank(DELETED)]
                 /\ Fault(FALSE)
           /\ flush_buffers
  <2> DEFINE n == NewIn(d)
             w == Vol(d)
             c == Cleared(d)
             b == [c[l] EXCEPT !.name = name]
             d2 == [c EXCEPT ![l] = Blank(DELETED), ![n] = b]
             d3 == [c EXCEPT ![l] = Blank(DELETED)]
  <2>1. Sound(w, c, sft) /\ n \in Locs /\ c[n].name \in {NeverUsed, DELETED}
    BY <1>2, <1>4, RoomOK
  <2>2. c[l] = dir[l] /\ Files(c) = Files(dir)
    BY <1>1, <1>2, <1>4, RoomOK
  <2>3. (dir' = d2 /\ Fine) \/ (dir' = d3 /\ Fault(FALSE))
    BY <1>4, <2>2
  <2>4. vol' = w
    BY <1>4
  <2> HIDE DEF n, w, c
  <2>5. b = [c[l] EXCEPT !.name = name] /\ d2 = [c EXCEPT ![l] = Blank(DELETED), ![n] = b]
        /\ l \in Files(c) /\ ~c[l].isdir
    BY <1>1, <1>4, <2>2
  <2>6. Sound(w, d2, sft)
    <3> HIDE DEF b, d2
    <3> QED
      BY <1>1, <2>1, <2>5, MovedOK
  <2>7. Sound(w, d3, sft)
    <3> DEFINE k == Len(Chain(w.fat, c[l].start))
               S == FirstOf(w.fat, c[l].start, 0)
    <3>1. Sound(Wiped(w, FirstOf(w.fat, c[l].start, 0)), d3, sft)
      <4>1. 0 \in 0..k
        BY <1>1, <2>1, <2>5, IdleFile, ChainFacts
      <4> QED
        BY <1>1, <2>1, <2>5, <4>1, DeletedOK
    <3>2. Wiped(w, FirstOf(w.fat, c[l].start, 0)) = w
      BY <2>1, WipedNone DEF Sound
    <3> QED
      BY <3>1, <3>2
  <2> HIDE DEF d2, d3
  <2>8. Sound(vol', dir', sft')
    BY <1>1, <2>3, <2>4, <2>6, <2>7
  <2> QED
    BY <1>4, <2>3, <2>8, FlushNow DEF Ended
<1> QED
  BY <1>1, <1>3, <1>4, GrownOnlyEnded, DiskFullEnded

-----------------------------------------------------------------------------
(* Power failure.                                                          *)

\* Two FATs, where f has links that g has, or ends a chain that g may go on with.
LEMMA Prefix ==
  ASSUME NEW f, NEW g, NEW s \in Clusters \cup {FREE}, Whole(f, s), Whole(g, s),
         \A c \in Clusters : f[c] = g[c] \/ f[c] \in {FREE, LAST}
  PROVE  /\ Len(Chain(f, s)) =< Len(Chain(g, s))
         /\ \A j \in 1..Len(Chain(f, s)) : Chain(g, s)[j] = Chain(f, s)[j]
<1> DEFINE p == Chain(f, s)
           q == Chain(g, s)
           m == Len(p)
           n == Len(q)
<1>1. /\ m \in Nat /\ p \in [1..m -> Clusters] /\ s = IF m = 0 THEN FREE ELSE p[1]
      /\ \A j \in 1..m-1 : f[p[j]] = p[j+1]
  BY ChainFacts
<1>2. /\ n \in Nat /\ q \in [1..n -> Clusters] /\ s = IF n = 0 THEN FREE ELSE q[1]
      /\ \A j \in 1..n-1 : g[q[j]] = q[j+1]
      /\ n > 0 => g[q[n]] = LAST
  BY ChainFacts
<1> HIDE DEF p, q, m, n
<1> DEFINE Odd == {j \in 1..m : ~ (j =< n /\ q[j] = p[j])}
<1>3. Odd = {}
  <2> SUFFICES ASSUME Odd # {} PROVE FALSE
    OBVIOUS
  <2>1. Odd \subseteq Nat
    BY <1>1
  <2>2. \A j \in Odd : j \in 1..m /\ ~ (j =< n /\ q[j] = p[j])
    OBVIOUS
  <2>3. \A j \in 1..m : j \notin Odd => j =< n /\ q[j] = p[j]
    OBVIOUS
  <2> HIDE DEF Odd
  <2>4. PICK j \in Odd : \A y \in Odd : j =< y
    BY <2>1, Least
  <2>5. j \in 1..m /\ j \in Nat
    BY <2>1, <2>2, <2>4
  <2>6. CASE j = 1
    <3>1. s = p[1] /\ p[1] \in Clusters
      BY <1>1, <2>5, <2>6
    <3>2. n # 0
      BY <1>2, <3>1, Numbers
    <3> QED
      BY <1>2, <2>2, <2>4, <2>6, <3>1, <3>2
  <2>7. CASE j # 1
    <3> DEFINE i == j - 1
    <3>1. i \in 1..m-1 /\ i \in 1..m /\ i < j /\ j = i + 1 /\ i \in Nat
      BY <1>1, <2>5, <2>7
    <3> HIDE DEF i
    <3>2. i =< n /\ q[i] = p[i]
      BY <2>3, <2>4, <2>5, <3>1
    <3>3. f[p[i]] = p[j] /\ p[j] \in Clusters /\ p[i] \in Clusters
      BY <1>1, <2>5, <3>1
    <3>4. g[q[i]] = p[j]
      BY <3>2, <3>3, Numbers
    <3>5. i # n
      BY <1>2, <3>1, <3>3, <3>4, Numbers
    <3>6. i \in 1..n-1
      BY <1>2, <3>1, <3>2, <3>5
    <3>7. q[j] = p[j] /\ j =< n
      BY <1>2, <3>1, <3>4, <3>6
    <3> QED
      BY <2>2, <2>4, <3>7
  <2> QED
    BY <2>6, <2>7
<1>4. \A j \in 1..m : j =< n /\ q[j] = p[j]
  BY <1>3
<1>5. m =< n
  BY <1>1, <1>2, <1>4
<1> QED
  BY <1>4, <1>5 DEF p, q, m, n

\* What is on the disk with some of what was not.
Mix(v, d, e, C, L, fat, f, g) ==
  /\ fat = [c \in Clusters |-> IF c \in C THEN v.fat[c] ELSE e.fat[c]]
  /\ f = [l \in Locs |-> IF l \in L THEN d[l] ELSE e.dir[l]]
  /\ g = Filled(f, Clusters \ Held(fat, f), Junk)

\* Power is back: the volume may be used if this holds.
Usable(fat, f, g) ==
  /\ \A l \in Files(g) : Whole(fat, g[l].start) /\ g[l].size =< Room(fat, g[l].start)
  /\ Apart(fat, [l \in Files(g) |-> g[l].start])
  /\ \A c \in Held(fat, f), j \in 0..DirEnts-1 : g[<<c, j>>].name # Junk

Before(v, d, s, e, S) == Sound(v, d, s) /\ Behind(e, v.fat, d, s, S)

LEMMA MixIs ==
  ASSUME NEW v, NEW d, NEW s, NEW e, NEW S, Before(v, d, s, e, S),
         NEW C, NEW L, NEW fat, NEW f, NEW g, Mix(v, d, e, C, L, fat, f, g)
  PROVE  /\ fat \in FatOf /\ f \in DirOf /\ g \in DirOf /\ DirsOK(f) /\ DirsOK(g)
         /\ Dir(g) = Dir(d) /\ Dir(f) = Dir(d) /\ Dir(e.dir) = Dir(d)
         /\ \A l \in Locs : l[1] = Root => e.dir[l] = d[l] /\ f[l] = d[l] /\ g[l] = d[l]
         /\ \A l \in Locs : f[l] \in {d[l], e.dir[l]}
         /\ \A l \in Locs : g[l] = IF l[1] = Root \/ l[1] \in Held(fat, f) THEN f[l] ELSE Blank(Junk)
         /\ \A c \in Clusters : fat[c] \in {v.fat[c], e.fat[c]}
<1>1. /\ v.fat \in FatOf /\ d \in DirOf /\ DirsOK(d) /\ HeldOK(v.fat, d)
  BY SoundFacts DEF Before
<1>2. /\ e.fat \in FatOf /\ e.dir \in DirOf /\ DirsOK(e.dir) /\ DirAhead(e, d)
  BY DEF Before, Behind, DiskGood
<1>3. /\ fat = [c \in Clusters |-> IF c \in C THEN v.fat[c] ELSE e.fat[c]]
      /\ f = [l \in Locs |-> IF l \in L THEN d[l] ELSE e.dir[l]]
      /\ g = Filled(f, Clusters \ Held(fat, f), Junk)
  BY DEF Mix
<1>4. fat \in FatOf /\ \A c \in Clusters : fat[c] \in {v.fat[c], e.fat[c]}
  BY <1>1, <1>2, <1>3 DEF FatOf
<1>5. f \in DirOf /\ \A l \in Locs : f[l] \in {d[l], e.dir[l]}
  BY <1>1, <1>2, <1>3 DEF DirOf
<1> DEFINE h == Held(fat, f)
<1>6. \A l \in Locs : g[l] = IF l[1] \in Clusters \ h THEN Blank(Junk) ELSE f[l]
  BY <1>3 DEF Filled
<1> HIDE DEF h
<1>7. \A l \in Locs : g[l] = IF l[1] = Root \/ l[1] \in h THEN f[l] ELSE Blank(Junk)
  <2> SUFFICES ASSUME NEW l \in Locs PROVE l[1] \in Clusters \ h <=> ~ (l[1] = Root \/ l[1] \in h)
    BY <1>6
  <2>1. l[1] \in {Root} \cup Clusters
    BY LocParts
  <2> QED
    BY <2>1, Numbers DEF Root, FREE
<1>8. Blank(Junk) \in Entries /\ Blank(Junk).isdir = FALSE /\ Blank(Junk).name = Junk /\ Junk \notin Names
  BY Blanks, NamesApart
<1>9. g \in DirOf
  <2>1. \A l \in Locs : g[l] \in Entries
    BY <1>5, <1>7, <1>8 DEF DirOf
  <2>2. g = [l \in Locs |-> g[l]]
    BY <1>3 DEF Filled
  <2> QED
    BY <2>1, <2>2 DEF DirOf
<1>10. \A l \in Locs : l[1] = Root => e.dir[l] = d[l] /\ f[l] = d[l] /\ g[l] = d[l]
  BY <1>2, <1>5, <1>7 DEF DirAhead
<1>11. DirsOK(f)
  BY <1>1, <1>2, <1>5 DEF DirsOK
<1>12. DirsOK(g)
  BY <1>7, <1>8, <1>11 DEF DirsOK
<1>13. ASSUME NEW b, DirsOK(b), \A l \in Locs : l[1] = Root => b[l] = d[l]
       PROVE  Dir(b) = Dir(d)
  <2>1. \A l : l \in Dir(b) <=> l \in Dir(d)
    <3>1. \A l \in Locs : l \in Dir(b) <=> b[l].isdir /\ b[l].name \in Names
      BY DEF Dir, Files
    <3>2. \A l \in Locs : l \in Dir(d) <=> d[l].isdir /\ d[l].name \in Names
      BY DEF Dir, Files
    <3>3. \A l \in Locs : (b[l].isdir \/ d[l].isdir) => l[1] = Root
      BY <1>1, <1>13 DEF DirsOK
    <3>4. \A l \in Locs : l \in Dir(b) <=> l \in Dir(d)
      BY <1>13, <3>1, <3>2, <3>3
    <3>5. \A l : l \in Dir(b) \/ l \in Dir(d) => l \in Locs
      BY DEF Dir, Files
    <3> QED
      BY <3>4, <3>5
  <2> QED
    BY ONLY <2>1
<1>14. Dir(g) = Dir(d) /\ Dir(f) = Dir(d) /\ Dir(e.dir) = Dir(d)
  BY <1>2, <1>10, <1>11, <1>12, <1>13
<1> QED
  BY <1>4, <1>5, <1>7, <1>9, <1>10, <1>11, <1>12, <1>14 DEF h

Resume(v, d, s, e, S, C, L, fat, f, g) ==
  Before(v, d, s, e, S) /\ Mix(v, d, e, C, L, fat, f, g) /\ Usable(fat, f, g)

AllClosed == [i \in Sfts |-> Closed]
Fresh(fat) == [fat |-> fat, hint |-> UNKNOWN, nfree |-> UNKNOWN]

LEMMA AllClosedIs ==
  ASSUME NEW d
  PROVE  /\ AllClosed \in SftsOf /\ SftsOK(d, AllClosed)
         /\ \A k \in Locs : At(AllClosed, k) = {} /\ St(d, AllClosed)[k] = d[k].start /\ Sz(d, AllClosed)[k] = d[k].size
         /\ \A f : Cached(f, AllClosed)
<1>1. Closed \in SftOf
  BY Sizes DEF Closed, SftOf
<1>2. \A i \in Sfts : AllClosed[i] = Closed
  BY DEF AllClosed
<1>3. AllClosed \in SftsOf
  BY <1>1 DEF AllClosed, SftsOf
<1>4. \A k \in Locs : At(AllClosed, k) = {}
  BY <1>2, ClosedLoc DEF At, Closed
<1>5. \A k \in Locs : St(d, AllClosed)[k] = d[k].start /\ Sz(d, AllClosed)[k] = d[k].size
  BY <1>4, IdleIs
<1> QED
  BY <1>2, <1>3, <1>4, <1>5 DEF SftsOK, Cached

\* The volume that power failure left is sound.
LEMMA ResumeSound ==
  ASSUME NEW v, NEW d, NEW s, NEW e, NEW S, NEW C, NEW L, NEW fat, NEW f, NEW g,
         Resume(v, d, s, e, S, C, L, fat, f, g)
  PROVE  Sound(Fresh(fat), g, AllClosed)
<1> DEFINE w == Fresh(fat)
           z == AllClosed
<1>1. /\ Before(v, d, s, e, S) /\ Mix(v, d, e, C, L, fat, f, g) /\ Usable(fat, f, g)
  BY DEF Resume
<1>2. /\ fat \in FatOf /\ f \in DirOf /\ g \in DirOf /\ DirsOK(f) /\ DirsOK(g)
      /\ Dir(g) = Dir(d) /\ Dir(f) = Dir(d)
      /\ \A l \in Locs : l[1] = Root => f[l] = d[l] /\ g[l] = d[l]
      /\ \A l \in Locs : g[l] = IF l[1] = Root \/ l[1] \in Held(fat, f) THEN f[l] ELSE Blank(Junk)
  BY <1>1, MixIs
<1>3. /\ \A l \in Files(g) : Whole(fat, g[l].start) /\ g[l].size =< Room(fat, g[l].start)
      /\ Apart(fat, [l \in Files(g) |-> g[l].start])
      /\ \A c \in Held(fat, f), j \in 0..DirEnts-1 : g[<<c, j>>].name # Junk
  BY <1>1 DEF Usable
<1>4. d \in DirOf /\ DirsOK(d) /\ HeldOK(v.fat, d)
  BY <1>1, SoundFacts DEF Before
<1>5. z \in SftsOf /\ SftsOK(g, z) /\ Cached(fat, z)
      /\ \A k \in Locs : St(g, z)[k] = g[k].start /\ Sz(g, z)[k] = g[k].size
  BY AllClosedIs
<1> HIDE DEF z
<1>6. VolFit(fat, Files(g), St(g, z), Sz(g, z))
  <2>1. \A k \in Files(g) : k \in Locs
    BY DEF Files
  <2>2. ASSUME NEW k \in Files(g), NEW l \in Files(g), NEW x \in Clusters,
               x \in ToSet(Chain(fat, g[k].start)), x \in ToSet(Chain(fat, g[l].start))
        PROVE  k = l
    <3> DEFINE F == Files(g)
               a == [y \in F |-> g[y].start]
    <3>1. Apart(fat, a)
      BY <1>3
    <3>2. DOMAIN a = F /\ a[k] = g[k].start /\ a[l] = g[l].start /\ k \in F /\ l \in F
      OBVIOUS
    <3> HIDE DEF a, F
    <3>3. k # l => ToSet(Chain(fat, a[k])) \cap ToSet(Chain(fat, a[l])) = {}
      BY <3>1, <3>2 DEF Apart
    <3> QED
      BY <2>2, <3>2, <3>3
  <2>3. \A k \in Files(g) : St(g, z)[k] = g[k].start /\ Sz(g, z)[k] = g[k].size
    BY <1>5, <2>1
  <2>4. \A k \in Files(g) : Whole(fat, St(g, z)[k]) /\ Sz(g, z)[k] =< Room(fat, St(g, z)[k])
    BY <1>3, <2>3
  <2>5. \A k, l \in Files(g) : \A x \in Clusters :
           x \in ToSet(Chain(fat, St(g, z)[k])) /\ x \in ToSet(Chain(fat, St(g, z)[l])) => k = l
    BY <2>2, <2>3
  <2> QED
    BY <2>4, <2>5 DEF VolFit
<1>7. Held(fat, f) = Held(fat, g)
  <2>1. \A k \in Dir(d) : g[k].start = f[k].start
    BY <1>2, <1>4 DEF Dir, Files, DirsOK
  <2> QED
    BY <1>2, <2>1 DEF Held
<1>8. HeldOK(fat, g)
  <2>1. ASSUME NEW l \in Locs, l[1] = Root
        PROVE  g[l].name # Junk
    BY <1>2, <1>4, <2>1 DEF HeldOK
  <2>2. ASSUME NEW l \in Locs, l[1] # Root, l[1] \in Held(fat, f)
        PROVE  g[l].name # Junk
    <3>1. l = <<l[1], l[2]>> /\ l[2] \in 0..DirEnts-1
      BY <2>2, LocParts
    <3>2. g[<<l[1], l[2]>>].name # Junk
      BY <1>3, <2>2, <3>1
    <3> QED
      BY <3>1, <3>2
  <2>3. ASSUME NEW l \in Locs, l[1] # Root, l[1] \notin Held(fat, f)
        PROVE  g[l] = Blank(Junk) /\ g[l].name = Junk
    BY <1>2, <2>3, Blanks
  <2> QED
    BY <1>7, <2>1, <2>2, <2>3 DEF HeldOK
<1>9. w \in VolOf /\ CountOK(w) /\ w.fat = fat
  BY <1>2 DEF Fresh, VolOf, CountOK
<1>10. FilesOK(fat, g, z)
  BY <1>5, <1>6 DEF FilesOK
<1> QED
  BY <1>2, <1>5, <1>8, <1>9, <1>10 DEF Sound, GoodVol, z

\* What was saved is.
LEMMA ResumeSaved ==
  ASSUME NEW v, NEW d, NEW s, NEW e, NEW S, NEW C, NEW L, NEW fat, NEW f, NEW g,
         Resume(v, d, s, e, S, C, L, fat, f, g), NEW e2, e2.fat = fat, e2.dir = g
  PROVE  Behind(e2, fat, g, AllClosed, S)
<1>1. /\ Before(v, d, s, e, S) /\ Mix(v, d, e, C, L, fat, f, g) /\ Usable(fat, f, g)
  BY DEF Resume
<1>2. /\ fat \in FatOf /\ f \in DirOf /\ g \in DirOf /\ DirsOK(f) /\ DirsOK(g)
      /\ Dir(g) = Dir(d) /\ Dir(f) = Dir(d) /\ Dir(e.dir) = Dir(d)
      /\ \A l \in Locs : l[1] = Root => e.dir[l] = d[l] /\ f[l] = d[l] /\ g[l] = d[l]
      /\ \A l \in Locs : f[l] \in {d[l], e.dir[l]}
      /\ \A l \in Locs : g[l] = IF l[1] = Root \/ l[1] \in Held(fat, f) THEN f[l] ELSE Blank(Junk)
      /\ \A c \in Clusters : fat[c] \in {v.fat[c], e.fat[c]}
  BY <1>1, MixIs
<1>3. Sound(Fresh(fat), g, AllClosed) /\ Fresh(fat).fat = fat
  BY ResumeSound DEF Fresh
<1>4. /\ HeldOK(fat, g) /\ FilesOK(fat, g, AllClosed) /\ AllClosed \in SftsOf
  BY <1>3, SoundFacts
<1>5. DiskGood(e2)
  BY <1>2, <1>4, HeldUsed DEF DiskGood
<1>6. FatAhead(e2, fat) /\ DirAhead(e2, g)
  BY DEF FatAhead, DirAhead
<1>7. /\ DiskGood(e) /\ FatAhead(e, v.fat) /\ SavedIn(e, v.fat, d, s, S)
  BY <1>1 DEF Before, Behind
<1>8. Held(e.fat, e.dir) \subseteq Held(fat, f)
  <2> SUFFICES ASSUME NEW x \in Held(e.fat, e.dir) PROVE x \in Held(fat, f)
    OBVIOUS
  <2>1. PICK k \in Dir(e.dir) : x \in ToSet(Chain(e.fat, e.dir[k].start))
    BY DEF Held
  <2>2. k \in Dir(d) /\ k \in Files(g) /\ k \in Locs /\ k[1] = Root /\ d[k].start \in Clusters
    <3>1. k \in Dir(g) /\ k \in Dir(d)
      BY <1>2, <2>1
    <3>2. k \in Files(g) /\ k \in Locs /\ k[1] = Root /\ g[k].start \in Clusters
      BY <1>2, <3>1 DEF Dir, Files, DirsOK
    <3> QED
      BY <1>2, <3>1, <3>2
  <2> DEFINE a == d[k].start
  <2>3. e.dir[k].start = a /\ f[k].start = a /\ g[k].start = a
    BY <1>2, <2>2
  <2>4. Whole(e.fat, a) /\ Whole(fat, a) /\ a \in Clusters \cup {FREE}
    <3>1. Whole(e.fat, e.dir[k].start)
      BY <1>7, <2>1 DEF DiskGood
    <3>2. Whole(fat, g[k].start)
      BY <1>1, <2>2 DEF Usable
    <3> QED
      BY <2>2, <2>3, <3>1, <3>2
  <2> HIDE DEF a
  <2>5. \A c \in Clusters : e.fat[c] = fat[c] \/ e.fat[c] \in {FREE, LAST}
    BY <1>2, <1>7 DEF FatAhead
  <2>6. /\ Len(Chain(e.fat, a)) =< Len(Chain(fat, a))
        /\ \A j \in 1..Len(Chain(e.fat, a)) : Chain(fat, a)[j] = Chain(e.fat, a)[j]
    <3> DEFINE ef == e.fat
    <3>1. Whole(ef, a) /\ Whole(fat, a) /\ a \in Clusters \cup {FREE}
          /\ \A c \in Clusters : ef[c] = fat[c] \/ ef[c] \in {FREE, LAST}
      BY <2>4, <2>5
    <3> HIDE DEF ef
    <3>2. /\ Len(Chain(ef, a)) =< Len(Chain(fat, a))
          /\ \A j \in 1..Len(Chain(ef, a)) : Chain(fat, a)[j] = Chain(ef, a)[j]
      BY <3>1, Prefix
    <3> QED
      BY <3>2 DEF ef
  <2>7. /\ Len(Chain(e.fat, a)) \in Nat /\ Len(Chain(fat, a)) \in Nat
        /\ ToSet(Chain(e.fat, a)) = {Chain(e.fat, a)[j] : j \in 1..Len(Chain(e.fat, a))}
        /\ ToSet(Chain(fat, a)) = {Chain(fat, a)[j] : j \in 1..Len(Chain(fat, a))}
    BY <2>4, ChainFacts
  <2>8. PICK j \in 1..Len(Chain(e.fat, a)) : x = Chain(e.fat, a)[j]
    BY <2>1, <2>3, <2>7
  <2>9. j \in 1..Len(Chain(fat, a))
    BY <2>6, <2>7
  <2>10. x = Chain(fat, a)[j]
    BY <2>6, <2>8
  <2>11. x \in ToSet(Chain(fat, f[k].start))
    BY <2>3, <2>7, <2>9, <2>10
  <2> QED
    BY <1>2, <2>2, <2>11 DEF Held
<1>9. SavedIn(e2, fat, g, AllClosed, S)
  <2> SUFFICES ASSUME NEW l \in S
               PROVE  /\ l \in Files(g) /\ ~g[l].isdir
                      /\ \A i \in Sfts : AllClosed[i].loc = l => AllClosed[i].clean
    BY DEF SavedIn
  <2>1. l \in Files(d) /\ ~d[l].isdir /\ d[l] = e.dir[l] /\ l \in Locs
    BY <1>7 DEF SavedIn, Files
  <2>2. d[l].name \in Names
    BY <2>1 DEF Files
  <2>3. f[l] = d[l]
    BY <1>2, <2>1
  <2>4. l[1] = Root \/ l[1] \in Held(e.fat, e.dir)
    BY <1>7, <2>1, <2>2, NamesApart DEF DiskGood, HeldOK
  <2>5. g[l] = d[l]
    BY <1>2, <1>8, <2>1, <2>3, <2>4
  <2>6. l \in Files(g) /\ ~g[l].isdir
    BY <2>1, <2>2, <2>5 DEF Files
  <2>7. \A i \in Sfts : AllClosed[i].clean
    BY DEF AllClosed, Closed
  <2> QED
    BY <2>6, <2>7
<1> QED
  BY <1>5, <1>6, <1>9 DEF Behind

\* Power is back, and what is on the disk is the volume.
LEMMA PowerIs ==
  ASSUME Now, Power
  PROVE  \E C, L, fat, f, g :
           /\ Mix(vol, dir, disk, C, L, fat, f, g)
           /\ vol' = Fresh(fat) /\ dir' = g /\ disk' = [fat |-> fat, dir |-> g]
           /\ sft' = AllClosed /\ saved' = saved
           /\ Fault(TRUE) \/ (Fault(FALSE) /\ Usable(fat, f, g))
<1>1. PICK C \in SUBSET {c \in Clusters : vol.fat[c] # disk.fat[c]},
           L \in SUBSET {l \in Locs : dir[l] # disk.dir[l] /\ dir[l].name # Junk} :
        LET fat == [c \in Clusters |-> IF c \in C THEN vol.fat[c] ELSE disk.fat[c]]
            f == [l \in Locs |-> IF l \in L THEN dir[l] ELSE disk.dir[l]]
            dirs == {f[l].start : l \in {k \in Files(f) : f[k].isdir}}
            held == UNION {ToSet(Chain(fat, d)) : d \in dirs}
            g == Filled(f, Clusters \ held, Junk)
            starts == [l \in Files(g) |-> g[l].start] IN
        /\ vol' = [fat |-> fat, hint |-> UNKNOWN, nfree |-> UNKNOWN]
        /\ dir' = g
        /\ disk' = [fat |-> fat, dir |-> g]
        /\ Fault(~ /\ \A l \in Files(g) : Whole(fat, starts[l]) /\ g[l].size <= Room(fat, starts[l])
                   /\ Apart(fat, starts)
                   /\ \A c \in held, j \in 0..DirEnts-1 : g[<<c, j>>].name # Junk)
  BY Zenon DEF Power
<1> DEFINE fat == [c \in Clusters |-> IF c \in C THEN vol.fat[c] ELSE disk.fat[c]]
           f == [l \in Locs |-> IF l \in L THEN dir[l] ELSE disk.dir[l]]
           dirs == {f[l].start : l \in {k \in Files(f) : f[k].isdir}}
           held == UNION {ToSet(Chain(fat, d)) : d \in dirs}
           g == Filled(f, Clusters \ held, Junk)
           starts == [l \in Files(g) |-> g[l].start]
           bad == ~ /\ \A l \in Files(g) : Whole(fat, starts[l]) /\ g[l].size <= Room(fat, starts[l])
                    /\ Apart(fat, starts)
                    /\ \A c \in held, j \in 0..DirEnts-1 : g[<<c, j>>].name # Junk
<1>2. vol' = Fresh(fat) /\ dir' = g /\ disk' = [fat |-> fat, dir |-> g] /\ Fault(bad)
  BY <1>1, Zenon DEF Fresh
<1>3. sft' = AllClosed /\ saved' = saved
  BY DEF Power, AllClosed
<1>4. held = Held(fat, f)
  <2> HIDE DEF fat, f
  <2>1. \A x : x \in held <=> x \in Held(fat, f)
    BY DEF Held, Dir
  <2> HIDE DEF held
  <2> QED
    BY ONLY <2>1
<1> HIDE DEF held
<1>5. Mix(vol, dir, disk, C, L, fat, f, g)
  BY <1>4, Zenon DEF Mix
<1>6. ~bad => Usable(fat, f, g)
  <2> HIDE DEF fat, f, g
  <2>1. \A l \in Files(g) : starts[l] = g[l].start
    OBVIOUS
  <2> QED
    BY <1>4, <2>1 DEF Usable
<1> HIDE DEF fat, f, g, bad, starts
<1>7. CASE bad
  <2>1. bad = TRUE
    BY <1>7 DEF bad
  <2>2. Fault(TRUE)
    BY <1>2, <2>1
  <2> QED
    BY <1>2, <1>3, <1>5, <2>2
<1>8. CASE ~bad
  <2>1. bad = FALSE
    BY <1>8 DEF bad
  <2>2. Fault(FALSE)
    BY <1>2, <2>1
  <2> QED
    BY <1>2, <1>3, <1>5, <1>6, <1>8, <2>2
<1> QED
  BY <1>7, <1>8

LEMMA PowerEnded ==
  ASSUME Now, Power
  PROVE  Ended
<1>1. PICK C, L, fat, f, g :
        /\ Mix(vol, dir, disk, C, L, fat, f, g)
        /\ vol' = Fresh(fat) /\ dir' = g /\ disk' = [fat |-> fat, dir |-> g]
        /\ sft' = AllClosed /\ saved' = saved
        /\ Fault(TRUE) \/ (Fault(FALSE) /\ Usable(fat, f, g))
  BY PowerIs
<1>2. Before(vol, dir, sft, disk, saved) /\ saved \subseteq Locs
  BY DEF Now, Before
<1>3. fat \in FatOf /\ g \in DirOf
  <2> DEFINE e == disk
             S == saved
  <2>1. Before(vol, dir, sft, e, S) /\ Mix(vol, dir, e, C, L, fat, f, g)
    BY <1>1, <1>2
  <2> HIDE DEF e, S
  <2> QED
    BY <2>1, MixIs
<1>4. disk' \in DiskOf /\ vol' \in VolOf /\ dir' \in DirOf /\ sft' \in SftsOf /\ saved' \subseteq Locs
  BY <1>1, <1>2, <1>3, AllClosedIs DEF DiskOf, VolOf, Fresh
<1>5. CASE Fault(TRUE)
  BY <1>4, <1>5 DEF Ended, TypesNext
<1>6. CASE Fault(FALSE) /\ Usable(fat, f, g)
  <2>3. Resume(vol, dir, sft, disk, saved, C, L, fat, f, g)
    BY <1>1, <1>2, <1>6 DEF Resume
  <2>4. Sound(vol', dir', sft')
    BY <1>1, <2>3, ResumeSound
  <2>5. Behind(disk', vol'.fat, dir', sft', saved')
    <3>1. disk'.fat = fat /\ disk'.dir = g /\ vol'.fat = fat
      BY <1>1 DEF Fresh
    <3> DEFINE e2 == disk'
    <3>2. e2.fat = fat /\ e2.dir = g
      BY <3>1
    <3> HIDE DEF e2
    <3>3. Behind(e2, fat, g, AllClosed, saved)
      BY <2>3, <3>2, ResumeSaved
    <3> QED
      BY <1>1, <3>1, <3>3 DEF e2
  <2> QED
    BY <1>4, <1>6, <2>4, <2>5 DEF Ended, NowNext
<1> QED
  BY <1>1, <1>5, <1>6

-----------------------------------------------------------------------------
(* Every step.                                                             *)

LEMMA TypesAre ==
  TypeOK <=> /\ vol \in VolOf /\ dir \in DirOf /\ sft \in SftsOf /\ disk \in DiskOf
             /\ saved \subseteq Locs /\ faulted \in BOOLEAN /\ upset \in BOOLEAN
BY DEF TypeOK, VolOf, FatOf, DirOf, SftsOf, SftOf, DiskOf

\* As long as the model goes on, volume and disk are good.
VolInv ==
  /\ vol \in VolOf /\ dir \in DirOf /\ sft \in SftsOf /\ disk \in DiskOf
  /\ saved \subseteq Locs /\ faulted \in BOOLEAN /\ upset \in BOOLEAN
  /\ ~upset => Now

LEMMA EndedInv ==
  ASSUME VolInv, ~upset, Ended
  PROVE  VolInv'
<1>1. CASE NowNext /\ (Fine \/ Fault(FALSE))
  <2>1. vol' \in VolOf /\ dir' \in DirOf /\ sft' \in SftsOf
    BY <1>1, SoundFacts DEF NowNext
  <2>2. faulted' \in BOOLEAN /\ upset' \in BOOLEAN
    BY <1>1 DEF VolInv, Fine, Fault
  <2> QED
    BY <1>1, <2>1, <2>2 DEF VolInv, NowNext, Now
<1>2. CASE TypesNext /\ Fault(TRUE)
  BY <1>2 DEF VolInv, TypesNext, Fault
<1> QED
  BY <1>1, <1>2 DEF Ended

\* Every call ends like this, and the next state relation says nothing else.
LEMMA NextEnds ==
  ASSUME VolInv, Next
  PROVE  (~upset /\ Ended) \/ UNCHANGED vars
<1>1. ASSUME NEW i \in Sfts, NEW l \in Locs, dos_open(i, l)
      PROVE  ~upset /\ Ended
  <2>1. ~upset
    BY <1>1 DEF dos_open
  <2> QED
    BY <1>1, <2>1, OpenEnded DEF VolInv
<1>2. ASSUME NEW i \in Sfts, NEW l \in Locs, dos_open_trunc(i, l)
      PROVE  ~upset /\ Ended
  <2>1. ~upset
    BY <1>2 DEF dos_open_trunc
  <2> QED
    BY <1>2, <2>1, OpenTruncEnded DEF VolInv
<1>3. ASSUME NEW i \in Sfts, NEW d \in Dirs, NEW name \in Names, dos_create(i, d, name)
      PROVE  ~upset /\ Ended
  <2>1. ~upset
    BY <1>3 DEF dos_create
  <2> QED
    BY <1>3, <2>1, CreateEnded DEF VolInv
<1>4. ASSUME NEW i \in Sfts, NEW commit \in BOOLEAN, dos_close(i, commit)
      PROVE  ~upset /\ Ended
  <2>1. ~upset
    BY <1>4 DEF dos_close
  <2> QED
    BY <1>4, <2>1, CloseEnded DEF VolInv
<1>5. ASSUME NEW i \in Sfts, NEW pos \in Seeks, SftSeek(i, pos)
      PROVE  ~upset /\ Ended
  <2>1. ~upset
    BY <1>5 DEF SftSeek
  <2> QED
    BY <1>5, <2>1, SeekEnded DEF VolInv
<1>6. ASSUME NEW i \in Sfts, NEW n \in Counts, rwblock_read(i, n)
      PROVE  ~upset /\ Ended
  <2>1. ~upset
    BY <1>6, Zenon DEF rwblock_read
  <2>2. n \in Nat \ {0}
    BY FatFsAssumption
  <2> QED
    BY <1>6, <2>1, <2>2, ReadEnded DEF VolInv
<1>7. ASSUME NEW i \in Sfts, NEW n \in Counts, rwblock_write(i, n)
      PROVE  ~upset /\ Ended
  <2>1. ~upset
    BY <1>7, Zenon DEF rwblock_write
  <2>2. n \in Nat \ {0}
    BY FatFsAssumption
  <2> QED
    BY <1>7, <2>1, <2>2, WriteEnded DEF VolInv
<1>8. ASSUME NEW i \in Sfts, rwblock_trunc(i)
      PROVE  ~upset /\ Ended
  <2>1. ~upset
    BY <1>8, Zenon DEF rwblock_trunc
  <2> QED
    BY <1>8, <2>1, TruncCallEnded DEF VolInv
<1>9. ASSUME NEW l \in Locs, dos_delete(l)
      PROVE  ~upset /\ Ended
  <2>1. ~upset
    BY <1>9 DEF dos_delete
  <2> QED
    BY <1>9, <2>1, DeleteEnded DEF VolInv
<1>10. ASSUME NEW l \in Locs, dos_rmdir(l)
       PROVE  ~upset /\ Ended
  <2>1. ~upset
    BY <1>10 DEF dos_rmdir
  <2> QED
    BY <1>10, <2>1, RmdirEnded DEF VolInv
<1>11. ASSUME NEW l \in Locs, NEW d \in Dirs, NEW name \in Names, dos_rename(l, d, name)
       PROVE  ~upset /\ Ended
  <2>1. ~upset
    BY <1>11 DEF dos_rename
  <2> QED
    BY <1>11, <2>1, RenameEnded DEF VolInv
<1>12. ASSUME NEW name \in Names, dos_mkdir(name)
       PROVE  ~upset /\ Ended
  <2>1. ~upset
    BY <1>12 DEF dos_mkdir
  <2> QED
    BY <1>12, <2>1, MkdirEnded DEF VolInv
<1>13. ASSUME dos_free
       PROVE  ~upset /\ Ended
  <2>1. ~upset
    BY <1>13 DEF dos_free
  <2> QED
    BY <1>13, <2>1, FreeEnded DEF VolInv
<1>14. ASSUME Power
       PROVE  ~upset /\ Ended
  <2>1. ~upset
    BY <1>14, Zenon DEF Power
  <2> QED
    BY <1>14, <2>1, PowerEnded DEF VolInv
<1> QED
  BY <1>1, <1>2, <1>3, <1>4, <1>5, <1>6, <1>7, <1>8, <1>9, <1>10, <1>11, <1>12, <1>13, <1>14, Zenon DEF Next

LEMMA InitInv == Init => VolInv
<1> SUFFICES ASSUME Init PROVE VolInv
  OBVIOUS
<1>1. /\ vol = [fat |-> [c \in Clusters |-> FREE], hint |-> UNKNOWN, nfree |-> UNKNOWN]
      /\ dir = [l \in Locs |-> Blank(IF l[1] = Root THEN NeverUsed ELSE Junk)]
      /\ sft = AllClosed
      /\ disk = [fat |-> vol.fat, dir |-> dir]
      /\ saved = {} /\ faulted = FALSE /\ upset = FALSE
  BY DEF Init, AllClosed
<1>2. \A l \in Locs : dir[l] = IF l[1] = Root THEN Blank(NeverUsed) ELSE Blank(Junk)
  BY <1>1
<1>3. /\ Blank(NeverUsed) \in Entries /\ Blank(NeverUsed).isdir = FALSE /\ Blank(NeverUsed).name = NeverUsed
      /\ Blank(Junk) \in Entries /\ Blank(Junk).isdir = FALSE /\ Blank(Junk).name = Junk
      /\ NeverUsed \notin Names /\ Junk \notin Names /\ NeverUsed # Junk
  BY Blanks, NamesApart
<1>4. vol \in VolOf /\ vol.fat \in FatOf /\ CountOK(vol)
  BY <1>1 DEF VolOf, FatOf, CountOK
<1>5. dir \in DirOf /\ DirsOK(dir) /\ Files(dir) = {} /\ Dir(dir) = {}
  <2>1. dir \in DirOf
    BY <1>1, <1>2, <1>3 DEF DirOf
  <2> QED
    BY <1>2, <1>3, <2>1 DEF DirsOK, Files, Dir
<1>6. Held(vol.fat, dir) = {}
  BY <1>5 DEF Held
<1>7. HeldOK(vol.fat, dir)
  BY <1>2, <1>3, <1>6 DEF HeldOK
<1>8. sft \in SftsOf /\ SftsOK(dir, sft) /\ Cached(vol.fat, sft)
  BY <1>1, AllClosedIs
<1>9. VolFit(vol.fat, Files(dir), St(dir, sft), Sz(dir, sft))
  BY <1>5 DEF VolFit
<1>10. Sound(vol, dir, sft)
  BY <1>4, <1>5, <1>7, <1>8, <1>9 DEF Sound, GoodVol, FilesOK
<1>11. disk.fat = vol.fat /\ disk.dir = dir /\ disk \in DiskOf
  BY <1>1, <1>4, <1>5 DEF DiskOf
<1>12. Behind(disk, vol.fat, dir, sft, saved)
  <2>1. DiskGood(disk)
    BY <1>4, <1>5, <1>7, <1>11 DEF DiskGood
  <2>2. FatAhead(disk, vol.fat) /\ DirAhead(disk, dir) /\ SavedIn(disk, vol.fat, dir, sft, saved)
    BY <1>1, <1>11 DEF FatAhead, DirAhead, SavedIn
  <2> QED
    BY <2>1, <2>2 DEF Behind
<1> QED
  BY <1>1, <1>4, <1>5, <1>8, <1>10, <1>11, <1>12 DEF VolInv, Now

LEMMA NextInv == VolInv /\ [Next]_vars => VolInv'
<1> SUFFICES ASSUME VolInv, [Next]_vars PROVE VolInv'
  OBVIOUS
<1>1. CASE UNCHANGED vars
  <2>1. Now' <=> Now
    BY <1>1 DEF Now, vars
  <2> QED
    BY <1>1, <2>1 DEF VolInv, vars
<1>2. CASE Next
  BY <1>1, <1>2, NextEnds, EndedInv
<1> QED
  BY <1>1, <1>2

\* At every state the volume is sound and what was saved is on the disk, whatever calls do,
\* until an interrupted call upsets an entry.
THEOREM VolInductive == Spec => []VolInv
<1> QED
  BY InitInv, NextInv, PTL DEF Spec

-----------------------------------------------------------------------------
(* What that means for the volume.                                         *)

LEMMA StartIs ==
  ASSUME NEW l \in Locs
  PROVE  Start(l) = St(dir, sft)[l] /\ Size(l) = Sz(dir, sft)[l]
BY DEF Start, Size, St, Sz, StartIn, SizeIn, OpenAt, At

LEMMA NowFacts ==
  ASSUME Now
  PROVE  /\ Live = Files(dir)
         /\ \A l \in Live : /\ l \in Locs /\ Start(l) = St(dir, sft)[l] /\ Size(l) = Sz(dir, sft)[l]
                            /\ Whole(vol.fat, Start(l)) /\ Size(l) =< Room(vol.fat, Start(l))
                            /\ Start(l) \in Clusters \cup {FREE}
         /\ \A k, l \in Live : \A x \in Clusters :
              x \in ToSet(Chain(vol.fat, Start(k))) /\ x \in ToSet(Chain(vol.fat, Start(l))) => k = l
<1>1. /\ VolFit(vol.fat, Files(dir), St(dir, sft), Sz(dir, sft)) /\ SftsOK(dir, sft)
      /\ dir \in DirOf /\ sft \in SftsOf
  BY SoundFacts DEF Now
<1>2. Live = Files(dir) /\ \A l \in Live : l \in Locs
  BY DEF Live, Files
<1>3. \A l \in Live : Start(l) = St(dir, sft)[l] /\ Size(l) = Sz(dir, sft)[l] /\ Start(l) \in Clusters \cup {FREE}
  BY <1>1, <1>2, StartIs, StTypes
<1>4. \A l \in Live : Whole(vol.fat, Start(l)) /\ Size(l) =< Room(vol.fat, Start(l))
  BY <1>1, <1>2, <1>3 DEF VolFit
<1>5. \A k, l \in Live : \A x \in Clusters :
        x \in ToSet(Chain(vol.fat, Start(k))) /\ x \in ToSet(Chain(vol.fat, Start(l))) => k = l
  BY <1>1, <1>2, <1>3 DEF VolFit
<1> QED
  BY <1>2, <1>3, <1>4, <1>5

\* Types of all variables, also where the model stops.
THEOREM FatTypes == Spec => []TypeOK
<1>1. VolInv => TypeOK
  BY TypesAre DEF VolInv
<1> QED
  BY <1>1, VolInductive, PTL

\* No cluster is in two chains and all chains end, whatever calls grow, cut, delete or
\* make, fail or are aborted, and after a power failure (extend, wipe_out, shrink_file).
THEOREM FatChainsApart == Spec => []ChainsApart
<1>1. VolInv => ChainsApart
  <2> SUFFICES ASSUME Now
               PROVE  /\ \A l \in Live : Whole(vol.fat, Start(l))
                      /\ Apart(vol.fat, [l \in Live |-> Start(l)])
    BY DEF VolInv, ChainsApart
  <2>1. \A l \in Live : Whole(vol.fat, Start(l)) /\ Start(l) \in Clusters \cup {FREE}
    BY NowFacts
  <2> DEFINE a == [l \in Live |-> Start(l)]
  <2>2. DOMAIN a = Live /\ \A l \in Live : a[l] = Start(l)
    OBVIOUS
  <2>3. ASSUME NEW k \in Live, NEW l \in Live, k # l
        PROVE  ToSet(Chain(vol.fat, Start(k))) \cap ToSet(Chain(vol.fat, Start(l))) = {}
    <3>1. \A x \in ToSet(Chain(vol.fat, Start(k))) : x \in Clusters
      BY <2>1, ChainFacts
    <3>2. \A x \in Clusters :
            ~ (x \in ToSet(Chain(vol.fat, Start(k))) /\ x \in ToSet(Chain(vol.fat, Start(l))))
      BY <2>3, NowFacts
    <3> QED
      BY <3>1, <3>2
  <2>4. Apart(vol.fat, a)
    <3> HIDE DEF a
    <3> QED
      BY <2>2, <2>3 DEF Apart
  <2> QED
    BY <2>1, <2>4
<1> QED
  BY <1>1, VolInductive, PTL

\* A file has the clusters its size needs, also after a full disk or an abort.
THEOREM FatSizeFits == Spec => []SizeFits
<1>1. VolInv => SizeFits
  BY NowFacts DEF VolInv, SizeFits
<1> QED
  BY <1>1, VolInductive, PTL

\* The cluster cached in an SFT is the one its count says (map_cluster).
THEOREM FatCachedPosition == Spec => []CachedPosition
<1>1. VolInv => CachedPosition
  <2> SUFFICES ASSUME Now, NEW i \in Sfts, sft[i] # Closed
               PROVE  LET c == Chain(vol.fat, sft[i].start) IN
                      IF sft[i].cu = FREE THEN c = <<>> /\ sft[i].rel = 0
                      ELSE sft[i].rel < Len(c) /\ sft[i].cu = c[sft[i].rel + 1]
    BY DEF VolInv, CachedPosition
  <2>1. Cached(vol.fat, sft)
    BY SoundFacts DEF Now
  <2>2. Placed(vol.fat, sft[i].start, sft[i].cu, sft[i].rel)
    BY <2>1 DEF Cached
  <2> QED
    BY <2>2 DEF Placed
<1> QED
  BY <1>1, VolInductive, PTL

\* The number of free clusters is right whenever it is known (link_fat, dos_free).
THEOREM FatFreeCount == Spec => []FreeCount
<1>1. VolInv => FreeCount
  <2>1. Now => CountOK(vol)
    BY SoundFacts DEF Now
  <2> QED
    BY <2>1 DEF VolInv, FreeCount, CountOK
<1> QED
  BY <1>1, VolInductive, PTL

\* What was closed or committed is on the disk and its chain is the same there, whatever
\* happens to other files, and so it is after a power failure.
THEOREM FatSavedStays == Spec => []SavedStays
<1>1. VolInv => SavedStays
  <2> SUFFICES ASSUME Now, NEW l \in saved
               PROVE  /\ l \in Live /\ dir[l] = disk.dir[l]
                      /\ Chain(vol.fat, dir[l].start) = Chain(disk.fat, dir[l].start)
                      /\ Whole(disk.fat, dir[l].start) /\ dir[l].size <= Room(disk.fat, dir[l].start)
    BY DEF VolInv, SavedStays
  <2> DEFINE e == disk
             S == saved
             a == dir[l].start
  <2>1. SavedIn(e, vol.fat, dir, sft, S) /\ Sound(vol, dir, sft) /\ l \in S
    BY DEF Now, Behind
  <2>2. l \in Live /\ dir[l] = disk.dir[l]
    BY <2>1 DEF SavedIn, Live, Files
  <2> HIDE DEF e, S
  <2>3. HasSaved(vol, dir, sft, e, S)
    BY <2>1 DEF HasSaved
  <2>4. a \in Clusters \cup {FREE} /\ Whole(vol.fat, a) /\ dir[l].size =< Room(vol.fat, a)
    BY <2>1, <2>3, SavedStart
  <2>5. \A c \in ToSet(Chain(vol.fat, a)) : e.fat[c] = vol.fat[c]
    BY <2>1 DEF SavedIn
  <2> HIDE DEF a
  <2> DEFINE g == e.fat
  <2>6. \A c \in ToSet(Chain(vol.fat, a)) : g[c] = vol.fat[c]
    BY <2>5
  <2> HIDE DEF g
  <2>7. Chain(g, a) = Chain(vol.fat, a) /\ Whole(g, a)
    BY <2>4, <2>6, ChainKept
  <2>8. Room(g, a) = Room(vol.fat, a)
    BY <2>7 DEF Room
  <2> QED
    BY <2>2, <2>4, <2>7, <2>8 DEF a, g, e
<1> QED
  BY <1>1, VolInductive, PTL

-----------------------------------------------------------------------------
(* Names stay in order.                                                    *)

\* A call is over and the names are in order, or the model stops.
Tidy == Fault(TRUE) \/ Ordered(vol'.fat, dir')

\* Directories go on with their clusters.
ChainsStay(f, d, g) == \A e \in Starts(d) : e # Root => Chain(g, e) = Chain(f, e)

\* Directories of d2 are directories of d, other than l.
Fewer(d, d2, l) == \A k \in Dir(d2) : k \in Dir(d) /\ k # l /\ d2[k].start = d[k].start

LEMMA DirsKept ==
  ASSUME NEW v, NEW d, NEW s, Sound(v, d, s), NEW g, NEW d2, NEW s2, NEW l,
         Kept(v.fat, d, s, g, d2, s2, l), NEW b, Fewer(d, b, l)
  PROVE  ChainsStay(v.fat, b, g) /\ Starts(b) \subseteq Starts(d)
<1>1. ASSUME NEW e \in Starts(b), e # Root PROVE Chain(g, e) = Chain(v.fat, e)
  <2>1. PICK k \in Dir(b) : b[k].start = e
    BY <1>1 DEF Starts
  <2>2. k \in Dir(d) /\ k # l /\ d[k].start = e
    BY <2>1 DEF Fewer
  <2>3. k \in Files(d) /\ St(d, s)[k] = e
    BY <2>2, SoundFacts, DirClosed
  <2> QED
    BY <2>2, <2>3 DEF Kept
<1>2. Starts(b) \subseteq Starts(d)
  BY DEF Starts, Fewer
<1> QED
  BY <1>1, <1>2 DEF ChainsStay

LEMMA DirsStay ==
  ASSUME NEW v, NEW d, NEW s, Sound(v, d, s), NEW g, NEW s2, NEW l,
         OthersStay(v.fat, d, s, g, s2, l), l \notin Dir(d)
  PROVE  ChainsStay(v.fat, d, g)
<1>1. Kept(v.fat, d, s, g, d, s2, l)
  BY DEF Kept, OthersStay
<1>2. Fewer(d, d, l)
  BY DEF Fewer
<1> QED
  BY <1>1, <1>2, DirsKept

\* No name changes.
SameNames(v, d, s, g, d2) ==
  /\ Sound(v, d, s) /\ Ordered(v.fat, d) /\ Starts(d2) \subseteq Starts(d)
  /\ ChainsStay(v.fat, d2, g)
  /\ \A e \in Starts(d2) : \A j \in Locs : j[1] \in Part(v.fat, e) => d2[j].name = d[j].name

LEMMA NamesStay ==
  ASSUME NEW v, NEW d, NEW s, NEW g, NEW d2, SameNames(v, d, s, g, d2)
  PROVE  Ordered(g, d2)
<1> DEFINE n == <<>>
<1>1. n \notin Locs
  BY ClosedLoc
<1> HIDE DEF n
<1>2. /\ Sound(v, d, s) /\ Ordered(v.fat, d) /\ Starts(d2) \subseteq Starts(d)
      /\ \A e \in Starts(d2) : e # Root => Chain(g, e) = Chain(v.fat, e)
      /\ \A e \in Starts(d2) : \A j \in Locs : j[1] \in Part(v.fat, e) /\ j # n => d2[j].name = d[j].name
  BY DEF SameNames, ChainsStay
<1>3. \A e \in Starts(d2) : n \in Locs /\ n[1] \in Part(v.fat, e) =>
           \/ d2[n].name = d[n].name
           \/ \A m : DirList(v.fat, e, InDir(v.fat, e), m) => NewName(InDir(v.fat, e), m, d, d2, n)
  BY <1>1
<1> QED
  BY ONLY <1>2, <1>3, OrderedSet

\* One name changes, in one directory, e.
OneName(v, d, s, g, d2, n, e) ==
  /\ Sound(v, d, s) /\ Ordered(v.fat, d) /\ Starts(d2) \subseteq Starts(d) /\ e \in Starts(d)
  /\ ChainsStay(v.fat, d2, g)
  /\ \A b \in Starts(d2) : \A j \in Locs : j[1] \in Part(v.fat, b) /\ j # n => d2[j].name = d[j].name
  /\ n \in Locs /\ n[1] \in Part(v.fat, e)
  /\ \A m : DirList(v.fat, e, InDir(v.fat, e), m) => NewName(InDir(v.fat, e), m, d, d2, n)

LEMMA NameChanged ==
  ASSUME NEW v, NEW d, NEW s, NEW g, NEW d2, NEW n, NEW e, OneName(v, d, s, g, d2, n, e)
  PROVE  Ordered(g, d2)
<1>1. /\ Sound(v, d, s) /\ Ordered(v.fat, d) /\ Starts(d2) \subseteq Starts(d) /\ e \in Starts(d)
      /\ \A b \in Starts(d2) : b # Root => Chain(g, b) = Chain(v.fat, b)
      /\ \A b \in Starts(d2) : \A j \in Locs : j[1] \in Part(v.fat, b) /\ j # n => d2[j].name = d[j].name
      /\ n \in Locs /\ n[1] \in Part(v.fat, e)
      /\ \A m : DirList(v.fat, e, InDir(v.fat, e), m) => NewName(InDir(v.fat, e), m, d, d2, n)
  BY DEF OneName, ChainsStay
<1>2. \A b \in Starts(d2) : n[1] \in Part(v.fat, b) => b = e
  BY <1>1, PartsApart
<1>3. \A b \in Starts(d2) : n \in Locs /\ n[1] \in Part(v.fat, b) =>
        \A m : DirList(v.fat, b, InDir(v.fat, b), m) => NewName(InDir(v.fat, b), m, d, d2, n)
  BY <1>1, <1>2
<1> QED
  BY <1>1, <1>3, OrderedSet

\* Every entry is in a directory.
LEMMA EntryPart ==
  ASSUME NEW v, NEW d, NEW s, Sound(v, d, s), NEW l \in Locs, d[l].name # Junk
  PROVE  \E e \in Starts(d) : l[1] \in Part(v.fat, e)
<1>1. l[1] = Root \/ l[1] \in Held(v.fat, d)
  BY SoundFacts DEF HeldOK
<1>2. CASE l[1] = Root
  BY <1>2 DEF Starts, Part
<1>3. CASE l[1] \in Held(v.fat, d) /\ l[1] # Root
  <2>1. PICK k \in Dir(d) : l[1] \in ToSet(Chain(v.fat, d[k].start))
    BY <1>3 DEF Held
  <2>2. d[k].start # Root
    BY <2>1, SoundFacts, Numbers DEF DirsOK, Dir, Files, Root, FREE
  <2> QED
    BY <2>1, <2>2 DEF Starts, Part
<1> QED
  BY <1>1, <1>2, <1>3

\* Between calls, with names in order.
Neat == Now /\ Ordered(vol.fat, dir)

\* The entries stay, and what is a directory keeps its clusters.
LEMMA EntriesStay ==
  ASSUME Neat, dir' = dir, NEW l, OthersStay(vol.fat, dir, sft, vol'.fat, sft', l), l \notin Dir(dir)
  PROVE  Tidy
<1>1. Sound(vol, dir, sft) /\ Ordered(vol.fat, dir)
  BY DEF Neat, Now
<1> DEFINE g == vol'.fat
           s2 == sft'
<1>2. OthersStay(vol.fat, dir, sft, g, s2, l)
  OBVIOUS
<1> HIDE DEF g, s2
<1>3. ChainsStay(vol.fat, dir, g)
  BY <1>1, <1>2, DirsStay
<1>4. SameNames(vol, dir, sft, g, dir)
  BY <1>1, <1>3 DEF SameNames
<1>5. Ordered(g, dir)
  BY <1>4, NamesStay
<1> QED
  BY <1>5 DEF Tidy, g

\* Nothing changes that matters to names.
LEMMA AllStays ==
  ASSUME Neat, dir' = dir, vol'.fat = vol.fat
  PROVE  Tidy
BY DEF Neat, Tidy

\* Clusters are taken and not linked to.
LEMMA LeakTidy ==
  ASSUME Neat, dir' = dir, vol' = Taken(vol)
  PROVE  Tidy
<1>1. Sound(vol, dir, sft) /\ Ordered(vol.fat, dir)
  BY DEF Neat, Now
<1>2. vol \in VolOf /\ CountOK(vol)
  BY <1>1, SoundFacts
<1>3. ASSUME NEW e \in Starts(dir), e # Root PROVE Chain(Taken(vol).fat, e) = Chain(vol.fat, e)
  <2>1. e \in Clusters /\ Whole(vol.fat, e)
    BY <1>1, <1>3, StartsAre
  <2> QED
    BY <1>2, <2>1, TakenAside
<1> DEFINE g == Taken(vol).fat
<1>4. ChainsStay(vol.fat, dir, g)
  BY <1>3 DEF ChainsStay
<1> HIDE DEF g
<1>5. SameNames(vol, dir, sft, g, dir)
  BY <1>1, <1>4 DEF SameNames
<1>6. Ordered(g, dir)
  BY <1>5, NamesStay
<1> QED
  BY <1>6 DEF Tidy, g

LEMMA OpenIsFile ==
  ASSUME Now, NEW i \in Sfts, sft[i] # Closed
  PROVE  sft[i].loc \notin Dir(dir) /\ Ready(vol, dir, sft, i)
<1>1. SftsOK(dir, sft)
  BY SoundFacts DEF Now
<1> QED
  BY <1>1, NowReady DEF SftsOK, Dir

\* Reading, seeking, writing and truncating.
LEMMA ReadTidy ==
  ASSUME Neat, NEW i \in Sfts, NEW n, rwblock_read(i, n)
  PROVE  Tidy
<1>1. vol' = vol /\ dir' = dir
  BY DEF rwblock_read
<1> QED
  BY <1>1, AllStays

LEMMA SeekTidy ==
  ASSUME Neat, NEW i \in Sfts, NEW pos, SftSeek(i, pos)
  PROVE  Tidy
<1>1. vol' = vol /\ dir' = dir
  BY DEF SftSeek
<1> QED
  BY <1>1, AllStays

LEMMA WriteTidy ==
  ASSUME Neat, NEW i \in Sfts, NEW n \in Nat \ {0}, rwblock_write(i, n)
  PROVE  Tidy
<1>1. sft[i] # Closed
  BY DEF rwblock_write
<1>2. sft[i].loc \notin Dir(dir) /\ Ready(vol, dir, sft, i)
  BY <1>1, OpenIsFile DEF Neat
<1>3. OthersStay(vol.fat, dir, sft, vol'.fat, sft', sft[i].loc) /\ dir' = dir
  BY <1>2, WriteStep DEF Outcome
<1> QED
  BY <1>2, <1>3, EntriesStay

LEMMA TruncTidy ==
  ASSUME Neat, NEW i \in Sfts, rwblock_trunc(i)
  PROVE  Tidy
<1>1. sft[i] # Closed
  BY DEF rwblock_trunc
<1>2. sft[i].loc \notin Dir(dir) /\ Ready(vol, dir, sft, i)
  BY <1>1, OpenIsFile DEF Neat
<1>3. TruncEnded(i)
  BY <1>2, TruncStep
<1>4. dir' = dir /\ (OthersStay(vol.fat, dir, sft, vol'.fat, sft', sft[i].loc) \/ Fault(TRUE))
  BY <1>3 DEF TruncEnded, Outcome
<1> QED
  BY <1>2, <1>4, EntriesStay DEF Tidy

LEMMA OpenTidy ==
  ASSUME Neat, NEW i \in Sfts, NEW l \in Locs, dos_open(i, l)
  PROVE  Tidy
<1>1. vol' = vol /\ dir' = dir
  BY DEF dos_open
<1> QED
  BY <1>1, AllStays

LEMMA FreeTidy ==
  ASSUME Neat, dos_free
  PROVE  Tidy
<1>1. PICK S \in SUBSET Free(vol.fat) :
        vol' = [vol EXCEPT !.nfree = Cardinality(S), !.hint = IF S = {} THEN @ ELSE Min(S)]
  BY Zenon DEF dos_free
<1>2. vol \in VolOf
  BY SoundFacts DEF Neat, Now
<1>3. vol'.fat = vol.fat
  BY <1>1, <1>2 DEF VolOf
<1>4. dir' = dir
  BY DEF dos_free
<1> QED
  BY <1>3, <1>4, AllStays

LEMMA CloseTidy ==
  ASSUME Neat, NEW i \in Sfts, NEW commit \in BOOLEAN, dos_close(i, commit)
  PROVE  Tidy
<1>1. /\ sft[i] # Closed /\ vol' = vol
      /\ dir' = dir \/ dir' = Updated(dir, sft, i)
  BY DEF dos_close, Updated
<1>2. CASE dir' = dir
  BY <1>1, <1>2, AllStays
<1>3. CASE dir' = Updated(dir, sft, i)
  <2> DEFINE d2 == Updated(dir, sft, i)
  <2>1. Sound(vol, dir, sft) /\ Ordered(vol.fat, dir)
    BY DEF Neat, Now
  <2>2. /\ Dir(d2) = Dir(dir) /\ \A k \in Locs : d2[k].name = dir[k].name /\ (k # sft[i].loc => d2[k] = dir[k])
    BY <1>1, <2>1, UpdatedOK
  <2> HIDE DEF d2
  <2>3. sft[i].loc \notin Dir(dir)
    BY <1>1, OpenIsFile DEF Neat
  <2>4. \A k \in Dir(d2) : k \in Locs /\ d2[k].start = dir[k].start
    BY <2>2, <2>3 DEF Dir, Files
  <2>5. Starts(d2) \subseteq Starts(dir)
    BY <2>2, <2>4 DEF Starts
  <2> DEFINE f == vol.fat
  <2>6. ChainsStay(f, d2, f)
    BY DEF ChainsStay
  <2> HIDE DEF f
  <2>7. SameNames(vol, dir, sft, f, d2)
    BY <2>1, <2>2, <2>5, <2>6 DEF SameNames, f
  <2>8. Ordered(f, d2)
    BY <2>7, NamesStay
  <2> QED
    BY <1>1, <1>3, <2>8 DEF Tidy, f, d2
<1> QED
  BY <1>1, <1>2, <1>3

\* The clusters were freed, if there were any, and the entry not written.
LEMMA WipedTidy ==
  ASSUME Neat, NEW start, NEW k \in Nat, vol' = Wiped(vol, FirstOf(vol.fat, start, k)), dir' = dir, Fault(k > 0)
  PROVE  Tidy
<1>1. CASE k > 0
  <2> DEFINE bad == k > 0
  <2>1. bad = TRUE /\ Fault(bad)
    BY <1>1
  <2> HIDE DEF bad
  <2> QED
    BY <2>1 DEF Tidy
<1>2. CASE k = 0
  <2>1. vol \in VolOf
    BY SoundFacts DEF Neat, Now
  <2>2. vol' = vol
    BY <1>2, <2>1, WipedNone
  <2> QED
    BY <2>2, AllStays
<1> QED
  BY <1>1, <1>2

\* The entry l of a file or directory is dropped, or that of a file keeps its name.
Drops(v, d, s, g, d2, l) ==
  /\ Sound(v, d, s) /\ Ordered(v.fat, d) /\ l \in Files(d)
  /\ \A k \in Dir(d2) : k \in Dir(d) /\ k # l
  /\ ChainsStay(v.fat, d2, g)
  /\ \A j \in Locs : j # l /\ (j[1] = Root \/ j[1] \in Held(v.fat, d2)) => d2[j] = d[j]
  /\ d2[l].name \in {DELETED, d[l].name}

LEMMA DirStarts ==
  ASSUME NEW v, NEW d, NEW s, Sound(v, d, s), NEW k \in Dir(d)
  PROVE  k \in Locs /\ k[1] = Root /\ k \in Files(d)
BY SoundFacts DEF DirsOK, Dir, Files

LEMMA Dropped ==
  ASSUME NEW v, NEW d, NEW s, NEW g, NEW d2, NEW l, Drops(v, d, s, g, d2, l)
  PROVE  Ordered(g, d2)
<1>1. /\ Sound(v, d, s) /\ Ordered(v.fat, d) /\ l \in Files(d)
      /\ \A k \in Dir(d2) : k \in Dir(d) /\ k # l
      /\ ChainsStay(v.fat, d2, g)
      /\ \A j \in Locs : j # l /\ (j[1] = Root \/ j[1] \in Held(v.fat, d2)) => d2[j] = d[j]
      /\ d2[l].name \in {DELETED, d[l].name}
  BY DEF Drops
<1>2. \A k \in Dir(d2) : k \in Dir(d) /\ d2[k].start = d[k].start
  BY <1>1, DirStarts
<1>3. Starts(d2) \subseteq Starts(d)
  BY <1>2 DEF Starts
<1>4. l \in Locs /\ d[l].name \in Names /\ d[l].name # Junk
  BY <1>1, NamesApart DEF Files
<1>5. PICK e \in Starts(d) : l[1] \in Part(v.fat, e)
  BY <1>1, <1>4, EntryPart
<1>6. ASSUME NEW b \in Starts(d2), NEW j \in Locs, j[1] \in Part(v.fat, b), j # l PROVE d2[j].name = d[j].name
  <2>1. CASE b = Root
    BY <1>1, <1>6, <2>1 DEF Part
  <2>2. CASE b # Root
    <3>1. PICK k \in Dir(d2) : d2[k].start = b
      BY <2>2 DEF Starts
    <3>2. j[1] \in Held(v.fat, d2)
      BY <1>6, <2>2, <3>1 DEF Held, Part
    <3> QED
      BY <1>1, <1>6, <3>2
  <2> QED
    BY <2>1, <2>2
<1>7. CASE d2[l].name = DELETED
  <2>1. DELETED # NeverUsed /\ DELETED \notin Names /\ NeverUsed \notin Names
    BY NamesApart
  <2>2. \A m : NewName(InDir(v.fat, e), m, d, d2, l)
    BY <1>4, <1>7, <2>1 DEF NewName
  <2>3. OneName(v, d, s, g, d2, l, e)
    BY <1>1, <1>3, <1>4, <1>5, <1>6, <2>2 DEF OneName
  <2> QED
    BY <2>3, NameChanged
<1>8. CASE d2[l].name = d[l].name
  <2>1. SameNames(v, d, s, g, d2)
    BY <1>1, <1>3, <1>6, <1>8 DEF SameNames
  <2> QED
    BY <2>1, NamesStay
<1> QED
  BY <1>1, <1>7, <1>8

LEMMA OpenTruncTidy ==
  ASSUME Neat, NEW i \in Sfts, NEW l \in Locs, dos_open_trunc(i, l)
  PROVE  Tidy
<1> DEFINE all == Len(Chain(vol.fat, dir[l].start))
           d2 == [dir EXCEPT ![l] = Entry(dir[l].name, FREE, 0)]
<1>1. sft[i] = Closed /\ l \in Files(dir) /\ ~dir[l].isdir /\ At(sft, l) = {}
  BY DEF dos_open_trunc, Live, Files, Idle, OpenAt, At
<1>2. PICK k \in 0..all :
        /\ vol' = Wiped(vol, FirstOf(vol.fat, dir[l].start, k))
        /\ dir' = d2 \/ (dir' = dir /\ Fault(k > 0))
  BY DEF dos_open_trunc
<1>3. Sound(vol, dir, sft) /\ Ordered(vol.fat, dir) /\ dir \in DirOf
  BY SoundFacts DEF Neat, Now
<1>4. CASE dir' = d2
  <2> DEFINE w == Wiped(vol, FirstOf(vol.fat, dir[l].start, k))
             g == w.fat
  <2>1. Kept(vol.fat, dir, sft, w.fat, d2, sft, l)
    BY <1>1, <1>3, EmptiedOK
  <2>2. l \in Locs /\ l \notin Dir(dir) /\ dir \in [Locs -> Entries]
    BY <1>1, <1>3 DEF Files, Dir, DirOf
  <2>3. /\ \A j \in Locs : j # l => d2[j] = dir[j]
        /\ d2[l].name = dir[l].name /\ d2[l].isdir = FALSE
    BY <2>2 DEF Entry
  <2> HIDE DEF g, d2
  <2>4. \A j \in Dir(d2) : j \in Dir(dir) /\ j # l /\ d2[j] = dir[j]
    BY <2>2, <2>3 DEF Dir, Files
  <2>5. ChainsStay(vol.fat, d2, g)
    <3>1. Fewer(dir, d2, l)
      BY <2>4 DEF Fewer
    <3> QED
      BY <1>3, <2>1, <3>1, DirsKept DEF g
  <2>6. Drops(vol, dir, sft, g, d2, l)
    BY <1>1, <1>3, <2>3, <2>4, <2>5 DEF Drops
  <2>7. Ordered(g, d2)
    BY <2>6, Dropped
  <2> QED
    BY <1>2, <1>4, <2>7 DEF Tidy, g
<1>5. CASE dir' = dir /\ Fault(k > 0)
  <2>1. k \in Nat
    OBVIOUS
  <2> QED
    BY <1>2, <1>5, <2>1, WipedTidy
<1> QED
  BY <1>2, <1>4, <1>5

LEMMA DeleteTidy ==
  ASSUME Neat, NEW l \in Locs, dos_delete(l)
  PROVE  Tidy
<1> DEFINE all == Len(Chain(vol.fat, dir[l].start))
           d2 == [dir EXCEPT ![l] = Blank(DELETED)]
<1>1. l \in Files(dir) /\ ~dir[l].isdir /\ At(sft, l) = {} /\ delete_dir_entry(l)
  BY DEF dos_delete, Live, Files, Idle, OpenAt, At
<1>2. PICK k \in 0..all :
        /\ vol' = Wiped(vol, FirstOf(vol.fat, dir[l].start, k))
        /\ dir' = Filled(d2, {}, Junk) \/ (dir' = dir /\ Fault(k > 0))
  BY <1>1 DEF delete_dir_entry
<1>3. Sound(vol, dir, sft) /\ Ordered(vol.fat, dir) /\ dir \in DirOf
  BY SoundFacts DEF Neat, Now
<1>4. CASE dir' = Filled(d2, {}, Junk)
  <2> DEFINE w == Wiped(vol, FirstOf(vol.fat, dir[l].start, k))
             g == w.fat
  <2>1. Kept(vol.fat, dir, sft, w.fat, d2, sft, l) /\ Sound(w, d2, sft)
    BY <1>1, <1>3, DeletedOK
  <2>2. l \in Locs /\ dir \in [Locs -> Entries]
    BY <1>3 DEF DirOf
  <2>3. /\ \A j \in Locs : j # l => d2[j] = dir[j]
        /\ d2[l].name = DELETED /\ DELETED \notin Names
    BY <2>2, NamesApart DEF Blank
  <2>8. d2 \in DirOf
    BY <2>1, SoundFacts
  <2> HIDE DEF g, d2
  <2>4. \A k2 \in Dir(d2) : k2 \in Dir(dir) /\ k2 # l /\ d2[k2] = dir[k2]
    BY <2>3 DEF Dir, Files
  <2>5. ChainsStay(vol.fat, d2, g)
    <3>1. Fewer(dir, d2, l)
      BY <2>4 DEF Fewer
    <3> QED
      BY <1>3, <2>1, <3>1, DirsKept DEF g
  <2>6. Drops(vol, dir, sft, g, d2, l)
    BY <1>1, <1>3, <2>3, <2>4, <2>5 DEF Drops
  <2>7. Ordered(g, d2)
    BY <2>6, Dropped
  <2>9. Filled(d2, {}, Junk) = d2
    BY <2>8 DEF Filled, DirOf
  <2> QED
    BY <1>2, <1>4, <2>7, <2>9 DEF Tidy, g
<1>5. CASE dir' = dir /\ Fault(k > 0)
  <2>1. k \in Nat
    OBVIOUS
  <2> QED
    BY <1>2, <1>5, <2>1, WipedTidy
<1> QED
  BY <1>2, <1>4, <1>5

LEMMA RmdirTidy ==
  ASSUME Neat, NEW l \in Locs, dos_rmdir(l)
  PROVE  Tidy
<1> DEFINE start == dir[l].start
           all == Len(Chain(vol.fat, start))
           S == ToSet(Chain(vol.fat, start))
           d2 == Filled([dir EXCEPT ![l] = Blank(DELETED)], S, Junk)
<1>1. /\ l \in Dir(dir) /\ l \in Files(dir) /\ delete_dir_entry(l)
      /\ \A e \in ToSet(InDir(vol.fat, dir[l].start)) : dir[e].name \in {NeverUsed, DELETED}
  BY DEF dos_rmdir, Live, Files, Dir
<1>2. PICK k \in 0..all :
        /\ vol' = Wiped(vol, FirstOf(vol.fat, dir[l].start, k))
        /\ dir' = d2 \/ (dir' = dir /\ Fault(k > 0))
  BY <1>1 DEF delete_dir_entry, Dir
<1>3. Sound(vol, dir, sft) /\ Ordered(vol.fat, dir) /\ dir \in DirOf /\ SftsOK(dir, sft)
      /\ FilesOK(vol.fat, dir, sft) /\ DirsOK(dir) /\ sft \in SftsOf
  BY SoundFacts DEF Neat, Now
<1>4. CASE dir' = d2
  <2> DEFINE w == Wiped(vol, FirstOf(vol.fat, start, k))
             g == w.fat
  <2>1. /\ Kept(vol.fat, dir, sft, w.fat, d2, sft, l) /\ Dir(d2) = Dir(dir) \ {l}
        /\ \A j \in Locs : d2[j] = IF j[1] \in S THEN Blank(Junk)
                                   ELSE IF j = l THEN Blank(DELETED) ELSE dir[j]
    <3>1. \A j \in Locs : j[1] \in ToSet(Chain(vol.fat, dir[l].start)) => dir[j].name \in {NeverUsed, DELETED}
      BY <1>1, <1>3, EmptyDir
    <3>2. d2 = Filled([dir EXCEPT ![l] = Blank(DELETED)], ToSet(Chain(vol.fat, dir[l].start)), Junk)
      OBVIOUS
    <3>3. k \in 0..Len(Chain(vol.fat, dir[l].start)) /\ w = Wiped(vol, FirstOf(vol.fat, dir[l].start, k))
      OBVIOUS
    <3>4. S = ToSet(Chain(vol.fat, dir[l].start))
      OBVIOUS
    <3> HIDE DEF d2, w, S, all
    <3>5. Removes(vol, dir, sft, l, k, d2)
      BY <1>1, <1>3, <3>1, <3>2, <3>3 DEF Removes
    <3>6. /\ Kept(vol.fat, dir, sft, Wiped(vol, FirstOf(vol.fat, dir[l].start, k)).fat, d2, sft, l)
          /\ Dir(d2) = Dir(dir) \ {l}
          /\ \A j \in Locs : d2[j] = IF j[1] \in ToSet(Chain(vol.fat, dir[l].start)) THEN Blank(Junk)
                                     ELSE IF j = l THEN Blank(DELETED) ELSE dir[j]
      BY <3>5, RemovedOK
    <3> QED
      BY <3>3, <3>4, <3>6
  <2>2. start \in Clusters /\ Whole(vol.fat, start)
    BY <1>1, <1>3, HeldUsed DEF DirsOK, Dir
  <2>3. Root \notin S /\ \A x \in S : x \in Clusters
    BY <2>2, ChainFacts, Numbers DEF Root, FREE
  <2> HIDE DEF g, d2, S
  <2>4. \A a \in Dir(d2) : a \in Dir(dir) /\ a # l /\ a \in Locs /\ a[1] = Root
    BY <1>3, <2>1, DirStarts
  <2>5. \A a \in Dir(d2) : d2[a] = dir[a]
    BY <2>1, <2>3, <2>4
  <2>6. ASSUME NEW x \in S, x \in Held(vol.fat, d2) PROVE FALSE
    <3>1. PICK a \in Dir(d2) : x \in ToSet(Chain(vol.fat, d2[a].start))
      BY <2>6 DEF Held
    <3>2. a \in Dir(dir) /\ a # l /\ x \in ToSet(Chain(vol.fat, dir[a].start))
      BY <2>4, <2>5, <3>1
    <3>3. a \in Files(dir) /\ St(dir, sft)[a] = dir[a].start /\ St(dir, sft)[l] = start
      BY <1>1, <1>3, <3>2, DirClosed
    <3>4. x \in ToSet(Chain(vol.fat, St(dir, sft)[a])) /\ x \in ToSet(Chain(vol.fat, St(dir, sft)[l])) /\ x \in Clusters
      BY <2>3, <3>2, <3>3 DEF S
    <3> QED
      BY <1>1, <1>3, <3>2, <3>3, <3>4 DEF FilesOK, VolFit
  <2>7. ChainsStay(vol.fat, d2, g)
    <3>1. Fewer(dir, d2, l)
      BY <2>4, <2>5 DEF Fewer
    <3> QED
      BY <1>3, <2>1, <3>1, DirsKept DEF g
  <2>8. \A j \in Locs : j # l /\ (j[1] = Root \/ j[1] \in Held(vol.fat, d2)) => d2[j] = dir[j]
    BY <2>1, <2>3, <2>6
  <2>9. d2[l].name = DELETED
    BY <1>1, <1>3, <2>1, <2>3, DirStarts DEF Blank
  <2>10. Drops(vol, dir, sft, g, d2, l)
    BY <1>1, <1>3, <2>4, <2>7, <2>8, <2>9 DEF Drops
  <2>11. Ordered(g, d2)
    BY <2>10, Dropped
  <2> QED
    BY <1>2, <1>4, <2>11 DEF Tidy, g
<1>5. CASE dir' = dir /\ Fault(k > 0)
  <2>1. k \in Nat
    OBVIOUS
  <2> QED
    BY <1>2, <1>5, <2>1, WipedTidy
<1> QED
  BY <1>2, <1>4, <1>5

\* A directory one cluster larger: the entries it had, and those in the new cluster.
Longer(q, q2, m, x) ==
  /\ m \in Nat /\ DOMAIN q = 1..m /\ DOMAIN q2 = 1..m+DirEnts
  /\ \A j \in 1..m : q2[j] = q[j]
  /\ \A j \in 1..DirEnts : q2[m+j] = <<x, j-1>>

LEMMA LongerList ==
  ASSUME NEW f, NEW g, NEW e \in Clusters, Whole(f, e), Whole(g, e), NEW x, Lengthened(f, e, g, e),
         Len(Chain(g, e)) = Len(Chain(f, e)) + 1, Chain(g, e)[Len(Chain(f, e)) + 1] = x
  PROVE  Longer(InDir(f, e), InDir(g, e), Len(Chain(f, e)) * DirEnts, x)
<1> DEFINE c == Chain(f, e)
           c2 == Chain(g, e)
           n == Len(c)
           D == DirEnts
           q == InDir(f, e)
           q2 == InDir(g, e)
<1>1. n \in Nat /\ D \in Nat \ {0} /\ e # Root
  BY ChainFacts, Sizes, Numbers DEF Root, FREE
<1>2. q = [j \in 1..n*D |-> <<c[(j-1) \div D + 1], (j-1) % D>>]
  BY <1>1 DEF InDir
<1>3. q2 = [j \in 1..(n+1)*D |-> <<c2[(j-1) \div D + 1], (j-1) % D>>]
  BY <1>1 DEF InDir
<1>4. \A j \in 1..n : c2[j] = c[j]
  BY DEF Lengthened
<1>5. c2[n+1] = x
  OBVIOUS
<1> HIDE DEF c, c2, n, D, q, q2
<1>6. n*D \in Nat /\ (n+1)*D = n*D + D
  BY <1>1, Times
<1>7. ASSUME NEW j \in 1..n*D PROVE q2[j] = q[j]
  <2>1. (j-1) \div D + 1 \in 1..n
    BY <1>1, EntryPlace
  <2>2. j \in 1..(n+1)*D
    BY <1>1, <1>6
  <2> QED
    BY <1>2, <1>3, <1>4, <2>1, <2>2
<1>8. ASSUME NEW j \in 1..D PROVE q2[n*D+j] = <<x, j-1>>
  <2>1. j-1 \in 0..D-1 /\ n*D+j \in 1..(n+1)*D /\ (n*D+j) - 1 = n*D + (j-1)
    BY <1>1, <1>6
  <2>2. (n*D + (j-1)) \div D = n /\ ((n*D + (j-1)) % D) = j-1
    BY <1>1, <2>1, DivUnique
  <2> QED
    BY ONLY <1>3, <1>5, <2>1, <2>2
<1>9. DOMAIN q = 1..n*D /\ DOMAIN q2 = 1..n*D+D
  BY <1>2, <1>3, <1>6
<1> QED
  BY <1>6, <1>7, <1>8, <1>9 DEF Longer, c, n, D, q, q2

\* The directory is full, and the new entries were never used.
LEMMA LongerInOrder ==
  ASSUME NEW q, NEW q2, NEW m, NEW x, Longer(q, q2, m, x), NEW d, NEW d2, InOrder(q, d),
         \A j \in 1..m : d[q[j]].name # NeverUsed /\ d2[q[j]] = d[q[j]],
         \A j \in 1..DirEnts : d2[<<x, j-1>>].name = NeverUsed
  PROVE  InOrder(q2, d2)
<1> DEFINE D == DirEnts
<1>1. /\ m \in Nat /\ D \in Nat \ {0} /\ DOMAIN q = 1..m /\ DOMAIN q2 = 1..m+D
      /\ \A j \in 1..m : q2[j] = q[j]
      /\ \A j \in 1..D : q2[m+j] = <<x, j-1>>
  BY Sizes DEF Longer
<1>2. NeverUsed \notin Names
  BY NamesApart
<1>3. \A j \in 1..D : d2[<<x, j-1>>].name = NeverUsed
  OBVIOUS
<1> HIDE DEF D
<1>4. \A j \in 1..m : d2[q2[j]].name = d[q[j]].name /\ d2[q2[j]].name # NeverUsed
  BY <1>1
<1>5. ASSUME NEW j \in m+1..m+D PROVE d2[q2[j]].name = NeverUsed
  <2>1. j - m \in 1..D /\ m + (j - m) = j
    BY <1>1
  <2> DEFINE k == j - m
  <2>2. k \in 1..D /\ m + k = j
    BY <2>1
  <2> HIDE DEF k
  <2> QED
    BY ONLY <2>2, <1>1, <1>3
<1>6. \A j \in 1..m+D : j \in 1..m \/ j \in m+1..m+D
  BY <1>1
<1>7. \A j, k \in 1..m : j # k /\ d[q[j]].name \in Names => d[q[k]].name # d[q[j]].name
  BY <1>1 DEF InOrder
<1>8. ASSUME NEW j \in 1..m+D, NEW k \in 1..m+D, j # k, d2[q2[j]].name \in Names
      PROVE  d2[q2[k]].name # d2[q2[j]].name
  <2>1. j \in 1..m
    BY <1>2, <1>5, <1>6, <1>8
  <2>2. CASE k \in 1..m
    BY <1>4, <1>7, <1>8, <2>1, <2>2
  <2>3. CASE k \in m+1..m+D
    BY <1>4, <1>5, <2>1, <2>3
  <2> QED
    BY <1>6, <2>2, <2>3
<1>9. ASSUME NEW j \in 1..m+D, NEW k \in 1..m+D, j < k, d2[q2[j]].name = NeverUsed
      PROVE  d2[q2[k]].name = NeverUsed
  <2>1. j \notin 1..m
    BY <1>4, <1>9
  <2>2. k \in m+1..m+D
    BY <1>1, <1>9, <2>1
  <2> QED
    BY <1>5, <2>2
<1> QED
  BY <1>1, <1>8, <1>9 DEF InOrder

\* What the entries of d are when it is one cluster larger.
LEMMA GrownList ==
  ASSUME Sound(vol, dir, sft), NEW d \in Dirs, Unused(d) = {}, NEW k, NEW x, GrownDir(d, k, x)
  PROVE  /\ d \in Starts(dir) /\ d # Root /\ x \in Clusters
         /\ \E m : /\ Longer(InDir(vol.fat, d), InDir(Vol(d).fat, d), m, x)
                   /\ DirList(vol.fat, d, InDir(vol.fat, d), m)
         /\ \A j \in Locs : Cleared(d)[j] = IF j[1] = x THEN Blank(NeverUsed) ELSE dir[j]
         /\ Dir(Cleared(d)) = Dir(dir) /\ \A a \in Dir(dir) : Cleared(d)[a] = dir[a]
         /\ \A j \in DOMAIN InDir(vol.fat, d) :
              /\ InDir(vol.fat, d)[j] \in Locs /\ InDir(vol.fat, d)[j][1] # x
              /\ dir[InDir(vol.fat, d)[j]].name \notin {NeverUsed, DELETED}
         /\ \A j \in 1..DirEnts : Cleared(d)[<<x, j-1>>].name = NeverUsed
         /\ \A e \in Starts(dir) : x \notin Part(vol.fat, e)
<1> DEFINE f == vol.fat
           g == Vol(d).fat
           c == Cleared(d)
           q == InDir(f, d)
<1>1. /\ k \in Dir(dir) /\ dir[k].start = d /\ d \in Clusters
      /\ x \in Clusters /\ f[x] = FREE /\ Whole(f, d) /\ Whole(g, d) /\ Lengthened(f, d, g, d)
      /\ Len(Chain(g, d)) = Len(Chain(f, d)) + 1 /\ Chain(g, d)[Len(Chain(f, d)) + 1] = x
      /\ c = Filled(dir, {x}, NeverUsed)
  BY DEF GrownDir
<1>2. dir \in DirOf /\ DirsOK(dir)
  BY SoundFacts
<1>3. /\ x # Root /\ x \notin Held(f, dir)
      /\ \A j \in Locs : j[1] = x => dir[j] = Blank(Junk) /\ j \notin Files(dir) /\ At(sft, j) = {}
  <2>1. x \in Clusters /\ vol.fat[x] = FREE
    BY <1>1
  <2> QED
    BY <2>1, FreshJunk, Zenon
<1>4. /\ Files(c) = Files(dir) /\ Dir(c) = Dir(dir)
      /\ \A j \in Locs : c[j] = IF j[1] = x THEN Blank(NeverUsed) ELSE dir[j]
      /\ \A j \in Files(dir) : c[j] = dir[j] /\ j[1] # x
  BY <1>1, <1>2, <1>3, ClearedIs
<1>5. d \in Starts(dir) /\ d # Root
  BY <1>1, Numbers DEF Starts, Root, FREE
<1>6. \A e \in Starts(dir) : x \notin Part(f, e)
  BY <1>3, StartsAre
<1>7. Longer(q, InDir(g, d), Len(Chain(f, d)) * DirEnts, x)
  <2> HIDE DEF f, g, c
  <2> QED
    BY <1>1, LongerList
<1>8. DirList(f, d, q, Len(Chain(f, d)) * DirEnts)
  <2>1. IsDir(f, d)
    BY <1>1 DEF IsDir
  <2> QED
    BY <1>5, <2>1, InDirIs
<1>9. ASSUME NEW j \in DOMAIN q
      PROVE  q[j] \in Locs /\ q[j][1] # x /\ dir[q[j]].name \notin {NeverUsed, DELETED}
  <2>1. q[j] \in Locs /\ q[j][1] \in Part(f, d)
    BY <1>8 DEF DirList
  <2>2. dir[q[j]].name \notin {NeverUsed, DELETED}
    BY DEF Unused
  <2> QED
    BY <1>5, <1>6, <2>1, <2>2
<1>10. ASSUME NEW j \in 1..DirEnts PROVE c[<<x, j-1>>].name = NeverUsed
  <2> DEFINE l == <<x, j-1>>
  <2>1. j-1 \in 0..DirEnts-1
    BY Sizes
  <2>2. l \in Locs /\ l[1] = x
    BY <1>1, <2>1 DEF Locs
  <2>3. Blank(NeverUsed).name = NeverUsed
    BY DEF Blank
  <2> HIDE DEF l, c
  <2>4. c[l].name = NeverUsed
    BY <1>4, <2>2, <2>3
  <2> QED
    BY <2>4 DEF l
<1>11. \A a \in Dir(dir) : c[a] = dir[a]
  BY <1>4 DEF Dir
<1> HIDE DEF f, g, c, q
<1> QED
  BY <1>1, <1>4, <1>5, <1>6, <1>7, <1>8, <1>9, <1>10, <1>11 DEF f, g, c, q

\* Names in a directory that grew, and in the others.
LEMMA GrownTidy ==
  ASSUME Neat, NEW d \in Dirs, Unused(d) = {}, NEW k, NEW x, GrownDir(d, k, x)
  PROVE  Ordered(Vol(d).fat, Cleared(d)) /\ Starts(Cleared(d)) = Starts(dir)
<1> DEFINE f == vol.fat
           g == Vol(d).fat
           c == Cleared(d)
<1>1. Sound(vol, dir, sft) /\ Ordered(f, dir)
  BY DEF Neat, Now
<1>2. /\ d \in Starts(dir) /\ d # Root /\ x \in Clusters
      /\ \E m : /\ Longer(InDir(f, d), InDir(g, d), m, x)
                /\ DirList(f, d, InDir(f, d), m)
      /\ \A j \in Locs : c[j] = IF j[1] = x THEN Blank(NeverUsed) ELSE dir[j]
      /\ Dir(c) = Dir(dir) /\ \A a \in Dir(dir) : c[a] = dir[a]
      /\ \A j \in DOMAIN InDir(f, d) :
           /\ InDir(f, d)[j] \in Locs /\ InDir(f, d)[j][1] # x
           /\ dir[InDir(f, d)[j]].name \notin {NeverUsed, DELETED}
      /\ \A j \in 1..DirEnts : c[<<x, j-1>>].name = NeverUsed
      /\ \A e \in Starts(dir) : x \notin Part(f, e)
  BY <1>1, GrownList
<1>3. Kept(f, dir, sft, g, c, sft, k) /\ k \in Dir(dir) /\ dir[k].start = d
  BY ZenonT(30), <1>1, GrownOK DEF GrownDir
<1> HIDE DEF f, g, c
<1>4. Starts(c) = Starts(dir)
  BY <1>2 DEF Starts
<1>5. ASSUME NEW e \in Starts(dir), e # d PROVE InOrder(InDir(g, e), c)
  <2>1. InOrder(InDir(f, e), dir)
    BY <1>1 DEF Ordered
  <2>2. InDir(g, e) = InDir(f, e)
    <3>1. CASE e = Root
      BY <3>1 DEF InDir
    <3>2. CASE e # Root
      <4>1. PICK a \in Dir(dir) : dir[a].start = e
        BY <3>2 DEF Starts
      <4>2. a # k /\ a \in Files(dir) /\ St(dir, sft)[a] = e
        BY <1>1, <1>3, <1>5, <4>1, SoundFacts, DirClosed
      <4>3. Chain(g, e) = Chain(f, e)
        BY <1>3, <4>2 DEF Kept
      <4> QED
        BY <3>2, <4>3 DEF InDir
    <3> QED
      BY <3>1, <3>2
  <2>3. PICK m : DirList(f, e, InDir(f, e), m)
    <3>1. IsDir(f, e)
      BY <1>1, StartsAre DEF f
    <3> QED
      BY <3>1, InDirIs
  <2>4. \A j \in Locs : j[1] \in Part(f, e) => c[j].name = dir[j].name
    BY <1>2
  <2>5. InOrder(InDir(f, e), c)
    BY <2>1, <2>3, <2>4, InOrderSame
  <2> QED
    BY <2>2, <2>5
<1>6. InOrder(InDir(g, d), c)
  <2>1. PICK m : Longer(InDir(f, d), InDir(g, d), m, x)
    BY <1>2
  <2> DEFINE q == InDir(f, d)
             q2 == InDir(g, d)
  <2>2. DOMAIN q = 1..m
    BY <2>1 DEF Longer
  <2>3. InOrder(q, dir)
    BY <1>1, <1>2 DEF Ordered
  <2>4. \A j \in 1..m : dir[q[j]].name # NeverUsed /\ c[q[j]] = dir[q[j]]
    BY <1>2, <2>2
  <2>5. Longer(q, q2, m, x)
    BY <2>1
  <2> HIDE DEF q, q2
  <2>6. InOrder(q2, c)
    BY <1>2, <2>3, <2>4, <2>5, LongerInOrder
  <2> QED
    BY <2>6 DEF q2
<1>7. Ordered(g, c)
  BY <1>4, <1>5, <1>6 DEF Ordered
<1> QED
  BY <1>4, <1>7 DEF g, c

LEMMA GrownOnlyTidy ==
  ASSUME Neat, NEW d \in Dirs, GrownOnly(d)
  PROVE  Tidy
<1>1. /\ Grows(d) /\ Free(vol.fat) # {}
      /\ \/ vol' = Taken(vol) /\ dir' = dir
         \/ Fault(TRUE)
         \/ vol' = Vol(d) /\ dir' = Cleared(d)
  BY DEF GrownOnly
<1>2. Sound(vol, dir, sft) /\ Unused(d) = {}
  BY <1>1 DEF Neat, Now, Grows
<1>3. PICK k, x : GrownDir(d, k, x)
  BY <1>1, <1>2, LargerOK
<1>4. Ordered(Vol(d).fat, Cleared(d))
  BY <1>2, <1>3, GrownTidy
<1>5. CASE vol' = Taken(vol) /\ dir' = dir
  BY <1>5, LeakTidy
<1>6. CASE vol' = Vol(d) /\ dir' = Cleared(d)
  BY <1>4, <1>6 DEF Tidy
<1> QED
  BY <1>1, <1>5, <1>6 DEF Tidy

LEMMA DiskFullTidy ==
  ASSUME Neat, DiskFull
  PROVE  Tidy
<1>1. vol' = Taken(vol) /\ dir' = dir
  BY DEF DiskFull
<1> QED
  BY <1>1, LeakTidy

\* Where a new entry is written, in the directory d whose entries are q and names c.
FreshPlace(q, c, n, d) ==
  /\ \A j, k \in DOMAIN q : q[j] = n /\ k < j => c[q[k]].name # NeverUsed
  /\ \A name \in Names : find_fname(d, name) = {} => \A j \in DOMAIN q : c[q[j]].name # name

\* No entry has a name that find_fname does not find.
LEMMA NotThere ==
  ASSUME NEW d, NEW m, NEW q, q = InDir(vol.fat, d), DOMAIN q = 1..m, NEW name, find_fname(d, name) = {}
  PROVE  \A j \in DOMAIN q : dir[q[j]].name # name
<1>1. \A j \in DOMAIN q : q[j] \in ToSet(q)
  BY DEF ToSet
<1>2. \A y \in ToSet(q) : dir[y].name # name
  BY DEF find_fname
<1> QED
  BY <1>1, <1>2

LEMMA RoomTidy ==
  ASSUME Neat, NEW d \in Dirs, HasRoom(d)
  PROVE  /\ Ordered(Vol(d).fat, Cleared(d)) /\ d \in Starts(Cleared(d))
         /\ NewIn(d)[1] \in Part(Vol(d).fat, d)
         /\ FreshPlace(InDir(Vol(d).fat, d), Cleared(d), NewIn(d), d)
<1>1. Sound(vol, dir, sft) /\ Ordered(vol.fat, dir)
  BY DEF Neat, Now
<1>2. NeverUsed \notin Names
  BY NamesApart
<1>3. CASE ~Grows(d)
  <2>1. Vol(d) = vol /\ Cleared(d) = dir /\ NewIn(d) = find_free(d) /\ Unused(d) # {}
    BY <1>3 DEF Vol, Cleared, NewIn, HasRoom, Grows
  <2> DEFINE n == find_free(d)
             q == InDir(vol.fat, d)
  <2>2. /\ n[1] \in Part(vol.fat, d)
        /\ \E j \in DOMAIN q : /\ q[j] = n
              /\ \A k \in DOMAIN q : k < j => dir[q[k]].name \notin {NeverUsed, DELETED}
    BY <1>1, <2>1, FreeEntry
  <2>3. d \in Starts(dir)
    BY DEF Dirs, Starts, Dir, Live, Files
  <2>4. PICK m : DirList(vol.fat, d, q, m)
    <3>1. IsDir(vol.fat, d)
      BY <1>1, DirsAre
    <3> QED
      BY <3>1, InDirIs
  <2>5. ASSUME NEW name \in Names, find_fname(d, name) = {} PROVE \A j \in DOMAIN q : dir[q[j]].name # name
    <3>1. DOMAIN q = 1..m /\ q = InDir(vol.fat, d)
      BY <2>4 DEF DirList
    <3> HIDE DEF q
    <3> QED
      BY <2>5, <3>1, NotThere
  <2> HIDE DEF n, q
  <2>6. \A j, k \in DOMAIN q : q[j] = q[k] => j = k
    BY <2>4 DEF DirList
  <2>7. FreshPlace(q, dir, n, d)
    BY <2>2, <2>5, <2>6 DEF FreshPlace
  <2> QED
    BY <1>1, <2>1, <2>2, <2>3, <2>7 DEF n, q
<1>4. CASE Grows(d)
  <2>1. Unused(d) = {} /\ Free(vol.fat) # {}
    BY <1>4 DEF HasRoom, Grows
  <2>2. PICK k, x : GrownDir(d, k, x)
    BY <1>1, <1>4, <2>1, LargerOK
  <2>3. Ordered(Vol(d).fat, Cleared(d)) /\ Starts(Cleared(d)) = Starts(dir)
    BY <2>1, <2>2, GrownTidy
  <2> DEFINE f == vol.fat
             g == Vol(d).fat
             c == Cleared(d)
             q == InDir(f, d)
             q2 == InDir(g, d)
             n == <<x, 0>>
  <2>4. /\ d \in Starts(dir) /\ d # Root /\ x \in Clusters
        /\ \E m : Longer(q, q2, m, x) /\ DirList(f, d, q, m)
        /\ \A j \in Locs : c[j] = IF j[1] = x THEN Blank(NeverUsed) ELSE dir[j]
        /\ \A j \in DOMAIN q : /\ q[j] \in Locs /\ q[j][1] # x
                               /\ dir[q[j]].name \notin {NeverUsed, DELETED}
        /\ \A j \in 1..DirEnts : c[<<x, j-1>>].name = NeverUsed
    BY <1>1, <2>1, <2>2, GrownList
  <2>5. PICK m : Longer(q, q2, m, x) /\ DirList(f, d, q, m)
    BY <2>4
  <2>6. NewIn(d) = n /\ x \in ToSet(Chain(g, d))
    BY <2>2 DEF GrownDir
  <2>7. n[1] \in Part(g, d)
    BY <2>4, <2>6 DEF Part
  <2> DEFINE D == DirEnts
  <2>8. /\ m \in Nat /\ D \in Nat \ {0} /\ DOMAIN q = 1..m /\ DOMAIN q2 = 1..m+D
        /\ \A j \in 1..m : q2[j] = q[j]
        /\ \A j \in 1..D : q2[m+j] = <<x, j-1>>
    BY <2>5, Sizes DEF Longer
  <2>9. \A j \in 1..D : c[<<x, j-1>>].name = NeverUsed
    BY <2>4
  <2>10. ASSUME NEW name \in Names, find_fname(d, name) = {} PROVE \A j \in DOMAIN q : dir[q[j]].name # name
    <3>1. DOMAIN q = 1..m /\ q = InDir(vol.fat, d)
      BY <2>8
    <3> HIDE DEF q
    <3> QED
      BY <2>10, <3>1, NotThere
  <2>11. \A j \in 1..m : q[j][1] # x /\ c[q[j]] = dir[q[j]] /\ dir[q[j]].name # NeverUsed
    BY <2>4, <2>8
  <2>12. n[1] = x /\ \A j \in 1..D : <<x, j-1>>[2] = j-1 /\ n[2] = 0
    OBVIOUS
  <2> HIDE DEF f, g, c, q, q2, n, D
  <2>13. \A j \in 1..m+D : j \in 1..m \/ \E a \in 1..D : j = m + a
    <3> SUFFICES ASSUME NEW j \in 1..m+D, j \notin 1..m PROVE \E a \in 1..D : j = m + a
      OBVIOUS
    <3>1. j - m \in 1..D /\ j = m + (j - m)
      BY <2>8
    <3> QED
      BY <3>1
  <2>14. ASSUME NEW j \in 1..m+D, NEW b \in 1..m+D, q2[j] = n, b < j PROVE c[q2[b]].name # NeverUsed
    <3>1. j \notin 1..m
      BY <2>8, <2>11, <2>12, <2>14
    <3>2. PICK a \in 1..D : j = m + a
      BY <2>13, <3>1
    <3>3. <<x, a-1>> = n
      BY <2>8, <2>14, <3>2
    <3>4. a - 1 = 0
      BY <2>12, <3>3
    <3>5. b \in 1..m
      BY <2>8, <2>14, <3>2, <3>4
    <3> QED
      BY <2>8, <2>11, <3>5
  <2>15. ASSUME NEW name \in Names, find_fname(d, name) = {}, NEW j \in 1..m+D PROVE c[q2[j]].name # name
    <3>1. CASE j \in 1..m
      BY <2>8, <2>10, <2>11, <2>15, <3>1
    <3>2. CASE j \notin 1..m
      <4>1. PICK a \in 1..D : j = m + a
        BY <2>13, <3>2
      <4>2. c[q2[j]].name = NeverUsed
        BY <2>8, <2>9, <4>1
      <4> QED
        BY <1>2, <4>2
    <3> QED
      BY <3>1, <3>2
  <2>16. FreshPlace(q2, c, n, d)
    BY <2>8, <2>14, <2>15 DEF FreshPlace
  <2> QED
    BY <2>3, <2>4, <2>6, <2>7, <2>16 DEF g, c, q2, n
<1> QED
  BY <1>3, <1>4

\* The entry n of the directory e, d2 otherwise the same as c, gets a name not in it.
Enters(w, c, s, d2, n, e, name) ==
  /\ Sound(w, c, s) /\ Ordered(w.fat, c) /\ e \in Starts(c) /\ Dir(d2) = Dir(c)
  /\ n \in Locs /\ n[1] \in Part(w.fat, e) /\ name \in Names /\ d2[n].name = name
  /\ \A j \in Locs : j # n => d2[j] = c[j]
  /\ \A k \in Dir(c) : d2[k].start = c[k].start
  /\ \A j, k \in DOMAIN InDir(w.fat, e) : InDir(w.fat, e)[j] = n /\ k < j => c[InDir(w.fat, e)[k]].name # NeverUsed
  /\ \A j \in DOMAIN InDir(w.fat, e) : c[InDir(w.fat, e)[j]].name # name

LEMMA Entered ==
  ASSUME NEW w, NEW c, NEW s, NEW d2, NEW n, NEW e, NEW name, Enters(w, c, s, d2, n, e, name)
  PROVE  Ordered(w.fat, d2)
<1> DEFINE q == InDir(w.fat, e)
           f == w.fat
<1>1. /\ Sound(w, c, s) /\ Ordered(f, c) /\ e \in Starts(c) /\ Dir(d2) = Dir(c)
      /\ n \in Locs /\ n[1] \in Part(f, e) /\ name \in Names /\ d2[n].name = name
      /\ \A j \in Locs : j # n => d2[j] = c[j]
      /\ \A k \in Dir(c) : d2[k].start = c[k].start
      /\ \A j, k \in DOMAIN q : q[j] = n /\ k < j => c[q[k]].name # NeverUsed
      /\ \A j \in DOMAIN q : c[q[j]].name # name
  BY DEF Enters
<1>2. name # NeverUsed
  BY <1>1, NamesApart
<1>3. Starts(d2) = Starts(c)
  BY <1>1 DEF Starts
<1>4. ChainsStay(f, d2, f)
  BY DEF ChainsStay
<1>5. ASSUME NEW m, DirList(f, e, q, m) PROVE NewName(q, m, c, d2, n)
  <2>1. DOMAIN q = 1..m
    BY <1>5 DEF DirList
  <2> HIDE DEF q
  <2> QED
    BY <1>1, <1>2, <2>1 DEF NewName
<1>6. \A b \in Starts(d2) : \A j \in Locs : j[1] \in Part(f, b) /\ j # n => d2[j].name = c[j].name
  BY <1>1
<1> HIDE DEF f
<1>7. OneName(w, c, s, f, d2, n, e)
  BY <1>1, <1>3, <1>4, <1>5, <1>6 DEF OneName, f
<1>8. Ordered(f, d2)
  BY <1>7, NameChanged
<1> QED
  BY <1>8 DEF f

LEMMA CreateTidy ==
  ASSUME Neat, NEW i \in Sfts, NEW d \in Dirs, NEW name \in Names, dos_create(i, d, name)
  PROVE  Tidy
<1>1. /\ find_fname(d, name) = {}
      /\ \/ /\ HasRoom(d) /\ vol' = Vol(d)
            /\ dir' = [Cleared(d) EXCEPT ![NewIn(d)] = Entry(name, FREE, 0)]
         \/ GrownOnly(d)
         \/ DiskFull
  BY DEF dos_create
<1>2. CASE /\ HasRoom(d) /\ vol' = Vol(d)
           /\ dir' = [Cleared(d) EXCEPT ![NewIn(d)] = Entry(name, FREE, 0)]
  <2> DEFINE n == NewIn(d)
             w == Vol(d)
             c == Cleared(d)
             d2 == [c EXCEPT ![n] = Entry(name, FREE, 0)]
  <2>1. Sound(w, c, sft) /\ n \in Locs /\ c[n].name \in {NeverUsed, DELETED}
    BY <1>2, RoomOK DEF Neat, Now
  <2>2. Ordered(w.fat, c) /\ d \in Starts(c) /\ n[1] \in Part(w.fat, d) /\ FreshPlace(InDir(w.fat, d), c, n, d)
    BY <1>2, RoomTidy
  <2>3. vol' = w /\ dir' = d2
    BY <1>2
  <2> HIDE DEF n, w, c
  <2>4. c \in [Locs -> Entries] /\ n \notin Dir(c) /\ n \notin Files(c)
    BY <2>1, SoundFacts, UnusedIs DEF DirOf, Dir
  <2>5. /\ \A j \in Locs : j # n => d2[j] = c[j]
        /\ d2[n].name = name /\ d2[n].isdir = FALSE
    BY <2>1, <2>4 DEF Entry
  <2> HIDE DEF d2
  <2>6. Dir(d2) = Dir(c) /\ \A k \in Dir(c) : d2[k].start = c[k].start
    BY <2>4, <2>5 DEF Dir, Files
  <2>7. Enters(w, c, sft, d2, n, d, name)
    BY <1>1, <2>1, <2>2, <2>5, <2>6 DEF Enters, FreshPlace
  <2>8. Ordered(w.fat, d2)
    BY <2>7, Entered
  <2> QED
    BY <2>3, <2>8 DEF Tidy
<1> QED
  BY <1>1, <1>2, GrownOnlyTidy, DiskFullTidy

\* An entry of a directory is in its part of the volume.
LEMMA InPart ==
  ASSUME Sound(vol, dir, sft), NEW d \in Dirs, NEW l \in Locs
  PROVE  l \in ToSet(InDir(vol.fat, d)) <=> l[1] \in Part(vol.fat, d)
<1> DEFINE q == InDir(vol.fat, d)
<1>1. PICK m : DirList(vol.fat, d, q, m)
  <2>1. IsDir(vol.fat, d)
    BY DirsAre
  <2> QED
    BY <2>1, InDirIs
<1> HIDE DEF q
<1>2. l \in ToSet(q) <=> \E j \in 1..m : q[j] = l
  BY <1>1 DEF DirList, ToSet
<1>3. l \in ToSet(q) <=> l[1] \in Part(vol.fat, d)
  BY <1>1, <1>2 DEF DirList
<1> QED
  BY <1>3 DEF q

\* A new name in the same directory.
LEMMA RenamedTidy ==
  ASSUME Neat, NEW l \in Files(dir), At(sft, l) = {}, NEW d \in Dirs, NEW name \in Names, find_fname(d, name) = {},
         l \in ToSet(InDir(vol.fat, d))
  PROVE  Ordered(vol.fat, [dir EXCEPT ![l].name = name])
<1> DEFINE d2 == [dir EXCEPT ![l].name = name]
<1>1. Sound(vol, dir, sft) /\ Ordered(vol.fat, dir)
  BY DEF Neat, Now
<1>2. /\ Files(d2) = Files(dir) /\ Dir(d2) = Dir(dir)
      /\ \A j \in Locs : j # l => d2[j] = dir[j]
      /\ d2[l].name = name /\ d2[l].start = dir[l].start
  <2>1. dir \in [Locs -> Entries] /\ l \in Locs /\ dir[l].name \in Names
    BY <1>1, SoundFacts DEF DirOf, Files
  <2>2. dir[l] \in Entries
    BY <2>1
  <2>3. d2[l] = [dir[l] EXCEPT !.name = name] /\ \A j \in Locs : j # l => d2[j] = dir[j]
    BY <2>1
  <2>4. d2[l].name = name /\ d2[l].start = dir[l].start /\ d2[l].isdir = dir[l].isdir
    BY <2>2, <2>3 DEF Entries
  <2> HIDE DEF d2
  <2>5. \A j \in Locs : (j \in Files(d2) <=> j \in Files(dir)) /\ (j \in Dir(d2) <=> j \in Dir(dir))
    BY <2>1, <2>3, <2>4 DEF Files, Dir
  <2>6. Files(d2) \subseteq Locs /\ Files(dir) \subseteq Locs /\ Dir(d2) \subseteq Locs /\ Dir(dir) \subseteq Locs
    BY DEF Files, Dir
  <2> QED
    BY <2>3, <2>4, <2>5, <2>6
<1> HIDE DEF d2
<1>3. l \in Locs /\ dir[l].name \in Names /\ dir[l].name # NeverUsed
  BY NamesApart DEF Files
<1>4. l[1] \in Part(vol.fat, d) /\ d \in Starts(dir)
  BY <1>1, <1>3, InPart DEF Dirs, Starts, Dir, Live, Files
<1> DEFINE q == InDir(vol.fat, d)
<1>5. PICK m : DirList(vol.fat, d, q, m)
  <2>1. IsDir(vol.fat, d)
    BY <1>1, DirsAre
  <2> QED
    BY <2>1, InDirIs
<1>6. \A j \in DOMAIN q : dir[q[j]].name # name
  <2>1. DOMAIN q = 1..m /\ q = InDir(vol.fat, d)
    BY <1>5 DEF DirList
  <2> HIDE DEF q
  <2> QED
    BY <2>1, NotThere
<1>7. ASSUME NEW m2, DirList(vol.fat, d, q, m2) PROVE NewName(q, m2, dir, d2, l)
  <2>1. DOMAIN q = 1..m2
    BY <1>7 DEF DirList
  <2>2. name # NeverUsed
    BY NamesApart
  <2> HIDE DEF q
  <2> QED
    BY <1>2, <1>3, <1>6, <2>1, <2>2 DEF NewName
<1> DEFINE f == vol.fat
<1>8. ChainsStay(f, d2, f)
  BY DEF ChainsStay
<1>9. Starts(d2) = Starts(dir)
  BY <1>2 DEF Starts, Dir, Files
<1>10. \A b \in Starts(d2) : \A j \in Locs : j[1] \in Part(f, b) /\ j # l => d2[j].name = dir[j].name
  BY <1>2
<1> HIDE DEF f
<1>11. OneName(vol, dir, sft, f, d2, l, d)
  BY <1>1, <1>3, <1>4, <1>7, <1>8, <1>9, <1>10 DEF OneName, f
<1>12. Ordered(f, d2)
  BY <1>11, NameChanged
<1> QED
  BY <1>12 DEF f, d2

\* The old entry is gone.
Without(c, l) == [c EXCEPT ![l] = Blank(DELETED)]

Leaves(w, c, s, l) ==
  Sound(w, c, s) /\ Ordered(w.fat, c) /\ l \in Files(c) /\ ~c[l].isdir /\ At(s, l) = {}

LEMMA Left ==
  ASSUME NEW w, NEW c, NEW s, NEW l, Leaves(w, c, s, l)
  PROVE  /\ Ordered(w.fat, Without(c, l)) /\ Sound(w, Without(c, l), s) /\ Dir(Without(c, l)) = Dir(c)
         /\ \A j \in Locs : j # l => Without(c, l)[j] = c[j]
         /\ Without(c, l)[l].name = DELETED
<1> DEFINE d3 == [c EXCEPT ![l] = Blank(DELETED)]
<1>1. Sound(w, c, s) /\ Ordered(w.fat, c) /\ l \in Files(c) /\ ~c[l].isdir /\ At(s, l) = {}
  BY DEF Leaves
<1>2. w \in VolOf /\ c \in DirOf
  BY <1>1, SoundFacts
<1>3. Sound(w, d3, s) /\ Dir(d3) = Dir(c)
  <2> DEFINE k == Len(Chain(w.fat, c[l].start))
  <2>1. 0 \in 0..k
    BY <1>1, IdleFile, ChainFacts
  <2> DEFINE u == Wiped(w, FirstOf(w.fat, c[l].start, 0))
  <2>2. Sound(u, d3, s) /\ Dir(d3) = Dir(c)
    BY <1>1, <2>1, DeletedOK
  <2>3. u = w
    BY <1>2, WipedNone
  <2> HIDE DEF u
  <2> QED
    BY <2>2, <2>3
<1>4. /\ \A j \in Locs : j # l => d3[j] = c[j]
      /\ d3[l].name = DELETED
  BY <1>1, <1>2 DEF DirOf, Files, Blank
<1> HIDE DEF d3
<1> DEFINE f == w.fat
<1>5. ChainsStay(f, d3, f)
  BY DEF ChainsStay
<1>6. \A k \in Dir(d3) : k \in Dir(c) /\ k # l
  BY <1>1, <1>3 DEF Dir
<1> HIDE DEF f
<1>7. Drops(w, c, s, f, d3, l)
  BY <1>1, <1>4, <1>5, <1>6 DEF Drops, f
<1>8. Ordered(f, d3)
  BY <1>7, Dropped
<1> QED
  BY <1>3, <1>4, <1>8 DEF f, d3, Without

LEMMA RenameTidy ==
  ASSUME Neat, NEW l \in Locs, NEW d \in Dirs, NEW name \in Names, dos_rename(l, d, name)
  PROVE  Tidy
<1>1. /\ l \in Files(dir) /\ At(sft, l) = {} /\ find_fname(d, name) = {}
      /\ \/ l \in ToSet(InDir(vol.fat, d)) /\ dir' = [dir EXCEPT ![l].name = name] /\ vol' = vol
         \/ /\ l \notin ToSet(InDir(vol.fat, d)) /\ ~dir[l].isdir /\ HasRoom(d) /\ vol' = Vol(d)
            /\ \/ dir' = [Cleared(d) EXCEPT ![l] = Blank(DELETED), ![NewIn(d)] = [dir[l] EXCEPT !.name = name]]
               \/ dir' = [Cleared(d) EXCEPT ![l] = Blank(DELETED)]
         \/ GrownOnly(d)
         \/ DiskFull
  BY DEF dos_rename, Live, Files, Idle, OpenAt, At
<1>2. Sound(vol, dir, sft)
  BY DEF Neat, Now
<1>3. CASE l \in ToSet(InDir(vol.fat, d)) /\ dir' = [dir EXCEPT ![l].name = name] /\ vol' = vol
  <2> DEFINE d2 == [dir EXCEPT ![l].name = name]
  <2>1. Ordered(vol.fat, d2)
    BY <1>1, <1>3, RenamedTidy
  <2> HIDE DEF d2
  <2>2. dir' = d2 /\ vol' = vol
    BY <1>3 DEF d2
  <2> QED
    BY <2>1, <2>2 DEF Tidy
<1>4. CASE /\ l \notin ToSet(InDir(vol.fat, d)) /\ ~dir[l].isdir /\ HasRoom(d) /\ vol' = Vol(d)
           /\ \/ dir' = [Cleared(d) EXCEPT ![l] = Blank(DELETED), ![NewIn(d)] = [dir[l] EXCEPT !.name = name]]
              \/ dir' = [Cleared(d) EXCEPT ![l] = Blank(DELETED)]
  <2> DEFINE n == NewIn(d)
             w == Vol(d)
             c == Cleared(d)
             b == [dir[l] EXCEPT !.name = name]
             d3 == Without(c, l)
             d2 == [d3 EXCEPT ![n] = b]
             q == InDir(w.fat, d)
  <2>1. Sound(w, c, sft) /\ n \in Locs /\ c[n].name \in {NeverUsed, DELETED}
    BY <1>2, <1>4, RoomOK
  <2>2. c[l] = dir[l] /\ Files(c) = Files(dir)
    BY <1>1, <1>2, <1>4, RoomOK
  <2>3. /\ Ordered(w.fat, c) /\ d \in Starts(c) /\ n[1] \in Part(w.fat, d) /\ FreshPlace(q, c, n, d)
    BY <1>4, RoomTidy
  <2>4. (dir' = d2 \/ dir' = d3) /\ vol' = w
    BY <1>4 DEF Without
  <2>5. b.name = name /\ b.isdir = FALSE
    <3>1. dir[l] \in Entries /\ ~dir[l].isdir
      BY <1>2, <1>4, SoundFacts DEF DirOf
    <3> QED
      BY <3>1 DEF Entries
  <2> HIDE DEF n, w, c, b
  <2>6. Leaves(w, c, sft, l)
    BY <1>1, <1>4, <2>1, <2>2, <2>3 DEF Leaves
  <2>7. n # l
    BY <1>1, <2>1, <2>2, NamesApart DEF Files
  <2>8. c \in [Locs -> Entries]
    BY <2>1, SoundFacts DEF DirOf
  <2>9. \A j \in Locs : j # n => d2[j] = d3[j]
    BY <2>8 DEF Without
  <2>10. d2[n] = b
    BY <2>1, <2>8 DEF Without
  <2> HIDE DEF d3, d2
  <2>11. /\ Ordered(w.fat, d3) /\ Sound(w, d3, sft) /\ Dir(d3) = Dir(c)
         /\ \A j \in Locs : j # l => d3[j] = c[j]
         /\ d3[l].name = DELETED
    BY <2>6, Left DEF d3
  <2>12. DELETED # NeverUsed /\ DELETED \notin Names
    BY NamesApart
  <2>13. d \in Starts(d3)
    <3>1. \A k \in Dir(c) : k # l /\ k \in Locs
      BY <1>4, <2>2 DEF Dir, Files
    <3>2. \A k \in Dir(c) : d3[k] = c[k]
      BY <3>1, <2>11
    <3>3. Starts(d3) = Starts(c)
      BY <2>11, <3>2 DEF Starts
    <3> QED
      BY <2>3, <3>3
  <2>14. PICK m : DirList(w.fat, d, q, m)
    <3>1. IsDir(w.fat, d)
      BY <2>11, <2>13, StartsAre
    <3> QED
      BY <3>1, InDirIs
  <2> HIDE DEF q
  <2>15. DOMAIN q = 1..m /\ \A j \in DOMAIN q : q[j] \in Locs
    BY <2>14 DEF DirList
  <2>16. \A j, k \in DOMAIN q : q[j] = n /\ k < j => d3[q[k]].name # NeverUsed
    BY <2>3, <2>11, <2>12, <2>15 DEF FreshPlace
  <2>17. \A j \in DOMAIN q : d3[q[j]].name # name
    BY <1>1, <2>3, <2>11, <2>12, <2>15 DEF FreshPlace
  <2>18. d3[n].name \in {NeverUsed, DELETED}
    BY <2>1, <2>7, <2>11
  <2>19. n \notin Dir(d3)
    BY <2>1, <2>11, <2>18, UnusedIs DEF Dir
  <2>20. Dir(d2) = Dir(d3) /\ \A k \in Dir(d3) : d2[k].start = d3[k].start
    BY <2>5, <2>9, <2>10, <2>19 DEF Dir, Files
  <2>21. Enters(w, d3, sft, d2, n, d, name)
    BY <2>1, <2>3, <2>5, <2>9, <2>10, <2>11, <2>13, <2>16, <2>17, <2>20 DEF Enters, q
  <2>22. Ordered(w.fat, d2)
    BY <2>21, Entered
  <2> QED
    BY <2>4, <2>11, <2>22 DEF Tidy
<1> QED
  BY <1>1, <1>3, <1>4, GrownOnlyTidy, DiskFullTidy

\* Entries that were never used are in order.
LEMMA UnusedInOrder ==
  ASSUME NEW q, NEW d, \A j \in DOMAIN q : d[q[j]].name = NeverUsed
  PROVE  InOrder(q, d)
BY NamesApart DEF InOrder

LEMMA MkdirTidy ==
  ASSUME Neat, NEW name \in Names, dos_mkdir(name)
  PROVE  Tidy
<1> DEFINE x == find_fat_free(vol)
           n == find_free(Root)
           d2 == [Filled(dir, {x}, NeverUsed) EXCEPT ![n] = MkdirEntry(name, x)]
<1>1. /\ Unused(Root) # {} /\ find_fname(Root, name) = {}
      /\ \/ Free(vol.fat) # {} /\ vol' = Taken(vol) /\ dir' = d2
         \/ vol' = Taken(vol) /\ dir' = dir
         \/ DiskFull
  BY DEF dos_mkdir, MkdirEntry
<1>2. Sound(vol, dir, sft) /\ vol \in VolOf /\ CountOK(vol) /\ dir \in DirOf
  BY SoundFacts DEF Neat, Now
<1>3. CASE Free(vol.fat) # {} /\ vol' = Taken(vol) /\ dir' = d2
  <2>1. Root \in Dirs
    BY DEF Dirs
  <2>2. HasRoom(Root) /\ Vol(Root) = vol /\ Cleared(Root) = dir /\ NewIn(Root) = n
    BY <1>1 DEF HasRoom, Vol, Cleared, NewIn, Grows
  <2> DEFINE f == vol.fat
             q == InDir(f, Root)
             d3 == [dir EXCEPT ![n] = Entry(name, FREE, 0)]
             g == Taken(vol).fat
  <2>3. /\ Ordered(f, dir) /\ Root \in Starts(dir)
        /\ n[1] \in Part(f, Root) /\ FreshPlace(q, dir, n, Root)
    BY <2>1, <2>2, RoomTidy
  <2>4. n \in Locs /\ dir[n].name \in {NeverUsed, DELETED}
    BY <1>1, <1>2, <2>1, FreeEntry
  <2>5. n[1] = Root
    BY <2>3 DEF Part
  <2> HIDE DEF n
  <2>6. n \notin Files(dir) /\ n \notin Dir(dir)
    BY <1>2, <2>4, UnusedIs DEF Dir
  <2>7. Sound(vol, d3, sft)
    BY <1>2, <2>4, MadeOK
  <2>8. /\ \A j \in Locs : j # n => d3[j] = dir[j]
        /\ d3[n].name = name /\ d3[n].isdir = FALSE
    BY <1>2, <2>4 DEF DirOf, Entry
  <2>9. Mkdirs(vol, dir, sft, x, n, name, d2)
    BY <1>2, <1>3, <2>4, <2>5 DEF Mkdirs
  <2> HIDE DEF d3, d2, x, f, q, g
  <2>10. Dir(d3) = Dir(dir) /\ \A k \in Dir(dir) : d3[k].start = dir[k].start
    BY <2>6, <2>8 DEF Dir, Files
  <2>11. Enters(vol, dir, sft, d3, n, Root, name)
    BY <1>1, <1>2, <2>3, <2>4, <2>8, <2>10 DEF Enters, FreshPlace, f, q
  <2>12. Ordered(f, d3)
    BY <2>11, Entered DEF f
  <2>13. /\ x \in Clusters /\ f[x] = FREE /\ Whole(g, x)
         /\ \A k \in Dir(d2) : k \in Dir(dir) \/ k = n
         /\ \A j \in Locs : /\ (j = n => d2[j] = MkdirEntry(name, x))
                           /\ (j # n /\ j[1] = x => d2[j] = Blank(NeverUsed))
                           /\ (j # n /\ j[1] # x => d2[j] = dir[j])
         /\ \A y \in ToSet(Chain(g, x)) : y = x
    <3>1. Mkdired(vol, dir, x, n, name, d2)
      BY <2>9, MkdirOK
    <3> QED
      BY <3>1 DEF Mkdired, f, g
  <2>14. MkdirEntry(name, x).name = name /\ MkdirEntry(name, x).start = x /\ Blank(NeverUsed).name = NeverUsed
    BY DEF MkdirEntry, Blank
  <2>15. x # Root
    BY <2>13, Numbers DEF Root, FREE
  <2>16. Starts(d3) = Starts(dir)
    BY <2>10 DEF Starts
  <2>17. \A k \in Dir(dir) : k \in Locs /\ k[1] = Root /\ d2[k] = dir[k]
    BY <1>2, <2>6, <2>13, <2>15, DirStarts
  <2>18. Starts(d2) \subseteq Starts(dir) \cup {x}
    BY <2>4, <2>13, <2>14, <2>17 DEF Starts
  <2>19. InOrder(InDir(g, x), d2)
    <3>1. IsDir(g, x) /\ \A y \in Part(g, x) : y = x
      BY <2>13, <2>15 DEF IsDir, Part
    <3>2. PICK m : DirList(g, x, InDir(g, x), m)
      BY <3>1, InDirIs
    <3> DEFINE p == InDir(g, x)
    <3> HIDE DEF p
    <3>3. \A j \in DOMAIN p : p[j] \in Locs /\ p[j][1] = x
      BY <3>1, <3>2 DEF DirList, p
    <3>4. \A j \in DOMAIN p : d2[p[j]].name = NeverUsed
      BY <2>5, <2>13, <2>14, <2>15, <3>3
    <3>5. InOrder(p, d2)
      BY <3>4, UnusedInOrder
    <3> QED
      BY <3>5 DEF p
  <2>20. ASSUME NEW e \in Starts(dir) PROVE InOrder(InDir(g, e), d2)
    <3>1. IsDir(f, e) /\ (e # Root => e \in Clusters /\ Whole(f, e)) /\ \A y \in Part(f, e) : y = Root \/ y \in Held(f, dir)
      BY <1>2, StartsAre DEF f
    <3>2. e # Root => Chain(g, e) = Chain(f, e)
      BY <1>2, <3>1, TakenAside DEF f, g
    <3>3. InDir(g, e) = InDir(f, e)
      BY <3>2 DEF InDir
    <3>4. PICK m : DirList(f, e, InDir(f, e), m)
      BY <3>1, InDirIs
    <3>5. x \notin Held(f, dir)
      <4>1. dir \in DirOf /\ sft \in SftsOf /\ FilesOK(f, dir, sft)
        BY <1>2, SoundFacts DEF f
      <4> QED
        BY <2>13, <4>1, HeldUsed
    <3>6. \A j \in Locs : j[1] \in Part(f, e) => d2[j].name = d3[j].name
      BY <2>8, <2>13, <2>14, <2>15, <3>1, <3>5
    <3>7. InOrder(InDir(f, e), d3)
      BY <2>12, <2>16 DEF Ordered
    <3>8. InOrder(InDir(f, e), d2)
      BY <3>4, <3>6, <3>7, InOrderSame
    <3> QED
      BY <3>3, <3>8
  <2>21. Ordered(g, d2)
    BY <2>18, <2>19, <2>20 DEF Ordered
  <2> QED
    BY <1>3, <2>21 DEF Tidy, g
<1>4. CASE vol' = Taken(vol) /\ dir' = dir
  BY <1>4, LeakTidy
<1> QED
  BY <1>1, <1>3, <1>4, DiskFullTidy

-----------------------------------------------------------------------------
(* Names after power failure.                                              *)

\* The list q is q2, or how q2 begins.
Begins(q, q2, n, m) ==
  /\ n \in Nat /\ m \in Nat /\ n =< m /\ DOMAIN q = 1..n /\ DOMAIN q2 = 1..m
  /\ \A j \in 1..n : q[j] = q2[j]

LEMMA InOrderBegins ==
  ASSUME NEW q, NEW q2, NEW n, NEW m, Begins(q, q2, n, m), NEW d, NEW d2, InOrder(q2, d),
         \A j \in 1..n : d2[q[j]].name = d[q[j]].name
  PROVE  InOrder(q, d2)
<1>1. /\ n \in Nat /\ m \in Nat /\ n =< m /\ DOMAIN q = 1..n /\ DOMAIN q2 = 1..m
      /\ \A j \in 1..n : q[j] = q2[j]
  BY DEF Begins
<1>2. \A j \in 1..n : j \in 1..m /\ d2[q[j]].name = d[q2[j]].name
  BY <1>1
<1> QED
  BY <1>1, <1>2 DEF InOrder

\* A directory that lost clusters at its end lists less.
LEMMA DirBegins ==
  ASSUME NEW f, NEW g, NEW e \in Clusters, Whole(f, e), Whole(g, e),
         \A c \in Clusters : f[c] = g[c] \/ f[c] \in {FREE, LAST}
  PROVE  \E n, m : Begins(InDir(f, e), InDir(g, e), n, m)
<1> DEFINE c == Chain(f, e)
           c2 == Chain(g, e)
           n == Len(c)
           n2 == Len(c2)
           D == DirEnts
           q == InDir(f, e)
           q2 == InDir(g, e)
<1>1. n \in Nat /\ n2 \in Nat /\ D \in Nat \ {0} /\ e # Root
  BY ChainFacts, Sizes, Numbers DEF Root, FREE
<1>2. q = [j \in 1..n*D |-> <<c[(j-1) \div D + 1], (j-1) % D>>]
  BY <1>1 DEF InDir
<1>3. q2 = [j \in 1..n2*D |-> <<c2[(j-1) \div D + 1], (j-1) % D>>]
  BY <1>1 DEF InDir
<1>4. n =< n2 /\ \A j \in 1..n : c2[j] = c[j]
  BY Prefix
<1> HIDE DEF c, c2, n, n2, D, q, q2
<1>5. n*D \in Nat /\ n2*D \in Nat /\ n*D =< n2*D
  BY <1>1, <1>4, Times
<1>6. ASSUME NEW j \in 1..n*D PROVE q[j] = q2[j]
  <2>1. (j-1) \div D + 1 \in 1..n
    BY <1>1, EntryPlace
  <2>2. j \in 1..n2*D
    BY <1>1, <1>5
  <2> QED
    BY <2>1, <2>2, <1>2, <1>3, <1>4
<1>7. DOMAIN q = 1..n*D /\ DOMAIN q2 = 1..n2*D
  BY <1>2, <1>3
<1>8. Begins(q, q2, n*D, n2*D)
  BY <1>5, <1>6, <1>7 DEF Begins
<1> QED
  BY <1>8 DEF q, q2

\* The names of the volume that power failure left are in order.
LEMMA ResumeOrdered ==
  ASSUME NEW v, NEW d, NEW s, NEW e, NEW S, NEW C, NEW L, NEW fat, NEW f, NEW g,
         Resume(v, d, s, e, S, C, L, fat, f, g), Ordered(v.fat, d)
  PROVE  Ordered(fat, g)
<1>1. /\ Before(v, d, s, e, S) /\ Mix(v, d, e, C, L, fat, f, g)
      /\ Sound(v, d, s) /\ FatAhead(e, v.fat) /\ DirAhead(e, d)
  BY DEF Resume, Before, Behind
<1>2. /\ fat \in FatOf /\ f \in DirOf /\ g \in DirOf /\ DirsOK(f) /\ DirsOK(g)
      /\ Dir(g) = Dir(d) /\ Dir(f) = Dir(d) /\ Dir(e.dir) = Dir(d)
      /\ \A l \in Locs : l[1] = Root => e.dir[l] = d[l] /\ f[l] = d[l] /\ g[l] = d[l]
      /\ \A l \in Locs : f[l] \in {d[l], e.dir[l]}
      /\ \A l \in Locs : g[l] = IF l[1] = Root \/ l[1] \in Held(fat, f) THEN f[l] ELSE Blank(Junk)
      /\ \A c \in Clusters : fat[c] \in {v.fat[c], e.fat[c]}
  BY <1>1, MixIs
<1>3. Sound(Fresh(fat), g, AllClosed) /\ Fresh(fat).fat = fat
  BY ResumeSound DEF Fresh
<1>4. \A c \in Clusters : fat[c] = v.fat[c] \/ fat[c] \in {FREE, LAST}
  BY <1>1, <1>2 DEF FatAhead
<1>5. HeldOK(fat, g)
  BY <1>3, SoundFacts
<1>6. \A l \in Locs : g[l].name # Junk => g[l].name = d[l].name
  <2> SUFFICES ASSUME NEW l \in Locs, g[l].name # Junk PROVE g[l].name = d[l].name
    OBVIOUS
  <2>1. Blank(Junk).name = Junk
    BY Blanks
  <2>2. g[l] = d[l] \/ g[l] = e.dir[l]
    BY <1>2, <2>1
  <2>3. d[l] = e.dir[l] \/ e.dir[l] = Blank(Junk)
    BY <1>1 DEF DirAhead
  <2> QED
    BY <2>1, <2>2, <2>3
<1>7. Starts(g) = Starts(d)
  <2>1. \A k \in Dir(d) : k \in Locs /\ k[1] = Root
    BY <1>1, SoundFacts DEF DirsOK, Dir, Files
  <2>2. \A k \in Dir(d) : g[k].start = d[k].start
    BY <1>2, <2>1
  <2> QED
    BY <1>2, <2>2 DEF Starts
<1> SUFFICES ASSUME NEW b \in Starts(d) PROVE InOrder(InDir(fat, b), g)
  BY <1>7 DEF Ordered
<1>8. /\ IsDir(v.fat, b) /\ InOrder(InDir(v.fat, b), d)
      /\ b # Root => b \in Clusters /\ Whole(v.fat, b)
  BY <1>1, StartsAre DEF Ordered
<1>9. /\ IsDir(fat, b)
      /\ b # Root => Whole(fat, b)
      /\ \A x \in Part(fat, b) : x = Root \/ x \in Held(fat, g)
  BY <1>3, <1>7, StartsAre
<1>10. \A l \in Locs : l[1] \in Part(fat, b) => g[l].name = d[l].name
  BY <1>5, <1>6, <1>9 DEF HeldOK
<1>11. PICK n : DirList(fat, b, InDir(fat, b), n)
  BY <1>9, InDirIs
<1>12. CASE b = Root
  <2>1. InDir(fat, b) = InDir(v.fat, b)
    BY <1>12 DEF InDir
  <2>2. InOrder(InDir(fat, b), d)
    BY <1>8, <2>1
  <2> QED
    BY ONLY <1>10, <1>11, <2>2, InOrderSame
<1>13. CASE b # Root
  <2>1. PICK n2, m : Begins(InDir(fat, b), InDir(v.fat, b), n2, m)
    BY <1>4, <1>8, <1>9, <1>13, DirBegins
  <2> DEFINE q == InDir(fat, b)
             q2 == InDir(v.fat, b)
  <2>2. Begins(q, q2, n2, m) /\ InOrder(q2, d) /\ DirList(fat, b, q, n)
    BY <1>8, <1>11, <2>1
  <2> HIDE DEF q, q2
  <2>3. \A j \in 1..n2 : q[j] \in Locs /\ q[j][1] \in Part(fat, b)
    BY <2>2 DEF DirList, Begins
  <2>4. \A j \in 1..n2 : g[q[j]].name = d[q[j]].name
    BY <1>10, <2>3
  <2>5. InOrder(q, g)
    BY ONLY <2>2, <2>4, InOrderBegins
  <2> QED
    BY <2>5 DEF q
<1> QED
  BY <1>12, <1>13

LEMMA PowerTidy ==
  ASSUME Neat, Power
  PROVE  Tidy
<1>1. Now /\ Ordered(vol.fat, dir)
  BY DEF Neat
<1>2. PICK C, L, fat, f, g :
        /\ Mix(vol, dir, disk, C, L, fat, f, g)
        /\ vol' = Fresh(fat) /\ dir' = g /\ disk' = [fat |-> fat, dir |-> g]
        /\ sft' = AllClosed /\ saved' = saved
        /\ Fault(TRUE) \/ (Fault(FALSE) /\ Usable(fat, f, g))
  BY <1>1, PowerIs
<1>3. CASE Fault(TRUE)
  BY <1>3 DEF Tidy
<1>4. CASE Usable(fat, f, g)
  <2>1. Before(vol, dir, sft, disk, saved)
    BY <1>1 DEF Now, Before
  <2>2. Resume(vol, dir, sft, disk, saved, C, L, fat, f, g)
    BY <1>2, <1>4, <2>1 DEF Resume
  <2> DEFINE e == disk
             S == saved
  <2>3. Resume(vol, dir, sft, e, S, C, L, fat, f, g)
    BY <2>2
  <2> HIDE DEF e, S
  <2>4. Ordered(fat, g)
    BY <1>1, <2>3, ResumeOrdered
  <2>5. vol'.fat = fat /\ dir' = g
    BY <1>2 DEF Fresh
  <2> QED
    BY <2>4, <2>5 DEF Tidy
<1> QED
  BY <1>2, <1>3, <1>4
-----------------------------------------------------------------------------
(* Names, in every step.                                                   *)

\* As long as the model goes on, the names are in order too.
NamesInv == VolInv /\ (~upset => Ordered(vol.fat, dir))

LEMMA NeatIs ==
  ASSUME NamesInv, ~upset
  PROVE  Neat
BY DEF NamesInv, VolInv, Neat

LEMMA NextTidy ==
  ASSUME NamesInv, Next
  PROVE  (~upset /\ Tidy) \/ UNCHANGED vars
<1>1. ASSUME NEW i \in Sfts, NEW l \in Locs, dos_open(i, l)
     PROVE  ~upset /\ Tidy
  <2>1. ~upset
    BY <1>1 DEF dos_open
  <2> QED
    BY <1>1, <2>1, NeatIs, OpenTidy
<1>2. ASSUME NEW i \in Sfts, NEW l \in Locs, dos_open_trunc(i, l)
     PROVE  ~upset /\ Tidy
  <2>1. ~upset
    BY <1>2 DEF dos_open_trunc
  <2> QED
    BY <1>2, <2>1, NeatIs, OpenTruncTidy
<1>3. ASSUME NEW i \in Sfts, NEW d \in Dirs, NEW name \in Names, dos_create(i, d, name)
     PROVE  ~upset /\ Tidy
  <2>1. ~upset
    BY <1>3 DEF dos_create
  <2> QED
    BY <1>3, <2>1, NeatIs, CreateTidy
<1>4. ASSUME NEW i \in Sfts, NEW commit \in BOOLEAN, dos_close(i, commit)
     PROVE  ~upset /\ Tidy
  <2>1. ~upset
    BY <1>4 DEF dos_close
  <2> QED
    BY <1>4, <2>1, NeatIs, CloseTidy
<1>5. ASSUME NEW i \in Sfts, NEW pos \in Seeks, SftSeek(i, pos)
     PROVE  ~upset /\ Tidy
  <2>1. ~upset
    BY <1>5 DEF SftSeek
  <2> QED
    BY <1>5, <2>1, NeatIs, SeekTidy
<1>6. ASSUME NEW i \in Sfts, NEW n \in Counts, rwblock_read(i, n)
     PROVE  ~upset /\ Tidy
  <2>1. ~upset
    BY <1>6, Zenon DEF rwblock_read
  <2> QED
    BY <1>6, <2>1, NeatIs, ReadTidy
<1>7. ASSUME NEW i \in Sfts, NEW n \in Counts, rwblock_write(i, n)
     PROVE  ~upset /\ Tidy
  <2>1. ~upset
    BY <1>7, Zenon DEF rwblock_write
  <2>2. n \in Nat \ {0}
    BY FatFsAssumption
  <2> QED
    BY <1>7, <2>1, <2>2, NeatIs, WriteTidy
<1>8. ASSUME NEW i \in Sfts, rwblock_trunc(i)
     PROVE  ~upset /\ Tidy
  <2>1. ~upset
    BY <1>8, Zenon DEF rwblock_trunc
  <2> QED
    BY <1>8, <2>1, NeatIs, TruncTidy
<1>9. ASSUME NEW l \in Locs, dos_delete(l)
     PROVE  ~upset /\ Tidy
  <2>1. ~upset
    BY <1>9 DEF dos_delete
  <2> QED
    BY <1>9, <2>1, NeatIs, DeleteTidy
<1>10. ASSUME NEW l \in Locs, dos_rmdir(l)
      PROVE  ~upset /\ Tidy
  <2>1. ~upset
    BY <1>10 DEF dos_rmdir
  <2> QED
    BY <1>10, <2>1, NeatIs, RmdirTidy
<1>11. ASSUME NEW l \in Locs, NEW d \in Dirs, NEW name \in Names, dos_rename(l, d, name)
      PROVE  ~upset /\ Tidy
  <2>1. ~upset
    BY <1>11 DEF dos_rename
  <2> QED
    BY <1>11, <2>1, NeatIs, RenameTidy
<1>12. ASSUME NEW name \in Names, dos_mkdir(name)
      PROVE  ~upset /\ Tidy
  <2>1. ~upset
    BY <1>12 DEF dos_mkdir
  <2> QED
    BY <1>12, <2>1, NeatIs, MkdirTidy
<1>13. ASSUME dos_free
      PROVE  ~upset /\ Tidy
  <2>1. ~upset
    BY <1>13 DEF dos_free
  <2> QED
    BY <1>13, <2>1, NeatIs, FreeTidy
<1>14. ASSUME Power
      PROVE  ~upset /\ Tidy
  <2>1. ~upset
    BY <1>14, Zenon DEF Power
  <2> QED
    BY <1>14, <2>1, NeatIs, PowerTidy
<1> QED
  BY <1>1, <1>2, <1>3, <1>4, <1>5, <1>6, <1>7, <1>8, <1>9, <1>10, <1>11, <1>12, <1>13, <1>14, Zenon DEF Next

LEMMA NamesNext == NamesInv /\ [Next]_vars => NamesInv'
<1> SUFFICES ASSUME NamesInv, [Next]_vars PROVE NamesInv'
  OBVIOUS
<1>1. VolInv'
  BY NextInv DEF NamesInv
<1>2. CASE UNCHANGED vars
  BY <1>1, <1>2 DEF NamesInv, vars
<1>3. CASE Tidy
  BY <1>1, <1>3 DEF NamesInv, Tidy, Fault
<1> QED
  BY <1>2, <1>3, NextTidy

LEMMA NamesInit == Init => NamesInv
<1> SUFFICES ASSUME Init PROVE NamesInv
  OBVIOUS
<1>1. VolInv /\ ~upset
  BY InitInv DEF Init
<1>2. Sound(vol, dir, sft)
  BY <1>1 DEF VolInv, Now
<1>3. \A l \in Locs : dir[l].name \in {NeverUsed, Junk}
  BY Blanks DEF Init
<1> SUFFICES ASSUME NEW e \in Starts(dir) PROVE InOrder(InDir(vol.fat, e), dir)
  BY <1>1 DEF NamesInv, Ordered
<1>4. IsDir(vol.fat, e) /\ \A x \in Part(vol.fat, e) : x = Root \/ x \in Held(vol.fat, dir)
  BY <1>2, StartsAre
<1>5. HeldOK(vol.fat, dir)
  BY <1>2, SoundFacts
<1>6. \A l \in Locs : l[1] \in Part(vol.fat, e) => dir[l].name = NeverUsed
  BY <1>3, <1>4, <1>5 DEF HeldOK
<1> DEFINE q == InDir(vol.fat, e)
<1>7. PICK n : DirList(vol.fat, e, q, n)
  BY <1>4, InDirIs
<1> HIDE DEF q
<1>8. \A j \in DOMAIN q : dir[q[j]].name = NeverUsed
  BY <1>6, <1>7 DEF DirList
<1>9. InOrder(q, dir)
  BY <1>8, UnusedInOrder
<1> QED
  BY <1>9 DEF q

\* Directories hold entries, names once, and nothing after the first entry never used,
\* whatever calls make, rename or remove, and after a power failure (clear_dir, find_free,
\* dir_read).
THEOREM FatDirsClean == Spec => []DirsClean
<1>1. NamesInv => DirsClean
  <2> SUFFICES ASSUME NamesInv, ~upset, NEW d \in Dirs
               PROVE  LET e == InDir(vol.fat, d) IN
                      /\ \A j \in DOMAIN e : dir[e[j]].name # Junk
                      /\ \A j, k \in DOMAIN e : j # k /\ dir[e[j]].name \in Names => dir[e[k]].name # dir[e[j]].name
                      /\ \A j, k \in DOMAIN e : j < k /\ dir[e[j]].name = NeverUsed => dir[e[k]].name = NeverUsed
    BY DEF DirsClean
  <2>1. Sound(vol, dir, sft) /\ Ordered(vol.fat, dir)
    BY NeatIs DEF Neat, Now
  <2>2. d \in Starts(dir)
    BY DEF Dirs, Starts, Dir, Files, Live
  <2> DEFINE q == InDir(vol.fat, d)
  <2>3. InOrder(q, dir)
    BY <2>1, <2>2 DEF Ordered
  <2>4. IsDir(vol.fat, d) /\ \A x \in Part(vol.fat, d) : x = Root \/ x \in Held(vol.fat, dir)
    BY <2>1, <2>2, StartsAre
  <2>5. HeldOK(vol.fat, dir)
    BY <2>1, SoundFacts
  <2>6. PICK n : DirList(vol.fat, d, q, n)
    BY <2>4, InDirIs
  <2> HIDE DEF q
  <2>7. \A j \in DOMAIN q : dir[q[j]].name # Junk
    BY <2>4, <2>5, <2>6 DEF DirList, HeldOK
  <2> QED
    BY <2>3, <2>7 DEF InOrder, q
<1>2. NamesInv /\ [Next]_vars => NamesInv'
  BY NamesNext
<1> QED
  BY <1>1, <1>2, NamesInit, PTL DEF Spec

-----------------------------------------------------------------------------
(* Clusters that are lost.                                                 *)

\* Every cluster in use is of a file or directory, and no file has more than it needs.
Lossless(f, d, s) ==
  /\ \A x \in Clusters : f[x] # FREE => \E l \in Files(d) : x \in ToSet(Chain(f, St(d, s)[l]))
  /\ \A l \in Files(d) : ~d[l].isdir => Room(f, St(d, s)[l]) < Sz(d, s)[l] + ClusterSize

\* The file at l changes, or goes, and n is new: clusters that l had are its own, n's or free.
Compacts(f, d, s, g, d2, s2, l, n) ==
  /\ Lossless(f, d, s)
  /\ \A k \in Files(d) : k # l =>
       /\ k \in Files(d2) /\ Chain(g, St(d2, s2)[k]) = Chain(f, St(d, s)[k])
       /\ Sz(d2, s2)[k] = Sz(d, s)[k] /\ d2[k].isdir = d[k].isdir
  /\ \A k \in Files(d2) : k = n \/ (k \in Files(d) /\ k # l)
  /\ \A x \in Clusters : g[x] # FREE =>
       \/ f[x] # FREE /\ (l \in Files(d) => x \notin ToSet(Chain(f, St(d, s)[l])))
       \/ n \in Files(d2) /\ x \in ToSet(Chain(g, St(d2, s2)[n]))
  /\ n \in Files(d2) /\ ~d2[n].isdir => Room(g, St(d2, s2)[n]) < Sz(d2, s2)[n] + ClusterSize

LEMMA Compacted ==
  ASSUME NEW f, NEW d, NEW s, NEW g, NEW d2, NEW s2, NEW l, NEW n, Compacts(f, d, s, g, d2, s2, l, n)
  PROVE  Lossless(g, d2, s2)
<1>1. /\ Lossless(f, d, s)
      /\ \A k \in Files(d) : k # l =>
           /\ k \in Files(d2) /\ Chain(g, St(d2, s2)[k]) = Chain(f, St(d, s)[k])
           /\ Sz(d2, s2)[k] = Sz(d, s)[k] /\ d2[k].isdir = d[k].isdir
      /\ \A k \in Files(d2) : k = n \/ (k \in Files(d) /\ k # l)
      /\ \A x \in Clusters : g[x] # FREE =>
           \/ f[x] # FREE /\ (l \in Files(d) => x \notin ToSet(Chain(f, St(d, s)[l])))
           \/ n \in Files(d2) /\ x \in ToSet(Chain(g, St(d2, s2)[n]))
      /\ n \in Files(d2) /\ ~d2[n].isdir => Room(g, St(d2, s2)[n]) < Sz(d2, s2)[n] + ClusterSize
  BY DEF Compacts
<1>2. ASSUME NEW x \in Clusters, g[x] # FREE
      PROVE  \E k \in Files(d2) : x \in ToSet(Chain(g, St(d2, s2)[k]))
  <2>1. CASE n \in Files(d2) /\ x \in ToSet(Chain(g, St(d2, s2)[n]))
    BY <2>1
  <2>2. CASE f[x] # FREE /\ (l \in Files(d) => x \notin ToSet(Chain(f, St(d, s)[l])))
    <3>1. PICK k \in Files(d) : x \in ToSet(Chain(f, St(d, s)[k]))
      BY <1>1, <2>2 DEF Lossless
    <3>2. k # l
      BY <2>2, <3>1
    <3> QED
      BY <1>1, <3>1, <3>2
  <2> QED
    BY <1>1, <1>2, <2>1, <2>2
<1>3. ASSUME NEW k \in Files(d2), ~d2[k].isdir
      PROVE  Room(g, St(d2, s2)[k]) < Sz(d2, s2)[k] + ClusterSize
  <2>1. CASE k = n
    BY <1>1, <1>3, <2>1
  <2>2. CASE k # n
    <3>1. /\ k \in Files(d) /\ ~d[k].isdir /\ Sz(d2, s2)[k] = Sz(d, s)[k]
          /\ Chain(g, St(d2, s2)[k]) = Chain(f, St(d, s)[k])
      BY <1>1, <1>3, <2>2
    <3>2. Room(g, St(d2, s2)[k]) = Room(f, St(d, s)[k])
      BY <3>1 DEF Room
    <3>3. Room(f, St(d, s)[k]) < Sz(d, s)[k] + ClusterSize
      BY <1>1, <3>1 DEF Lossless
    <3> QED
      BY <3>1, <3>2, <3>3
  <2> QED
    BY <2>1, <2>2
<1> QED
  BY <1>2, <1>3 DEF Lossless

\* Where files are the same.
LEMMA LosslessSame ==
  ASSUME NEW f, NEW d, NEW s, Lossless(f, d, s), NEW d2, NEW s2, Files(d2) = Files(d),
         \A k \in Files(d) : /\ St(d2, s2)[k] = St(d, s)[k] /\ Sz(d2, s2)[k] = Sz(d, s)[k]
                             /\ d2[k].isdir = d[k].isdir
  PROVE  Lossless(f, d2, s2)
<1>1. \A x \in Clusters : f[x] # FREE => \E l \in Files(d2) : x \in ToSet(Chain(f, St(d2, s2)[l]))
  <2> SUFFICES ASSUME NEW x \in Clusters, f[x] # FREE
               PROVE  \E l \in Files(d2) : x \in ToSet(Chain(f, St(d2, s2)[l]))
    OBVIOUS
  <2>1. PICK l \in Files(d) : x \in ToSet(Chain(f, St(d, s)[l]))
    BY DEF Lossless
  <2> QED
    BY <2>1
<1>2. \A l \in Files(d2) : ~d2[l].isdir => Room(f, St(d2, s2)[l]) < Sz(d2, s2)[l] + ClusterSize
  BY DEF Lossless
<1> QED
  BY <1>1, <1>2 DEF Lossless

\* Between calls, with nothing lost.
Spare == Now /\ Lossless(vol.fat, dir, sft)

\* A call is over and nothing is lost, or it was interrupted.
Trim == faulted' = TRUE \/ Lossless(vol'.fat, dir', sft')

LEMMA FaultTrim ==
  ASSUME NEW bad, Fault(bad)
  PROVE  Trim
BY DEF Fault, Trim

LEMMA SameTrim ==
  ASSUME Spare, vol'.fat = vol.fat, dir' = dir, sft' = sft
  PROVE  Trim
BY DEF Spare, Trim

LEMMA DiskFullTrim ==
  ASSUME Spare, DiskFull
  PROVE  Trim
<1>1. vol' = Taken(vol) /\ dir' = dir /\ sft' = sft /\ Free(vol.fat) = {}
  BY DEF DiskFull
<1>2. find_fat_free(vol) = LAST
  BY <1>1 DEF find_fat_free
<1>3. Taken(vol) = [vol EXCEPT !.hint = UNKNOWN]
  BY <1>2 DEF Taken
<1>4. vol \in VolOf
  BY SoundFacts DEF Spare, Now
<1>5. vol'.fat = vol.fat
  BY <1>1, <1>3, <1>4 DEF VolOf
<1> QED
  BY <1>1, <1>5, SameTrim

LEMMA OpenTrim ==
  ASSUME Spare, NEW i \in Sfts, NEW l \in Locs, dos_open(i, l)
  PROVE  Trim
<1>1. /\ sft[i] = Closed /\ l \in Files(dir) /\ ~dir[l].isdir /\ At(sft, l) = {}
      /\ sft' = With(sft, i, Opened(l, dir)) /\ vol' = vol /\ dir' = dir
  BY DEF dos_open, Live, Files, Idle, OpenAt, At, With
<1> DEFINE s2 == With(sft, i, Opened(l, dir))
<1>2. \A k \in Locs : St(dir, s2)[k] = St(dir, sft)[k] /\ Sz(dir, s2)[k] = Sz(dir, sft)[k]
  BY <1>1, OpenedOK DEF Now, Spare
<1>3. Lossless(vol.fat, dir, sft)
  BY DEF Spare
<1>4. sft' = s2
  BY <1>1
<1> HIDE DEF s2
<1>5. \A k \in Files(dir) : St(dir, s2)[k] = St(dir, sft)[k] /\ Sz(dir, s2)[k] = Sz(dir, sft)[k]
  BY <1>2 DEF Files
<1>6. Lossless(vol.fat, dir, s2)
  BY <1>3, <1>5, LosslessSame
<1> QED
  BY <1>1, <1>4, <1>6 DEF Trim

LEMMA FreeTrim ==
  ASSUME Spare, dos_free
  PROVE  Trim
<1>1. /\ \E S \in SUBSET Free(vol.fat) :
           vol' = [vol EXCEPT !.nfree = Cardinality(S), !.hint = IF S = {} THEN @ ELSE Min(S)]
      /\ dir' = dir /\ sft' = sft
  BY DEF dos_free
<1>2. vol \in VolOf
  BY SoundFacts DEF Spare, Now
<1>3. vol'.fat = vol.fat
  BY <1>1, <1>2 DEF VolOf
<1> QED
  BY SMTT(30), <1>1, <1>3, SameTrim

LEMMA CloseTrim ==
  ASSUME Spare, NEW i \in Sfts, NEW commit \in BOOLEAN, dos_close(i, commit)
  PROVE  Trim
<1> DEFINE u == Updated(dir, sft, i)
           b == IF sft[i].clean THEN dir ELSE u
           z == With(sft, i, Closed)
<1>1. /\ sft[i] # Closed /\ vol' = vol
      /\ \/ dir' = b /\ sft' = IF commit THEN sft ELSE z
         \/ Fault(FALSE)
  BY DEF dos_close, With, Updated
<1>2. Sound(vol, dir, sft) /\ SftsOK(dir, sft) /\ Lossless(vol.fat, dir, sft)
  BY SoundFacts DEF Now, Spare
<1>3. /\ Sound(vol, u, sft) /\ Kept(vol.fat, dir, sft, vol.fat, u, sft, <<>>)
      /\ u[sft[i].loc].start = sft[i].start /\ u[sft[i].loc].size = sft[i].size
      /\ Files(u) = Files(dir) /\ Dir(u) = Dir(dir)
  BY <1>1, <1>2, UpdatedOK
<1> HIDE DEF u
<1>4. Lossless(vol.fat, u, sft)
  <2>1. \A k \in Files(dir) : k # <<>>
    BY ClosedLoc DEF Files
  <2>2. \A k \in Files(dir) : St(u, sft)[k] = St(dir, sft)[k] /\ Sz(u, sft)[k] = Sz(dir, sft)[k]
    BY <1>3, <2>1 DEF Kept
  <2>3. \A k \in Files(dir) : u[k].isdir = dir[k].isdir
    <3>1. dir \in DirOf /\ u \in DirOf
      BY <1>2, <1>3, SoundFacts
    <3>2. \A k \in Files(dir) : u[k].isdir \in BOOLEAN /\ dir[k].isdir \in BOOLEAN
      BY <3>1 DEF DirOf, Entries, Files
    <3>3. \A k \in Files(dir) : u[k].isdir <=> dir[k].isdir
      BY <1>3 DEF Dir
    <3> QED
      BY <3>2, <3>3
  <2> QED
    BY <1>2, <1>3, <2>2, <2>3, LosslessSame
<1>5. Sound(vol, b, sft) /\ Lossless(vol.fat, b, sft) /\ b[sft[i].loc].start = sft[i].start /\ b[sft[i].loc].size = sft[i].size
  BY <1>1, <1>2, <1>3, <1>4 DEF SftsOK
<1> HIDE DEF b
<1>6. Lossless(vol.fat, b, z)
  <2>1. \A k \in Locs : St(b, z)[k] = St(b, sft)[k] /\ Sz(b, z)[k] = Sz(b, sft)[k]
    BY <1>1, <1>5, ClosedOK
  <2> HIDE DEF z
  <2>2. \A k \in Files(b) : St(b, z)[k] = St(b, sft)[k] /\ Sz(b, z)[k] = Sz(b, sft)[k]
    BY <2>1 DEF Files
  <2> QED
    BY <1>5, <2>2, LosslessSame
<1>7. CASE dir' = b /\ sft' = IF commit THEN sft ELSE z
  BY <1>1, <1>5, <1>6, <1>7 DEF Trim
<1> QED
  BY <1>1, <1>7, FaultTrim
-----------------------------------------------------------------------------
(* Nothing is lost: open files.                                            *)

\* Clusters in use are of the file whose fnode is m, or not of it before.
Keeps(f, start, m) ==
  \A x \in Clusters : m.vol.fat[x] # FREE =>
    \/ f[x] # FREE /\ x \notin ToSet(Chain(f, start))
    \/ x \in ToSet(Chain(m.vol.fat, m.start))

Tight(m, size) == Room(m.vol.fat, m.start) < size + ClusterSize

FileTakes(v, d, s, i, m, size, pos, clean) ==
  /\ Moved(v, d, s, i, m) /\ FitsIn(m, size, pos) /\ clean \in BOOLEAN
  /\ clean => s[i].clean /\ m.start = s[i].start /\ size = s[i].size
  /\ Lossless(v.fat, d, s) /\ Keeps(v.fat, s[i].start, m) /\ Tight(m, size)

LEMMA FileLossless ==
  ASSUME NEW v, NEW d, NEW s, NEW i, NEW m, NEW size, NEW pos, NEW clean,
         FileTakes(v, d, s, i, m, size, pos, clean)
  PROVE  Lossless(m.vol.fat, d, With(s, i, NewOf(s[i], m, size, pos, clean)))
<1> DEFINE r == NewOf(s[i], m, size, pos, clean)
           s2 == With(s, i, r)
           l == s[i].loc
           g == m.vol.fat
<1>1. /\ Moved(v, d, s, i, m) /\ FitsIn(m, size, pos) /\ clean \in BOOLEAN
      /\ (clean => s[i].clean /\ m.start = s[i].start /\ size = s[i].size)
      /\ Lossless(v.fat, d, s) /\ Keeps(v.fat, s[i].start, m) /\ Tight(m, size)
  BY DEF FileTakes
<1>2. /\ GoodVol(v, d, s) /\ i \in Sfts /\ s[i] # Closed /\ SftsOK(d, s)
  BY <1>1 DEF Moved, GoodVol, FilesOK
<1>3. l \in Files(d) /\ l \in Locs /\ St(d, s)[l] = s[i].start
  BY <1>2, OpenIs
<1>4. Outcome(v, d, s, m.vol, s2, l)
  BY <1>1, FileOutcome
<1>5. OthersStay(v.fat, d, s, g, s2, l)
  BY <1>4 DEF Outcome
<1>6. r.start = m.start /\ r.size = size
  BY DEF NewOf
<1>7. FileSteps(v.fat, d, s, i, r, g)
  <2>1. size \in 0..MaxSize /\ pos \in 0..MaxSize /\ size =< Room(m.vol.fat, m.start)
    BY <1>1 DEF FitsIn
  <2> QED
    BY <1>1, <2>1, MovedSft
<1> HIDE DEF r
<1>8. NewSft(d, s, i, r)
  BY <1>7 DEF FileSteps
<1>9. St(d, s2)[l] = m.start /\ Sz(d, s2)[l] = size
  BY <1>3, <1>6, <1>8, SftChanged
<1> HIDE DEF s2, l, g
<1>10. \A x \in Clusters : g[x] # FREE =>
         \/ v.fat[x] # FREE /\ (l \in Files(d) => x \notin ToSet(Chain(v.fat, St(d, s)[l])))
         \/ l \in Files(d) /\ x \in ToSet(Chain(g, St(d, s2)[l]))
  BY <1>1, <1>3, <1>9 DEF Keeps, g
<1>11. Room(g, St(d, s2)[l]) < Sz(d, s2)[l] + ClusterSize
  BY <1>1, <1>9 DEF Tight, g
<1>12. \A k \in Files(d) : k # l =>
         /\ Chain(g, St(d, s2)[k]) = Chain(v.fat, St(d, s)[k]) /\ Sz(d, s2)[k] = Sz(d, s)[k]
  BY <1>5 DEF OthersStay
<1>13. Compacts(v.fat, d, s, g, d, s2, l, l)
  BY ONLY <1>1, <1>10, <1>11, <1>12 DEF Compacts
<1>14. Lossless(g, d, s2)
  BY <1>13, Compacted
<1> QED
  BY <1>14 DEF g, s2, r

\* What map_cluster takes goes into the chain.
LEMMA MapKeeps ==
  ASSUME NEW v, NEW d, NEW s, NEW i, NEW m, Advanced(v, d, s, i, m), NEW m0, m0.vol = v, NoLoss(m0, m)
  PROVE  Keeps(v.fat, s[i].start, m)
<1> DEFINE a == s[i].start
           f == v.fat
           g == m.vol.fat
           n == Len(Chain(f, a))
           n2 == Len(Chain(g, m.start))
<1>1. FnodeOK(m) /\ Lengthened(f, a, g, m.start)
  BY DEF Advanced
<1>2. a \in Clusters \cup {FREE} /\ Whole(f, a)
  BY AdvancedFacts
<1>3. n \in Nat /\ ToSet(Chain(f, a)) = {Chain(f, a)[j] : j \in 1..n}
  BY <1>2, ChainFacts
<1>4. m.start \in Clusters \cup {FREE} /\ Whole(g, m.start)
  BY <1>1, FnodeFacts
<1>5. n2 \in Nat /\ ToSet(Chain(g, m.start)) = {Chain(g, m.start)[j] : j \in 1..n2}
  BY <1>4, ChainFacts
<1>6. n =< n2 /\ \A j \in 1..n : Chain(g, m.start)[j] = Chain(f, a)[j]
  BY <1>1 DEF Lengthened
<1>7. \A x \in Clusters : g[x] # FREE => f[x] # FREE \/ x \in ToSet(Chain(g, m.start))
  BY DEF NoLoss
<1> HIDE DEF a, f, g, n, n2
<1>8. \A x \in ToSet(Chain(f, a)) : x \in ToSet(Chain(g, m.start))
  <2> SUFFICES ASSUME NEW x \in ToSet(Chain(f, a)) PROVE x \in ToSet(Chain(g, m.start))
    OBVIOUS
  <2>1. PICK j \in 1..n : x = Chain(f, a)[j]
    BY <1>3
  <2>2. j \in 1..n2
    BY <1>3, <1>5, <1>6
  <2> QED
    BY <2>1, <2>2, <1>5, <1>6
<1> QED
  BY <1>7, <1>8 DEF Keeps, a, f, g

\* How many clusters the file had.
LEMMA FileRoom ==
  ASSUME NEW v, NEW d, NEW s, NEW i, NEW m, Advanced(v, d, s, i, m), Lossless(v.fat, d, s),
         NEW m0, m0.vol = v, m0.start = s[i].start, Exact(m0, m)
  PROVE  \/ Room(m.vol.fat, m.start) < s[i].size + ClusterSize
         \/ Room(m.vol.fat, m.start) = (m.rel + 1) * ClusterSize
<1>1. SftsOK(d, s) /\ i \in Sfts /\ s[i] # Closed
  BY AdvancedFacts DEF Advanced
<1>2. s[i].loc \in Files(d) /\ ~d[s[i].loc].isdir /\ St(d, s)[s[i].loc] = s[i].start /\ Sz(d, s)[s[i].loc] = s[i].size
  BY <1>1, OpenIs DEF SftsOK
<1>3. Room(v.fat, s[i].start) < s[i].size + ClusterSize
  BY <1>2 DEF Lossless
<1>4. CASE Len(Chain(m.vol.fat, m.start)) = Len(Chain(v.fat, s[i].start))
  BY <1>3, <1>4 DEF Room
<1>5. CASE Len(Chain(m.vol.fat, m.start)) = m.rel + 1
  BY <1>5 DEF Room
<1> QED
  BY <1>4, <1>5 DEF Exact

\* Where map_cluster is done and did not get to the cluster, the disk is full.
LEMMA DoneRoom ==
  ASSUME NEW m, FnodeOK(m), NEW rel, NEW write, Done(m, rel, write), ~Mapped(m, rel)
  PROVE  Room(m.vol.fat, m.start) = IF m.cu = FREE THEN 0 ELSE (m.rel + 1) * ClusterSize
<1>1. AtEnd(m)
  BY DEF Done
<1>2. Len(Chain(m.vol.fat, m.start)) = IF m.cu = FREE THEN 0 ELSE m.rel + 1
  BY <1>1, FnodeLen, FnodeEnd
<1>3. 0 * ClusterSize = 0
  BY Sizes
<1> QED
  BY <1>2, <1>3 DEF Room

\* Where a write ends, there are no more clusters than up to the size.
LEMMA WriteTight ==
  ASSUME NEW v, NEW d, NEW s, NEW i, NEW m, Advanced(v, d, s, i, m), Lossless(v.fat, d, s),
         NEW m0, m0.vol = v, m0.start = s[i].start, Exact(m0, m),
         NEW end \in Nat, s[i].pos < end, Done(m, (end - 1) \div ClusterSize, TRUE)
  PROVE  /\ Mapped(m, (end - 1) \div ClusterSize) => Tight(m, Greater(s[i].size, end))
         /\ ~Mapped(m, (end - 1) \div ClusterSize) /\ m.cu # FREE =>
              Tight(m, Greater(s[i].size, (m.rel + 1) * ClusterSize))
         /\ ~Mapped(m, (end - 1) \div ClusterSize) /\ ~ (m.cu # FREE /\ m.rel >= s[i].pos \div ClusterSize) =>
              Tight(m, Stuck(s[i], m))
<1> DEFINE D == ClusterSize
           to == (end - 1) \div D
           first == s[i].pos \div D
           size == s[i].size
           pos == s[i].pos
           R == Room(m.vol.fat, m.start)
           b == (m.rel + 1) * D
<1>1. /\ D \in Nat \ {0} /\ m.rel \in Nat /\ size \in Nat /\ pos \in Nat /\ R \in Nat /\ FnodeOK(m)
  BY Sizes, RoomGrows DEF Advanced
<1>2. b \in Nat
  BY <1>1, Times
<1>3. R < size + D \/ R = b
  BY FileRoom
<1>4. ~Mapped(m, to) => R = IF m.cu = FREE THEN 0 ELSE b
  BY <1>1, DoneRoom
<1>5. end - 1 \in Nat /\ to \in Nat /\ to * D =< end - 1 /\ first \in Nat /\ first * D =< pos
  BY <1>1, ClusterOf
<1> HIDE DEF to, first, D, b, R
<1>6. ASSUME Mapped(m, to) PROVE R < Greater(size, end) + D
  <2>1. m.rel = to
    BY <1>6 DEF Mapped
  <2>2. b = to * D + D
    BY <2>1, <1>1, <1>5, Times DEF b, D
  <2> DEFINE c == to * D
  <2>3. c \in Nat /\ b = c + D /\ c < end
    BY <1>1, <1>5, <2>2, Times DEF D
  <2>4. Greater(size, end) \in Nat /\ size =< Greater(size, end) /\ end =< Greater(size, end)
    BY <1>1, GreaterIs
  <2> HIDE DEF c
  <2> QED
    BY <1>1, <1>3, <2>3, <2>4
<1>7. ASSUME ~Mapped(m, to), m.cu # FREE PROVE R < Greater(size, b) + D
  <2>1. Greater(size, b) \in Nat /\ b =< Greater(size, b)
    BY <1>1, <1>2, GreaterIs
  <2> QED
    BY <1>1, <1>2, <1>4, <1>7, <2>1
<1>8. ASSUME ~Mapped(m, to), ~ (m.cu # FREE /\ m.rel >= first) PROVE R < Stuck(s[i], m) + D
  <2>1. CASE m.cu = FREE
    <3>1. R = 0 /\ Stuck(s[i], m) = size
      BY <1>4, <1>8, <2>1 DEF Stuck
    <3> QED
      BY <1>1, <3>1
  <2>2. CASE m.cu # FREE /\ pos > size
    <3>1. R = b /\ Stuck(s[i], m) = b
      BY <1>4, <1>8, <2>2 DEF Stuck, b, D
    <3> QED
      BY <1>1, <1>2, <3>1
  <2>3. CASE m.cu # FREE /\ ~ (pos > size)
    <3>1. Stuck(s[i], m) = size /\ m.rel + 1 =< first
      BY <1>1, <1>5, <1>8, <2>3 DEF Stuck
    <3>2. b =< first * D
      BY <1>1, <1>5, <3>1, Times DEF b, D
    <3> DEFINE c == first * D
    <3>3. c \in Nat /\ b =< c /\ c =< pos /\ pos =< size
      BY <1>1, <1>5, <2>3, <3>2, Times DEF D
    <3> HIDE DEF c
    <3> QED
      BY <1>1, <1>2, <1>3, <3>1, <3>3
  <2> QED
    BY <2>1, <2>2, <2>3
<1> QED
  BY <1>6, <1>7, <1>8 DEF Tight, R, D, b, to, first
LEMMA BrowsedTrim ==
  ASSUME Spare, NEW i \in Sfts, sft[i] # Closed, Browsed(i)
  PROVE  Trim
<1>1. PICK m, pos : /\ Advanced(vol, dir, sft, i, m) /\ m.vol = vol /\ m.start = sft[i].start
                    /\ sft' = With(sft, i, NewOf(sft[i], m, sft[i].size, pos, sft[i].clean))
                    /\ FitsIn(m, sft[i].size, pos)
  BY Zenon DEF Browsed
<1>2. vol' = vol /\ dir' = dir
  BY DEF Browsed
<1> DEFINE r == NewOf(sft[i], m, sft[i].size, pos, sft[i].clean)
<1>3. /\ SftsOK(dir, sft) /\ sft \in SftsOf /\ sft[i] \in SftOf /\ sft[i].clean \in BOOLEAN
      /\ Lossless(vol.fat, dir, sft)
  BY SoundFacts DEF Spare, Now, SftsOf, SftOf
<1>4. FileSteps(vol.fat, dir, sft, i, r, vol.fat)
  <2>1. Moved(vol, dir, sft, i, m)
    BY <1>1, AdvancedMoved
  <2>2. sft[i].size \in 0..MaxSize /\ pos \in 0..MaxSize /\ sft[i].size =< Room(m.vol.fat, m.start)
    BY <1>1 DEF FitsIn
  <2> DEFINE cl == sft[i].clean
  <2>3. cl => sft[i].clean /\ m.start = sft[i].start /\ sft[i].size = sft[i].size
    BY <1>1
  <2>4. cl \in BOOLEAN
    BY <1>3
  <2> HIDE DEF cl
  <2>5. FileSteps(vol.fat, dir, sft, i, NewOf(sft[i], m, sft[i].size, pos, cl), m.vol.fat)
    BY <2>1, <2>2, <2>3, <2>4, MovedSft
  <2> QED
    BY <2>5, <1>1 DEF cl
<1>5. r.loc = sft[i].loc /\ r.start = sft[i].start /\ r.size = sft[i].size
  BY <1>1, NewOfIs
<1> HIDE DEF r
<1>6. \A k \in Locs :
        /\ St(dir, With(sft, i, r))[k] = IF k = sft[i].loc THEN r.start ELSE St(dir, sft)[k]
        /\ Sz(dir, With(sft, i, r))[k] = IF k = sft[i].loc THEN r.size ELSE Sz(dir, sft)[k]
  BY <1>4, FileStep
<1>7. St(dir, sft)[sft[i].loc] = sft[i].start /\ Sz(dir, sft)[sft[i].loc] = sft[i].size
  BY <1>3, OpenIs
<1> DEFINE s2 == With(sft, i, r)
<1>8. sft' = s2
  BY <1>1 DEF r
<1> HIDE DEF s2
<1>9. \A k \in Files(dir) : St(dir, s2)[k] = St(dir, sft)[k] /\ Sz(dir, s2)[k] = Sz(dir, sft)[k]
  BY <1>5, <1>6, <1>7 DEF s2, Files
<1>10. Lossless(vol.fat, dir, s2)
  BY <1>3, <1>9, LosslessSame
<1> QED
  BY <1>2, <1>8, <1>10 DEF Trim

LEMMA ReadTrim ==
  ASSUME Spare, NEW i \in Sfts, NEW n \in Nat \ {0}, rwblock_read(i, n)
  PROVE  Trim
<1>1. sft[i] # Closed
  BY Zenon DEF rwblock_read
<1> QED
  BY <1>1, NowReady, ReadStep, BrowsedTrim DEF Spare

LEMMA SeekTrim ==
  ASSUME Spare, NEW i \in Sfts, NEW pos \in Seeks, SftSeek(i, pos)
  PROVE  Trim
<1>1. sft[i] # Closed
  BY DEF SftSeek
<1> QED
  BY <1>1, NowReady, SeekStep, BrowsedTrim DEF Spare

\* rwblock_write: only what the size needs is allocated, also when the disk gets full.
LEMMA WriteTrim ==
  ASSUME Spare, NEW i \in Sfts, NEW n \in Nat \ {0}, rwblock_write(i, n)
  PROVE  Trim
<1> DEFINE s == sft[i]
           first == s.pos \div ClusterSize
           end == s.pos + n
           to == (end - 1) \div ClusterSize
           begin == Rewound(Fnode(i), first)
           full == map_cluster(begin, to, TRUE)
           Onto(m) == m.cu # FREE /\ m.rel >= first
           Ends(m, size, pos) == sft' = [Back(i, m, size, pos) EXCEPT ![i].clean = FALSE]
           b == (full.rel + 1) * ClusterSize
<1>1. /\ s # Closed /\ end =< MaxSize /\ dir' = dir
      /\ \/ /\ vol' = full.vol
            /\ IF Mapped(full, to) THEN Ends(full, Greater(s.size, end), end)
               ELSE IF Onto(full) THEN Ends(full, Greater(s.size, b), b)
               ELSE Ends(full, Stuck(s, full), s.pos)
         \/ \E m \in Interrupted(begin, to, TRUE) : Fault(FALSE)
  BY Zenon DEF rwblock_write
<1>2. /\ vol \in VolOf /\ dir \in DirOf /\ sft \in SftsOf /\ Ready(vol, dir, sft, i) /\ Lossless(vol.fat, dir, sft)
  BY <1>1, SoundFacts, NowReady DEF Spare, Now
<1>3. s.pos \in Nat
  BY <1>2, Sizes DEF SftsOf, SftOf
<1>4. end \in Nat /\ s.pos < end /\ end - 1 \in Nat
  BY <1>3
<1>5. first \in Nat /\ to \in Nat
  BY <1>3, <1>4, ClusterOf
<1>6. /\ FnodeOK(begin) /\ begin.vol = vol /\ begin.start = sft[i].start
  BY <1>2, <1>5, BeginOK, FnodeFn
<1> HIDE DEF begin
<1>7. /\ Advanced(vol, dir, sft, i, full) /\ full.rel =< to
      /\ NoLoss(begin, full) /\ Exact(begin, full) /\ Done(full, to, TRUE)
  <2> HIDE DEF to
  <2> QED
    BY <1>2, <1>5, <1>6, MapWrite
<1> HIDE DEF full
<1>8. /\ Mapped(full, to) => FitsIn(full, Greater(s.size, end), end)
      /\ full.cu # FREE /\ full.rel < to => FitsIn(full, Greater(s.size, b), b)
      /\ ~ Onto(full) => FitsIn(full, Stuck(s, full), s.pos)
  BY <1>1, <1>4, <1>7, WriteEnds
<1>9. /\ Mapped(full, to) => Tight(full, Greater(s.size, end))
      /\ ~Mapped(full, to) /\ full.cu # FREE => Tight(full, Greater(s.size, b))
      /\ ~Mapped(full, to) /\ ~ Onto(full) => Tight(full, Stuck(s, full))
  BY <1>2, <1>4, <1>6, <1>7, WriteTight
<1>10. Keeps(vol.fat, sft[i].start, full) /\ Moved(vol, dir, sft, i, full) /\ full.rel \in Nat
  BY <1>6, <1>7, MapKeeps, AdvancedMoved, RoomGrows
<1> HIDE DEF b, end, to, first
<1>11. ASSUME NEW size, NEW pos, FitsIn(full, size, pos), Tight(full, size), vol' = full.vol, Ends(full, size, pos)
       PROVE  Trim
  <2> DEFINE no == FALSE
  <2>1. sft' = With(sft, i, NewOf(sft[i], full, size, pos, no))
    BY <1>2, <1>11, BackIs
  <2>2. FileTakes(vol, dir, sft, i, full, size, pos, no)
    BY <1>2, <1>10, <1>11 DEF FileTakes
  <2> HIDE DEF no
  <2>3. Lossless(full.vol.fat, dir, With(sft, i, NewOf(sft[i], full, size, pos, no)))
    BY <2>2, FileLossless
  <2> QED
    BY <2>1, <2>3, <1>1, <1>11 DEF Trim
<1>12. CASE vol' = full.vol /\ Mapped(full, to) /\ Ends(full, Greater(s.size, end), end)
  <2> HIDE DEF Ends
  <2> QED
    BY <1>8, <1>9, <1>11, <1>12
<1>13. CASE vol' = full.vol /\ ~Mapped(full, to) /\ Onto(full) /\ Ends(full, Greater(s.size, b), b)
  <2>1. full.cu # FREE /\ full.rel < to
    BY <1>5, <1>7, <1>10, <1>13 DEF Mapped
  <2> HIDE DEF Ends
  <2> QED
    BY <2>1, <1>8, <1>9, <1>11, <1>13
<1>14. CASE vol' = full.vol /\ ~Mapped(full, to) /\ ~Onto(full) /\ Ends(full, Stuck(s, full), s.pos)
  <2> HIDE DEF Ends
  <2> QED
    BY <1>8, <1>9, <1>11, <1>14
<1> HIDE DEF Ends, Onto, s
<1> QED
  BY <1>1, <1>12, <1>13, <1>14, FaultTrim

\* What shrink_file frees is all that the file has beyond the position.
LEMMA ShrunkKeeps ==
  ASSUME NEW f, NEW start, NEW m, Keeps(f, start, m), NEW size, NEW k, NEW t, ShrunkTo(m, size, k, t),
         k = Len(Chain(m.vol.fat, m.vol.fat[m.cu]))
  PROVE  Keeps(f, start, t)
<1> SUFFICES ASSUME NEW y \in Clusters, t.vol.fat[y] # FREE
             PROVE  \/ f[y] # FREE /\ y \notin ToSet(Chain(f, start))
                    \/ y \in ToSet(Chain(t.vol.fat, t.start))
  BY DEF Keeps
<1>1. CASE y \in ToSet(Chain(m.vol.fat, m.start))
  <2>1. t.vol.fat[y] # FREE <=> y \in ToSet(Chain(t.vol.fat, t.start))
    BY <1>1 DEF ShrunkTo
  <2> QED
    BY <2>1
<1>2. CASE y \notin ToSet(Chain(m.vol.fat, m.start))
  <2>1. t.vol.fat[y] = m.vol.fat[y]
    BY <1>2 DEF ShrunkTo
  <2> QED
    BY <2>1, <1>2 DEF Keeps
<1> QED
  BY <1>1, <1>2

\* As many clusters as the position needs.
LEMMA ShrunkTight ==
  ASSUME NEW pos \in Nat, NEW m, m.rel \in Nat, m.rel = LastByte(pos), NEW t,
         Len(Chain(t.vol.fat, t.start)) = IF pos = 0 THEN 0 ELSE m.rel + 1
  PROVE  Tight(t, pos)
<1> DEFINE D == ClusterSize
           c == LastByte(pos) * D
           R == Room(t.vol.fat, t.start)
<1>1. D \in Nat \ {0} /\ LastByte(pos) \in Nat /\ (pos > 0 => LastByte(pos) * D < pos)
  BY Sizes, LastByteIs
<1>2. c \in Nat /\ (LastByte(pos) + 1) * D = c + D /\ 0 * D = 0
  BY <1>1, Times, Sizes
<1>3. R = IF pos = 0 THEN 0 ELSE c + D
  <2>1. CASE pos = 0
    BY <2>1, <1>2 DEF Room
  <2>2. CASE pos # 0
    <3>1. R = (LastByte(pos) + 1) * D
      BY <2>2 DEF Room
    <3> QED
      BY <2>2, <3>1, <1>2
  <2> QED
    BY <2>1, <2>2
<1>4. pos > 0 => c < pos
  BY <1>1
<1>5. c \in Nat
  BY <1>2
<1> HIDE DEF c, R, D
<1>6. R < pos + D
  BY <1>1, <1>3, <1>4, <1>5
<1> QED
  BY <1>6 DEF Tight, R, D

\* A write of nothing leaves the clusters that the position needs, or those there are.
LEMMA TruncTrim ==
  ASSUME Spare, NEW i \in Sfts, rwblock_trunc(i)
  PROVE  Trim
<1> DEFINE s == sft[i]
           last == LastByte(s.pos)
           grow == s.pos > s.size
           m0 == Fnode(i)
           m == map_cluster(m0, last, grow)
           rest == IF m.cu = FREE THEN 0 ELSE Len(Chain(m.vol.fat, m.vol.fat[m.cu]))
           Ends(x, size) == sft' = [Back(i, x, size, s.pos) EXCEPT ![i].clean = FALSE]
           t(k) == Shrunk(m, s.pos, k)
<1>1. /\ s # Closed /\ dir' = dir
      /\ \/ s.pos = 0 /\ s.cu = FREE /\ vol' = vol /\ Ends(m0, 0)
         \/ /\ s.pos > s.size /\ ~Mapped(m, last)
            /\ vol' = m.vol /\ Ends(m, Stuck(s, m))
         \/ /\ Mapped(m, last)
            /\ \E k \in 0..rest :
                 /\ IF s.pos > 0 /\ m.vol.fat[m.cu] = LAST
                    THEN vol' = m.vol /\ Ends(m, s.pos)
                    ELSE vol' = t(k).vol /\ Ends(t(k), s.pos)
                 /\ IF k < rest THEN Fault(FALSE) ELSE Fine
         \/ Fault(s.pos = 0 \/ m.vol.fat[m.cu] # LAST)
         \/ Fault(FALSE)
  BY ZenonT(60) DEF rwblock_trunc
<1>2. /\ vol \in VolOf /\ dir \in DirOf /\ sft \in SftsOf /\ Ready(vol, dir, sft, i) /\ Lossless(vol.fat, dir, sft)
  BY <1>1, SoundFacts, NowReady DEF Spare, Now
<1>3. s.pos \in 0..MaxSize /\ s.size \in 0..MaxSize /\ s.pos \in Nat /\ s.size \in Nat
  BY <1>2, Sizes DEF SftsOf, SftOf
<1>4. last \in Nat
  BY <1>3, LastByteIs
<1>5. FnodeOK(m0) /\ m0.vol = vol /\ m0.start = sft[i].start /\ m0.cu = s.cu /\ Advanced(vol, dir, sft, i, m0)
  BY <1>2, ReadyFacts, FnodeFn DEF Fn
<1>6. grow \in BOOLEAN
  OBVIOUS
<1> HIDE DEF grow, last
<1>7. /\ Advanced(vol, dir, sft, i, m) /\ m.rel =< last /\ FnodeOK(m)
      /\ NoLoss(m0, m) /\ Done(m, last, grow)
  <2>1. m = map_cluster(m0, last, grow)
    OBVIOUS
  <2> HIDE DEF m, m0
  <2>2. StepGood(m0, m, last, grow) /\ Done(m, last, grow)
    BY ONLY <2>1, <1>4, <1>5, <1>6, MapOK
  <2>3. Gone(m0, m, last) /\ NoLoss(m0, m)
    BY <2>2 DEF StepGood
  <2> QED
    <3>1. FnodeOK(m)
      BY <2>3 DEF Gone
    <3>2. Advanced(vol, dir, sft, i, m) /\ m.rel =< last
      <4>1. Gone(m0, m, last)
        BY <2>3
      <4> QED
        BY <1>2, <1>4, <1>5, <4>1, GoneAdvanced
    <3> QED
      BY <2>2, <2>3, <3>1, <3>2
<1> HIDE DEF m0, m
<1>8. Keeps(vol.fat, s.start, m0) /\ Keeps(vol.fat, s.start, m)
  <2>1. NoLoss(m0, m0)
    BY <1>5, FnodeLen
  <2> QED
    BY <2>1, <1>5, <1>7, MapKeeps
<1>9. m.rel \in Nat /\ Moved(vol, dir, sft, i, m0) /\ Moved(vol, dir, sft, i, m)
  BY <1>5, <1>7, RoomGrows, AdvancedMoved
<1>10. /\ s.pos > s.size /\ ~Mapped(m, last) => FitsIn(m, Stuck(s, m), s.pos)
       /\ Mapped(m, last) => FitsIn(m, s.pos, s.pos)
  BY SMTT(30), <1>7, TruncEnds DEF last
<1>11. ASSUME NEW x, NEW size, Moved(vol, dir, sft, i, x), FitsIn(x, size, s.pos), Tight(x, size),
              Keeps(vol.fat, s.start, x), vol' = x.vol, Ends(x, size)
       PROVE  Trim
  <2> DEFINE no == FALSE
  <2>1. sft' = With(sft, i, NewOf(sft[i], x, size, s.pos, no))
    BY <1>2, <1>11, BackIs
  <2>2. FileTakes(vol, dir, sft, i, x, size, s.pos, no)
    BY <1>2, <1>11 DEF FileTakes
  <2> HIDE DEF no
  <2>3. Lossless(x.vol.fat, dir, With(sft, i, NewOf(sft[i], x, size, s.pos, no)))
    BY <2>2, FileLossless
  <2> QED
    BY <2>1, <2>3, <1>1, <1>11 DEF Trim
<1>12. CASE s.pos = 0 /\ s.cu = FREE /\ vol' = vol /\ Ends(m0, 0)
  <2>1. FitsIn(m0, 0, s.pos)
    <3>1. 0 \in 0..MaxSize /\ 0 =< Room(m0.vol.fat, m0.start)
      BY <1>5, RoomGrows, Sizes
    <3> QED
      BY <3>1, <1>3 DEF FitsIn
  <2>2. Tight(m0, 0)
    <3>1. Len(Chain(m0.vol.fat, m0.start)) = 0
      BY <1>5, <1>12, FnodeLen
    <3>2. 0 * ClusterSize = 0 /\ 0 < 0 + ClusterSize
      BY Sizes
    <3> QED
      BY <3>1, <3>2 DEF Tight, Room
  <2> HIDE DEF Ends, s
  <2> QED
    BY <2>1, <2>2, <1>5, <1>8, <1>9, <1>11, <1>12
<1>13. CASE s.pos > s.size /\ ~Mapped(m, last) /\ vol' = m.vol /\ Ends(m, Stuck(s, m))
  <2>1. Tight(m, Stuck(s, m))
    <3> DEFINE b == (m.rel + 1) * ClusterSize
               R == Room(m.vol.fat, m.start)
    <3>1. R = IF m.cu = FREE THEN 0 ELSE b
      BY <1>4, <1>6, <1>7, <1>13, DoneRoom
    <3>2. b \in Nat /\ ClusterSize \in Nat \ {0}
      BY <1>9, Sizes, Times
    <3>3. Stuck(s, m) = IF m.cu = FREE THEN s.size ELSE b
      BY <1>13 DEF Stuck
    <3> HIDE DEF b, R
    <3>4. R < Stuck(s, m) + ClusterSize
      BY <3>1, <3>2, <3>3, <1>3
    <3> QED
      BY <3>4 DEF Tight, R
  <2> HIDE DEF Ends, s
  <2> QED
    BY <2>1, <1>8, <1>9, <1>10, <1>11, <1>13
<1>14. ASSUME Mapped(m, last), NEW k \in 0..rest,
              IF s.pos > 0 /\ m.vol.fat[m.cu] = LAST
              THEN vol' = m.vol /\ Ends(m, s.pos)
              ELSE vol' = t(k).vol /\ Ends(t(k), s.pos),
              IF k < rest THEN Fault(FALSE) ELSE Fine
       PROVE  Trim
  <2>1. m.cu # FREE /\ m.rel = LastByte(s.pos)
    BY <1>14 DEF Mapped, last
  <2>2. rest = Len(Chain(m.vol.fat, m.vol.fat[m.cu]))
    BY <2>1
  <2>3. CASE s.pos > 0 /\ m.vol.fat[m.cu] = LAST
    <3>1. vol' = m.vol /\ Ends(m, s.pos)
      BY <1>14, <2>3
    <3>2. Len(Chain(m.vol.fat, m.start)) = IF s.pos = 0 THEN 0 ELSE m.rel + 1
      <4>1. AtEnd(m)
        BY <2>3 DEF AtEnd
      <4> QED
        BY <4>1, <2>1, <2>3, <1>7, FnodeEnd
    <3>3. Tight(m, s.pos)
      <4> HIDE DEF s
      <4> QED
        BY <3>2, <2>1, <1>3, <1>9, ShrunkTight
    <3> HIDE DEF Ends, s
    <3> QED
      BY <3>1, <3>3, <1>8, <1>9, <1>10, <1>11, <1>14
  <2>4. CASE ~ (s.pos > 0 /\ m.vol.fat[m.cu] = LAST) /\ ~ (k < rest)
    <3> DEFINE x == t(k)
    <3>1. vol' = x.vol /\ Ends(x, s.pos)
      BY <1>14, <2>4
    <3>2. rest \in Nat
      BY <2>1, <2>2, <1>7, FnodeEnd, FnodeLen
    <3>3. k = rest
      <4> HIDE DEF rest
      <4> QED
        BY <3>2, <2>4
    <3>4. k = Len(Chain(m.vol.fat, m.vol.fat[m.cu])) /\ k \in 0..Len(Chain(m.vol.fat, m.vol.fat[m.cu]))
      BY <3>3, <2>2
    <3>5. s.pos = 0 => m.rel = 0
      BY <2>1, <1>3, LastByteIs
    <3>6. ShrunkTo(m, s.pos, k, x)
      BY <3>4, <3>5, <2>1, <1>3, <1>7, ShrunkOK
    <3>7. Moved(vol, dir, sft, i, x) /\ FitsIn(x, s.pos, s.pos)
      BY <3>4, <1>7, <1>14, ShrunkMoved DEF last
    <3> HIDE DEF x, t, rest
    <3>8. Keeps(vol.fat, s.start, x)
      BY <3>4, <3>6, <1>8, ShrunkKeeps
    <3>9. Tight(x, s.pos)
      <4>1. Len(Chain(x.vol.fat, x.start)) = IF s.pos = 0 THEN 0 ELSE m.rel + 1
        BY <3>6 DEF ShrunkTo
      <4> HIDE DEF s
      <4> QED
        BY <4>1, <2>1, <1>3, <1>9, ShrunkTight
    <3> HIDE DEF Ends, s
    <3> QED
      BY <3>1, <3>7, <3>8, <3>9, <1>11
  <2>5. CASE ~ (s.pos > 0 /\ m.vol.fat[m.cu] = LAST) /\ k < rest
    BY <2>5, <1>14, FaultTrim
  <2> QED
    BY <2>3, <2>4, <2>5
<1> HIDE DEF Ends, s, rest, t
<1> DEFINE bad == s.pos = 0 \/ m.vol.fat[m.cu] # LAST
<1>15. CASE Fault(bad)
  <2> HIDE DEF bad
  <2> QED
    BY <1>15, FaultTrim
<1> QED
  BY <1>1, <1>12, <1>13, <1>14, <1>15, FaultTrim

-----------------------------------------------------------------------------
(* Nothing is lost: freeing, and new entries.                              *)

\* What was freed is all that the file had.
Frees(v, d, s, l, w, d2) ==
  /\ Sound(v, d, s) /\ Lossless(v.fat, d, s) /\ l \in Files(d) /\ At(s, l) = {}
  /\ w = Wiped(v, FirstOf(v.fat, d[l].start, Len(Chain(v.fat, d[l].start))))
  /\ Kept(v.fat, d, s, w.fat, d2, s, l)
  /\ \A j \in Files(d2) : j \in Files(d) /\ (j = l => d2[l].start = FREE)
  /\ \A j \in Files(d) : j # l => d2[j].isdir = d[j].isdir

LEMMA FreedLossless ==
  ASSUME NEW v, NEW d, NEW s, NEW l, NEW w, NEW d2, Frees(v, d, s, l, w, d2), d2 \in DirOf
  PROVE  Lossless(w.fat, d2, s)
<1> DEFINE c == Chain(v.fat, d[l].start)
           k == Len(c)
           g == w.fat
<1>1. /\ Sound(v, d, s) /\ Lossless(v.fat, d, s) /\ l \in Files(d) /\ At(s, l) = {}
      /\ w = Wiped(v, FirstOf(v.fat, d[l].start, k))
      /\ Kept(v.fat, d, s, w.fat, d2, s, l)
      /\ \A j \in Files(d2) : j \in Files(d) /\ (j = l => d2[l].start = FREE)
      /\ \A j \in Files(d) : j # l => d2[j].isdir = d[j].isdir
  BY DEF Frees
<1>2. /\ l \in Locs /\ Whole(v.fat, d[l].start) /\ d[l].start \in Clusters \cup {FREE}
      /\ St(d, s)[l] = d[l].start /\ v \in VolOf /\ CountOK(v)
  BY <1>1, IdleFile, SoundFacts
<1>3. k \in Nat /\ k \in 0..k
  BY <1>2, ChainFacts
<1>4. \A x \in Clusters : g[x] = IF x \in ToSet(c) THEN FREE ELSE v.fat[x]
  <2> DEFINE F == FirstOf(v.fat, d[l].start, k)
  <2>1. /\ \A x \in Clusters : Wiped(v, F).fat[x] = IF x \in F THEN FREE ELSE v.fat[x]
        /\ F = ToSet(c)
    BY <1>2, <1>3, FirstOfIs
  <2> HIDE DEF F, c
  <2> QED
    BY <2>1, <1>1 DEF F
<1>5. St(d2, s)[l] = d2[l].start /\ Sz(d2, s)[l] = d2[l].size
  BY <1>1, <1>2, IdleIs
<1> HIDE DEF c, k
<1>6. \A x \in Clusters : g[x] # FREE => v.fat[x] # FREE /\ (l \in Files(d) => x \notin ToSet(Chain(v.fat, St(d, s)[l])))
  BY <1>2, <1>4 DEF c
<1>7. l \in Files(d2) /\ ~d2[l].isdir => Room(g, St(d2, s)[l]) < Sz(d2, s)[l] + ClusterSize
  <2> SUFFICES ASSUME l \in Files(d2) PROVE Room(g, St(d2, s)[l]) < Sz(d2, s)[l] + ClusterSize
    OBVIOUS
  <2>1. St(d2, s)[l] = FREE
    BY <1>1, <1>5
  <2>2. Chain(g, FREE) = <<>> /\ Len(<<>>) = 0 /\ 0 * ClusterSize = 0
    BY NoChain, Sizes
  <2>3. Sz(d2, s)[l] \in Nat
    BY <1>2, <1>5, Sizes DEF DirOf, Entries
  <2>4. Room(g, St(d2, s)[l]) = 0
    BY <2>1, <2>2 DEF Room
  <2> QED
    BY <2>3, <2>4, Sizes
<1>8. \A j \in Files(d) : j # l =>
        /\ j \in Files(d2) /\ Chain(g, St(d2, s)[j]) = Chain(v.fat, St(d, s)[j])
        /\ Sz(d2, s)[j] = Sz(d, s)[j] /\ d2[j].isdir = d[j].isdir
  BY <1>1 DEF Kept
<1>9. \A j \in Files(d2) : j = l \/ (j \in Files(d) /\ j # l)
  BY <1>1
<1>10. Compacts(v.fat, d, s, g, d2, s, l, l)
  BY ONLY <1>1, <1>6, <1>7, <1>8, <1>9 DEF Compacts
<1> QED
  BY <1>10, Compacted

LEMMA OpenTruncTrim ==
  ASSUME Spare, NEW i \in Sfts, NEW l \in Locs, dos_open_trunc(i, l)
  PROVE  Trim
<1> DEFINE all == Len(Chain(vol.fat, dir[l].start))
           d2 == [dir EXCEPT ![l] = Entry(dir[l].name, FREE, 0)]
<1>1. sft[i] = Closed /\ l \in Files(dir) /\ ~dir[l].isdir /\ At(sft, l) = {}
  BY DEF dos_open_trunc, Live, Files, Idle, OpenAt, At
<1>2. PICK k \in 0..all :
        /\ vol' = Wiped(vol, FirstOf(vol.fat, dir[l].start, k))
        /\ \/ /\ dir' = d2 /\ sft' = With(sft, i, Opened(l, dir'))
              /\ IF k < all THEN Fault(FALSE) ELSE Fine
           \/ Fault(k > 0)
  BY DEF dos_open_trunc, With
<1>3. Sound(vol, dir, sft) /\ Lossless(vol.fat, dir, sft) /\ dir \in DirOf
  BY SoundFacts DEF Spare, Now
<1>4. all \in Nat
  BY <1>1, <1>3, IdleFile, ChainFacts
<1>5. CASE dir' = d2 /\ sft' = With(sft, i, Opened(l, dir')) /\ ~ (k < all)
  <2> DEFINE w == Wiped(vol, FirstOf(vol.fat, dir[l].start, k))
  <2>1. /\ Sound(w, d2, sft) /\ l \in Files(d2) /\ ~d2[l].isdir
        /\ Kept(vol.fat, dir, sft, w.fat, d2, sft, l)
    BY <1>1, <1>3, EmptiedOK
  <2>2. k = all
    <3> HIDE DEF all
    <3> QED
      BY <1>4, <1>5
  <2>3. \A j \in Locs : j # l => d2[j] = dir[j]
    BY <1>3 DEF DirOf
  <2>4. d2[l].start = FREE
    BY <1>3 DEF DirOf, Entry
  <2>5. w = Wiped(vol, FirstOf(vol.fat, dir[l].start, Len(Chain(vol.fat, dir[l].start)))) /\ vol' = w
    BY <1>2, <2>2
  <2>6. dir' = d2 /\ sft' = With(sft, i, Opened(l, d2))
    BY <1>5
  <2> HIDE DEF w, d2, all
  <2>7. \A j \in Files(d2) : j \in Files(dir) /\ (j = l => d2[l].start = FREE)
    BY <1>1, <2>3, <2>4 DEF Files
  <2>8. \A j \in Files(dir) : j # l => d2[j].isdir = dir[j].isdir
    BY <2>3 DEF Files
  <2>9. Frees(vol, dir, sft, l, w, d2)
    BY <1>1, <1>3, <2>1, <2>5, <2>7, <2>8 DEF Frees
  <2>10. Lossless(w.fat, d2, sft)
    BY <2>1, <2>9, FreedLossless, SoundFacts
  <2> DEFINE s2 == With(sft, i, Opened(l, d2))
  <2>11. \A j \in Locs : St(d2, s2)[j] = St(d2, sft)[j] /\ Sz(d2, s2)[j] = Sz(d2, sft)[j]
    BY <1>1, <2>1, OpenedOK
  <2> HIDE DEF s2
  <2>12. \A j \in Files(d2) : St(d2, s2)[j] = St(d2, sft)[j] /\ Sz(d2, s2)[j] = Sz(d2, sft)[j]
    BY <2>11 DEF Files
  <2>13. Lossless(w.fat, d2, s2)
    BY <2>10, <2>12, LosslessSame
  <2> QED
    BY <2>5, <2>6, <2>13 DEF Trim, s2
<1> DEFINE bad == k > 0
<1> HIDE DEF bad, all, d2
<1> QED
  BY <1>2, <1>5, FaultTrim DEF bad

LEMMA DeleteTrim ==
  ASSUME Spare, NEW l \in Locs, dos_delete(l)
  PROVE  Trim
<1> DEFINE all == Len(Chain(vol.fat, dir[l].start))
           d2 == [dir EXCEPT ![l] = Blank(DELETED)]
<1>1. l \in Files(dir) /\ ~dir[l].isdir /\ At(sft, l) = {} /\ delete_dir_entry(l)
  BY DEF dos_delete, Live, Files, Idle, OpenAt, At
<1>2. PICK k \in 0..all :
        /\ vol' = Wiped(vol, FirstOf(vol.fat, dir[l].start, k))
        /\ \/ /\ dir' = Filled(d2, {}, Junk) /\ sft' = sft
              /\ IF k < all THEN Fault(FALSE) ELSE Fine
           \/ Fault(k > 0)
  BY <1>1 DEF delete_dir_entry
<1>3. Sound(vol, dir, sft) /\ Lossless(vol.fat, dir, sft) /\ dir \in DirOf
  BY SoundFacts DEF Spare, Now
<1>4. all \in Nat
  BY <1>1, <1>3, IdleFile, ChainFacts
<1>5. CASE dir' = Filled(d2, {}, Junk) /\ sft' = sft /\ ~ (k < all)
  <2> DEFINE w == Wiped(vol, FirstOf(vol.fat, dir[l].start, k))
  <2>1. Sound(w, d2, sft) /\ Kept(vol.fat, dir, sft, w.fat, d2, sft, l)
    BY <1>1, <1>3, DeletedOK
  <2>2. k = all
    <3> HIDE DEF all
    <3> QED
      BY <1>4, <1>5
  <2>3. \A j \in Locs : j # l => d2[j] = dir[j]
    BY <1>3 DEF DirOf
  <2>4. l \notin Files(d2)
    <3>1. d2[l] = Blank(DELETED)
      BY <1>3 DEF DirOf
    <3> HIDE DEF d2
    <3> QED
      BY <3>1, Blanks, NamesApart DEF Files
  <2>5. w = Wiped(vol, FirstOf(vol.fat, dir[l].start, Len(Chain(vol.fat, dir[l].start)))) /\ vol' = w
    BY <1>2, <2>2
  <2>6. d2 \in DirOf
    BY <2>1, SoundFacts
  <2> HIDE DEF w, d2, all
  <2>7. \A j \in Files(d2) : j \in Files(dir) /\ (j = l => d2[l].start = FREE)
    BY <2>3, <2>4 DEF Files
  <2>8. \A j \in Files(dir) : j # l => d2[j].isdir = dir[j].isdir
    BY <2>3 DEF Files
  <2>9. Frees(vol, dir, sft, l, w, d2)
    BY <1>1, <1>3, <2>1, <2>5, <2>7, <2>8 DEF Frees
  <2>10. Lossless(w.fat, d2, sft)
    BY <2>6, <2>9, FreedLossless
  <2>11. Filled(d2, {}, Junk) = d2
    BY <2>6 DEF Filled, DirOf
  <2> QED
    BY <1>5, <2>5, <2>10, <2>11 DEF Trim
<1> DEFINE bad == k > 0
<1> HIDE DEF bad, all, d2
<1> QED
  BY <1>2, <1>5, FaultTrim DEF bad

LEMMA RmdirTrim ==
  ASSUME Spare, NEW l \in Locs, dos_rmdir(l)
  PROVE  Trim
<1> DEFINE all == Len(Chain(vol.fat, dir[l].start))
           d2 == Filled([dir EXCEPT ![l] = Blank(DELETED)], ToSet(Chain(vol.fat, dir[l].start)), Junk)
<1>1. /\ l \in Dir(dir) /\ l \in Files(dir) /\ delete_dir_entry(l)
      /\ \A e \in ToSet(InDir(vol.fat, dir[l].start)) : dir[e].name \in {NeverUsed, DELETED}
  BY DEF dos_rmdir, Live, Files, Dir
<1>2. PICK k \in 0..all :
        /\ vol' = Wiped(vol, FirstOf(vol.fat, dir[l].start, k))
        /\ \/ /\ dir' = d2 /\ sft' = sft
              /\ IF k < all THEN Fault(FALSE) ELSE Fine
           \/ Fault(k > 0)
  BY <1>1 DEF delete_dir_entry, Dir
<1>3. /\ Sound(vol, dir, sft) /\ SftsOK(dir, sft) /\ sft \in SftsOf /\ dir \in DirOf /\ FilesOK(vol.fat, dir, sft)
      /\ DirsOK(dir) /\ Lossless(vol.fat, dir, sft)
  BY SoundFacts DEF Spare, Now
<1>4. At(sft, l) = {}
  BY <1>1, <1>3, DirClosed
<1>5. all \in Nat
  BY <1>1, <1>3, <1>4, IdleFile, ChainFacts
<1>6. CASE dir' = d2 /\ sft' = sft /\ ~ (k < all)
  <2> DEFINE w == Wiped(vol, FirstOf(vol.fat, dir[l].start, k))
             C == ToSet(Chain(vol.fat, dir[l].start))
  <2>1. \A j \in Locs : j[1] \in C => dir[j].name \in {NeverUsed, DELETED}
    BY <1>1, <1>3, EmptyDir
  <2>2. k = all
    <3> HIDE DEF all
    <3> QED
      BY <1>5, <1>6
  <2>3. Removes(vol, dir, sft, l, k, d2)
    BY <1>1, <1>3, <2>1 DEF Removes
  <2>4. w = Wiped(vol, FirstOf(vol.fat, dir[l].start, Len(Chain(vol.fat, dir[l].start)))) /\ vol' = w
    BY <1>2, <2>2
  <2> HIDE DEF d2
  <2>5. /\ Sound(w, d2, sft) /\ Files(d2) = Files(dir) \ {l}
        /\ Kept(vol.fat, dir, sft, w.fat, d2, sft, l)
        /\ \A j \in Locs : d2[j] = IF j[1] \in C THEN Blank(Junk) ELSE IF j = l THEN Blank(DELETED) ELSE dir[j]
    BY <2>3, RemovedOK
  <2> HIDE DEF w, all, C
  <2>6. \A j \in Files(dir) : j # l => d2[j].isdir = dir[j].isdir
    <3> SUFFICES ASSUME NEW j \in Files(dir), j # l PROVE d2[j] = dir[j]
      OBVIOUS
    <3>1. j \in Locs /\ dir[j].name \notin {NeverUsed, DELETED}
      BY NamesApart DEF Files
    <3> QED
      BY <3>1, <2>1, <2>5
  <2>7. \A j \in Files(d2) : j \in Files(dir) /\ (j = l => d2[l].start = FREE)
    BY <2>5
  <2>8. Frees(vol, dir, sft, l, w, d2)
    BY <1>1, <1>3, <1>4, <2>4, <2>5, <2>6, <2>7 DEF Frees
  <2>9. Lossless(w.fat, d2, sft)
    BY <2>5, <2>8, FreedLossless, SoundFacts
  <2> QED
    BY <1>6, <2>4, <2>9 DEF Trim
<1> DEFINE bad == k > 0
<1> HIDE DEF bad, all, d2
<1> QED
  BY <1>2, <1>6, FaultTrim DEF bad

\* A directory grows by a cluster that is its own.
LEMMA RoomLossless ==
  ASSUME Sound(vol, dir, sft), Lossless(vol.fat, dir, sft), NEW d \in Dirs, HasRoom(d)
  PROVE  Lossless(Vol(d).fat, Cleared(d), sft)
<1>1. CASE ~Grows(d)
  <2>1. Vol(d) = vol /\ Cleared(d) = dir
    BY <1>1 DEF Vol, Cleared
  <2> QED
    BY <2>1
<1>2. CASE Grows(d)
  <2> DEFINE f == vol.fat
             g == Vol(d).fat
             e == Cleared(d)
  <2>1. Free(vol.fat) # {}
    BY <1>2 DEF Grows, HasRoom
  <2>2. PICK k, x : GrownDir(d, k, x)
    BY <1>2, <2>1, LargerOK
  <2>3. /\ k \in Dir(dir) /\ dir[k].start = d
        /\ ToSet(Chain(g, d)) = ToSet(Chain(f, d)) \cup {x}
        /\ \A y \in Clusters : g[y] # FREE <=> f[y] # FREE \/ y = x
    BY <2>2 DEF GrownDir
  <2>4. Sound(Vol(d), e, sft) /\ Kept(f, dir, sft, g, e, sft, k)
    BY <2>2, GrownOK
  <2>5. Files(e) = Files(dir) /\ Dir(e) = Dir(dir) /\ \A j \in Files(dir) : e[j] = dir[j]
    BY RoomOK
  <2>6. k \in Files(dir) /\ St(dir, sft)[k] = d
    BY <2>3, DirClosed, SoundFacts
  <2>7. SftsOK(e, sft) /\ k \in Dir(e)
    BY <2>3, <2>4, <2>5, SoundFacts
  <2> HIDE DEF e, f, g
  <2>8. St(e, sft)[k] = e[k].start
    BY <2>7, DirClosed
  <2>9. St(e, sft)[k] = d
    BY <2>3, <2>5, <2>6, <2>8
  <2>10. e[k].isdir
    BY <2>7 DEF Dir
  <2>11. \A j \in Files(dir) : j # k =>
           /\ j \in Files(e) /\ Chain(g, St(e, sft)[j]) = Chain(f, St(dir, sft)[j])
           /\ Sz(e, sft)[j] = Sz(dir, sft)[j] /\ e[j].isdir = dir[j].isdir
    BY <2>4, <2>5 DEF Kept
  <2>12. \A j \in Files(e) : j = k \/ (j \in Files(dir) /\ j # k)
    BY <2>5
  <2>13. ASSUME NEW y \in Clusters, g[y] # FREE
         PROVE  \/ f[y] # FREE /\ (k \in Files(dir) => y \notin ToSet(Chain(f, St(dir, sft)[k])))
                \/ k \in Files(e) /\ y \in ToSet(Chain(g, St(e, sft)[k]))
    BY <2>3, <2>5, <2>6, <2>9, <2>13
  <2>14. Lossless(f, dir, sft)
    BY DEF f
  <2>15. Compacts(f, dir, sft, g, e, sft, k, k)
    BY ONLY <2>10, <2>11, <2>12, <2>13, <2>14 DEF Compacts
  <2>16. Lossless(g, e, sft)
    BY <2>15, Compacted
  <2> QED
    BY <2>16 DEF e, g
<1> QED
  BY <1>1, <1>2

\* A file without clusters has none too many.
LEMMA MadeLossless ==
  ASSUME NEW v, NEW d, NEW s, Sound(v, d, s), Lossless(v.fat, d, s), NEW n \in Locs,
         d[n].name \in {NeverUsed, DELETED}, NEW name \in Names,
         NEW d2, d2 = [d EXCEPT ![n] = Entry(name, FREE, 0)]
  PROVE  Lossless(v.fat, d2, s)
<1>1. /\ Sound(v, d2, s) /\ n \in Files(d2) /\ At(s, n) = {} /\ Kept(v.fat, d, s, v.fat, d2, s, n)
  BY MadeOK
<1>2. n \notin Files(d) /\ d \in DirOf
  BY UnusedIs, SoundFacts
<1>3. d2[n] = Entry(name, FREE, 0) /\ \A j \in Locs : j # n => d2[j] = d[j]
  BY <1>2 DEF DirOf
<1>4. d2[n].start = FREE /\ d2[n].size = 0
  BY <1>3 DEF Entry
<1>5. St(d2, s)[n] = FREE /\ Sz(d2, s)[n] = 0
  <2>1. St(d2, s)[n] = d2[n].start /\ Sz(d2, s)[n] = d2[n].size
    BY ONLY n \in Locs, <1>1, IdleIs
  <2> QED
    BY <1>4, <2>1
<1>6. Room(v.fat, St(d2, s)[n]) < Sz(d2, s)[n] + ClusterSize
  <2>1. Chain(v.fat, FREE) = <<>> /\ Len(<<>>) = 0 /\ 0 * ClusterSize = 0 /\ 0 < 0 + ClusterSize
    BY NoChain, Sizes
  <2>2. Room(v.fat, FREE) = 0
    BY <2>1 DEF Room
  <2> QED
    BY <1>5, <2>1, <2>2
<1>7. \A j \in Files(d) : j # n =>
        /\ j \in Files(d2) /\ Chain(v.fat, St(d2, s)[j]) = Chain(v.fat, St(d, s)[j])
        /\ Sz(d2, s)[j] = Sz(d, s)[j] /\ d2[j].isdir = d[j].isdir
  <2>1. \A j \in Files(d) : j # n => d2[j] = d[j]
    BY <1>3 DEF Files
  <2> QED
    BY <1>1, <2>1 DEF Kept
<1>8. \A j \in Files(d2) : j = n \/ (j \in Files(d) /\ j # n)
  BY <1>3 DEF Files
<1>9. \A x \in Clusters : v.fat[x] # FREE =>
        v.fat[x] # FREE /\ (n \in Files(d) => x \notin ToSet(Chain(v.fat, St(d, s)[n])))
  BY <1>2
<1>10. Compacts(v.fat, d, s, v.fat, d2, s, n, n)
  BY ONLY <1>6, <1>7, <1>8, <1>9, Lossless(v.fat, d, s) DEF Compacts
<1> QED
  BY <1>10, Compacted

LEMMA CreateTrim ==
  ASSUME Spare, NEW i \in Sfts, NEW d \in Dirs, NEW name \in Names, dos_create(i, d, name)
  PROVE  Trim
<1> DEFINE d2 == [Cleared(d) EXCEPT ![NewIn(d)] = Entry(name, FREE, 0)]
<1>1. /\ sft[i] = Closed
      /\ \/ HasRoom(d) /\ vol' = Vol(d) /\ dir' = d2 /\ sft' = With(sft, i, Opened(NewIn(d), dir'))
         \/ GrownOnly(d)
         \/ DiskFull
  BY DEF dos_create, With
<1>2. Sound(vol, dir, sft) /\ Lossless(vol.fat, dir, sft)
  BY DEF Spare, Now
<1>3. CASE HasRoom(d) /\ vol' = Vol(d) /\ dir' = d2 /\ sft' = With(sft, i, Opened(NewIn(d), dir'))
  <2> DEFINE n == NewIn(d)
             w == Vol(d)
             c == Cleared(d)
  <2>1. /\ Sound(w, c, sft) /\ n \in Locs /\ c[n].name \in {NeverUsed, DELETED}
        /\ Lossless(w.fat, c, sft)
    BY <1>2, <1>3, RoomOK, RoomLossless
  <2>2. d2 = [c EXCEPT ![n] = Entry(name, FREE, 0)] /\ vol' = w /\ sft' = With(sft, i, Opened(n, dir')) /\ dir' = d2
    BY <1>3
  <2> HIDE DEF n, w, c, d2
  <2>3. Sound(w, d2, sft) /\ n \in Files(d2) /\ At(sft, n) = {} /\ ~d2[n].isdir
    BY <2>1, <2>2, MadeOK
  <2>4. Lossless(w.fat, d2, sft)
    BY <2>1, <2>2, MadeLossless
  <2> DEFINE s2 == With(sft, i, Opened(n, d2))
  <2>5. \A j \in Locs : St(d2, s2)[j] = St(d2, sft)[j] /\ Sz(d2, s2)[j] = Sz(d2, sft)[j]
    BY <1>1, <2>3, OpenedOK
  <2>6. sft' = s2
    BY <2>2
  <2> HIDE DEF s2
  <2>7. \A j \in Files(d2) : St(d2, s2)[j] = St(d2, sft)[j] /\ Sz(d2, s2)[j] = Sz(d2, sft)[j]
    BY <2>5 DEF Files
  <2>8. Lossless(w.fat, d2, s2)
    BY <2>4, <2>7, LosslessSame
  <2> QED
    BY <2>2, <2>6, <2>8 DEF Trim
<1>4. ASSUME GrownOnly(d) PROVE Trim
  BY <1>4, FaultTrim DEF GrownOnly
<1> QED
  BY <1>1, <1>3, <1>4, DiskFullTrim

\* A file goes to another entry with all its clusters.
LEMMA MovedLossless ==
  ASSUME NEW v, NEW d, NEW s, Sound(v, d, s), Lossless(v.fat, d, s), NEW l \in Files(d), ~d[l].isdir, At(s, l) = {},
         NEW name \in Names, NEW n \in Locs, d[n].name \in {NeverUsed, DELETED},
         NEW b, b = [d[l] EXCEPT !.name = name], NEW d2, d2 = [d EXCEPT ![l] = Blank(DELETED), ![n] = b],
         Sound(v, d2, s), Kept(v.fat, d, s, v.fat, d2, s, l), n \in Files(d2)
  PROVE  Lossless(v.fat, d2, s)
<1>1. /\ Sound(v, d2, s) /\ Kept(v.fat, d, s, v.fat, d2, s, l)
      /\ Files(d2) \ {n} = Files(d) \ {l} /\ n \in Files(d2)
  <2>1. l \in Locs /\ d \in DirOf /\ n \notin Files(d)
    BY SoundFacts, UnusedIs DEF Files
  <2>2. l # n /\ d2[l].name = DELETED /\ \A j \in Locs : j \notin {l, n} => d2[j] = d[j]
    BY <2>1 DEF DirOf, Blank
  <2>3. \A j \in Locs \ {n} : j \in Files(d2) <=> j \in Files(d) /\ j # l
    BY <2>1, <2>2, FatFsAssumption DEF Files
  <2> QED
    BY <2>1, <2>3 DEF Files
<1>2. n \notin Files(d) /\ At(s, n) = {} /\ d \in DirOf
  BY UnusedIs, SoundFacts
<1>3. l \in Locs /\ d[l] \in Entries /\ St(d, s)[l] = d[l].start /\ Sz(d, s)[l] = d[l].size
  BY IdleFile
<1>4. b.start = d[l].start /\ b.size = d[l].size
  BY <1>3 DEF Entries
<1>5. l # n /\ d2[n] = b /\ \A j \in Locs : j \notin {l, n} => d2[j] = d[j]
  BY <1>2 DEF DirOf
<1>6. St(d2, s)[n] = St(d, s)[l] /\ Sz(d2, s)[n] = Sz(d, s)[l]
  <2>1. St(d2, s)[n] = d2[n].start /\ Sz(d2, s)[n] = d2[n].size
    BY ONLY n \in Locs, <1>2, IdleIs
  <2> QED
    BY <1>3, <1>4, <1>5, <2>1
<1>7. \A j \in Files(d) : j # l =>
        /\ j \in Files(d2) /\ Chain(v.fat, St(d2, s)[j]) = Chain(v.fat, St(d, s)[j])
        /\ Sz(d2, s)[j] = Sz(d, s)[j] /\ d2[j].isdir = d[j].isdir
  <2>1. \A j \in Files(d) : j # l => d2[j] = d[j]
    BY <1>2, <1>5 DEF Files
  <2> QED
    BY <1>1, <2>1 DEF Kept
<1>8. \A j \in Files(d2) : j = n \/ (j \in Files(d) /\ j # l)
  BY <1>1
<1>9. \A x \in Clusters : v.fat[x] # FREE =>
        \/ v.fat[x] # FREE /\ (l \in Files(d) => x \notin ToSet(Chain(v.fat, St(d, s)[l])))
        \/ n \in Files(d2) /\ x \in ToSet(Chain(v.fat, St(d2, s)[n]))
  BY <1>1, <1>6
<1>10. n \in Files(d2) /\ ~d2[n].isdir => Room(v.fat, St(d2, s)[n]) < Sz(d2, s)[n] + ClusterSize
  BY <1>6 DEF Lossless
<1>11. Compacts(v.fat, d, s, v.fat, d2, s, l, n)
  BY ONLY <1>7, <1>8, <1>9, <1>10, Lossless(v.fat, d, s) DEF Compacts
<1> QED
  BY <1>11, Compacted

LEMMA RenameTrim ==
  ASSUME Spare, NEW l \in Locs, NEW d \in Dirs, NEW name \in Names, dos_rename(l, d, name)
  PROVE  Trim
<1>1. /\ l \in Files(dir) /\ At(sft, l) = {} /\ sft' = sft
      /\ \/ dir' = [dir EXCEPT ![l].name = name] /\ vol' = vol
         \/ /\ ~dir[l].isdir /\ HasRoom(d) /\ vol' = Vol(d)
            /\ dir' = [Cleared(d) EXCEPT ![l] = Blank(DELETED), ![NewIn(d)] = [dir[l] EXCEPT !.name = name]]
         \/ Fault(FALSE)
         \/ GrownOnly(d)
         \/ DiskFull
  BY DEF dos_rename, Live, Files, Idle, OpenAt, At
<1>2. Sound(vol, dir, sft) /\ Lossless(vol.fat, dir, sft)
  BY DEF Spare, Now
<1>3. CASE dir' = [dir EXCEPT ![l].name = name] /\ vol' = vol
  <2> DEFINE d2 == [dir EXCEPT ![l].name = name]
  <2>1. /\ Files(d2) = Files(dir) /\ Kept(vol.fat, dir, sft, vol.fat, d2, sft, l)
        /\ \A j \in Locs : j # l => d2[j] = dir[j]
        /\ d2[l].isdir = dir[l].isdir /\ d2[l].start = dir[l].start /\ d2[l].size = dir[l].size
    BY <1>1, <1>2, RenamedOK
  <2> HIDE DEF d2
  <2>2. dir' = d2
    BY <1>3 DEF d2
  <2>3. St(d2, sft)[l] = St(dir, sft)[l] /\ Sz(d2, sft)[l] = Sz(dir, sft)[l]
    BY <1>1, <2>1, IdleIs
  <2>4. \A j \in Files(dir) : /\ St(d2, sft)[j] = St(dir, sft)[j] /\ Sz(d2, sft)[j] = Sz(dir, sft)[j]
                              /\ d2[j].isdir = dir[j].isdir
    BY <2>1, <2>3 DEF Kept, Files
  <2>5. Lossless(vol.fat, d2, sft)
    BY <1>2, <2>1, <2>4, LosslessSame
  <2> QED
    BY <1>1, <1>3, <2>2, <2>5 DEF Trim
<1>4. CASE /\ ~dir[l].isdir /\ HasRoom(d) /\ vol' = Vol(d)
           /\ dir' = [Cleared(d) EXCEPT ![l] = Blank(DELETED), ![NewIn(d)] = [dir[l] EXCEPT !.name = name]]
  <2> DEFINE n == NewIn(d)
             w == Vol(d)
             c == Cleared(d)
             b == [c[l] EXCEPT !.name = name]
             d2 == [c EXCEPT ![l] = Blank(DELETED), ![n] = b]
  <2>1. /\ Sound(w, c, sft) /\ n \in Locs /\ c[n].name \in {NeverUsed, DELETED} /\ Lossless(w.fat, c, sft)
    BY <1>2, <1>4, RoomOK, RoomLossless
  <2>2. c[l] = dir[l] /\ Files(c) = Files(dir)
    BY <1>1, <1>2, <1>4, RoomOK
  <2>3. dir' = d2 /\ vol' = w
    BY <1>4, <2>2
  <2> HIDE DEF n, w, c
  <2>4. b = [c[l] EXCEPT !.name = name] /\ d2 = [c EXCEPT ![l] = Blank(DELETED), ![n] = b]
        /\ l \in Files(c) /\ ~c[l].isdir
    BY <1>1, <1>4, <2>2
  <2> HIDE DEF b, d2
  <2>5. Lossless(w.fat, d2, sft)
    <3>1. Sound(w, d2, sft)
      BY <1>1, <2>1, <2>4, MovedOK
    <3>2. Kept(w.fat, c, sft, w.fat, d2, sft, l)
      BY <1>1, <2>1, <2>4, MovedOK
    <3>3. n \in Files(d2)
      BY <1>1, <2>1, <2>4, MovedOK
    <3> QED
      BY <1>1, <2>1, <2>4, <3>1, <3>2, <3>3, MovedLossless
  <2> QED
    BY <1>1, <2>3, <2>5 DEF Trim
<1>5. ASSUME GrownOnly(d) PROVE Trim
  BY <1>5, FaultTrim DEF GrownOnly
<1> QED
  BY <1>1, <1>3, <1>4, <1>5, DiskFullTrim, FaultTrim

LEMMA MkdirTrim ==
  ASSUME Spare, NEW name \in Names, dos_mkdir(name)
  PROVE  Trim
<1> DEFINE x == find_fat_free(vol)
           n == find_free(Root)
           d2 == [Filled(dir, {x}, NeverUsed) EXCEPT ![n] = MkdirEntry(name, x)]
<1>1. /\ Unused(Root) # {} /\ sft' = sft
      /\ \/ Free(vol.fat) # {} /\ vol' = Taken(vol) /\ dir' = d2
         \/ Fault(FALSE)
         \/ DiskFull
  BY DEF dos_mkdir, MkdirEntry
<1>2. Sound(vol, dir, sft) /\ Lossless(vol.fat, dir, sft)
  BY DEF Spare, Now
<1>3. CASE Free(vol.fat) # {} /\ vol' = Taken(vol) /\ dir' = d2
  <2>1. Root \in Dirs
    BY DEF Dirs
  <2>2. n \in Locs /\ n[1] \in Part(vol.fat, Root) /\ dir[n].name \in {NeverUsed, DELETED}
    BY <1>1, <1>2, <2>1, FreeEntry
  <2>3. n[1] = Root
    BY <2>2 DEF Part
  <2>4. x = find_fat_free(vol) /\ d2 = [Filled(dir, {x}, NeverUsed) EXCEPT ![n] = MkdirEntry(name, x)] /\ dir' = d2
    BY <1>3
  <2> HIDE DEF n, d2, x
  <2>5. Mkdirs(vol, dir, sft, x, n, name, d2)
    <3>1. Free(vol.fat) # {} /\ n \in Locs
      BY <1>3, <2>2
    <3>2. dir[n].name \in {NeverUsed, DELETED} /\ name \in Names
      BY <2>2
    <3> QED
      BY <1>2, <2>3, <2>4, <3>1, <3>2 DEF Mkdirs
  <2> DEFINE w == Taken(vol)
             f == vol.fat
             g == w.fat
  <2>6. Sound(w, d2, sft) /\ Mkdired(vol, dir, x, n, name, d2) /\ Kept(f, dir, sft, g, d2, sft, n)
    BY <2>5, MkdirOK
  <2>7. /\ x \in Clusters /\ f[x] = FREE /\ x \in ToSet(Chain(g, x))
        /\ d2[n] = MkdirEntry(name, x)
        /\ \A j \in Locs : j # n => d2[j] = IF j[1] = x THEN Blank(NeverUsed) ELSE dir[j]
    BY <2>6 DEF Mkdired
  <2>8. n \notin Files(dir) /\ At(sft, n) = {} /\ vol \in VolOf
    BY <1>2, <2>2, UnusedIs, SoundFacts
  <2>9. \A y \in Clusters : y # x => g[y] = f[y]
    <3>1. g = [f EXCEPT ![x] = LAST] /\ f \in FatOf
      BY <1>2, <1>3, <2>4, <2>8, TakenOK, SoundFacts
    <3> QED
      BY <3>1 DEF FatOf
  <2>10. d2[n].isdir /\ d2[n].start = x /\ d2[n].name = name
    BY <2>7 DEF MkdirEntry
  <2>11. n \in Files(d2) /\ St(d2, sft)[n] = x
    BY <2>2, <2>8, <2>10, IdleIs DEF Files
  <2>12. \A j \in Locs : j[1] = x => j \notin Files(dir)
    BY <1>2, <2>7, FreshJunk
  <2> HIDE DEF w, f, g
  <2>13. \A j \in Files(dir) : j # n =>
           /\ j \in Files(d2) /\ Chain(g, St(d2, sft)[j]) = Chain(f, St(dir, sft)[j])
           /\ Sz(d2, sft)[j] = Sz(dir, sft)[j] /\ d2[j].isdir = dir[j].isdir
    <3>1. \A j \in Files(dir) : j # n => d2[j] = dir[j]
      BY <2>7, <2>12 DEF Files
    <3> QED
      BY <2>6, <3>1 DEF Kept
  <2>14. \A j \in Files(d2) : j = n \/ (j \in Files(dir) /\ j # n)
    <3> SUFFICES ASSUME NEW j \in Files(d2), j # n PROVE j \in Files(dir)
      OBVIOUS
    <3>1. j \in Locs /\ d2[j].name \in Names /\ Blank(NeverUsed).name = NeverUsed /\ NeverUsed \notin Names
      BY Blanks, NamesApart DEF Files
    <3> QED
      BY <2>7, <3>1 DEF Files
  <2>15. \A y \in Clusters : g[y] # FREE =>
           \/ f[y] # FREE /\ (n \in Files(dir) => y \notin ToSet(Chain(f, St(dir, sft)[n])))
           \/ n \in Files(d2) /\ y \in ToSet(Chain(g, St(d2, sft)[n]))
    BY <2>7, <2>8, <2>9, <2>11
  <2>16. Lossless(f, dir, sft)
    BY <1>2 DEF f
  <2>17. Compacts(f, dir, sft, g, d2, sft, n, n)
    BY ONLY <2>10, <2>13, <2>14, <2>15, <2>16 DEF Compacts
  <2>18. Lossless(g, d2, sft)
    BY <2>17, Compacted
  <2> QED
    BY <1>1, <1>3, <2>4, <2>18 DEF Trim, g, w
<1> QED
  BY <1>1, <1>3, DiskFullTrim, FaultTrim

LEMMA PowerTrim ==
  ASSUME Power
  PROVE  Trim
<1>1. faulted' = TRUE
  BY Zenon DEF Power, Fault
<1> QED
  BY <1>1 DEF Trim

-----------------------------------------------------------------------------
(* Nothing is lost, in every step.                                         *)

\* Until a call is interrupted, no cluster is lost.
LossInv == VolInv /\ (~faulted => ~upset /\ Lossless(vol.fat, dir, sft))

LEMMA SpareIs ==
  ASSUME LossInv, ~faulted
  PROVE  Spare
BY DEF LossInv, VolInv, Spare

LEMMA NextTrim ==
  ASSUME Spare, Next
  PROVE  Trim \/ UNCHANGED vars
<1>1. ASSUME NEW i \in Sfts, NEW l \in Locs, dos_open(i, l)
     PROVE  Trim
  BY <1>1, OpenTrim
<1>2. ASSUME NEW i \in Sfts, NEW l \in Locs, dos_open_trunc(i, l)
     PROVE  Trim
  BY <1>2, OpenTruncTrim
<1>3. ASSUME NEW i \in Sfts, NEW d \in Dirs, NEW name \in Names, dos_create(i, d, name)
     PROVE  Trim
  BY <1>3, CreateTrim
<1>4. ASSUME NEW i \in Sfts, NEW commit \in BOOLEAN, dos_close(i, commit)
     PROVE  Trim
  BY <1>4, CloseTrim
<1>5. ASSUME NEW i \in Sfts, NEW pos \in Seeks, SftSeek(i, pos)
     PROVE  Trim
  BY <1>5, SeekTrim
<1>6. ASSUME NEW i \in Sfts, NEW n \in Counts, rwblock_read(i, n)
     PROVE  Trim
  <2>1. n \in Nat \ {0}
    BY FatFsAssumption
  <2> QED
    BY <1>6, <2>1, ReadTrim
<1>7. ASSUME NEW i \in Sfts, NEW n \in Counts, rwblock_write(i, n)
     PROVE  Trim
  <2>1. n \in Nat \ {0}
    BY FatFsAssumption
  <2> QED
    BY <1>7, <2>1, WriteTrim
<1>8. ASSUME NEW i \in Sfts, rwblock_trunc(i)
     PROVE  Trim
  BY <1>8, TruncTrim
<1>9. ASSUME NEW l \in Locs, dos_delete(l)
     PROVE  Trim
  BY <1>9, DeleteTrim
<1>10. ASSUME NEW l \in Locs, dos_rmdir(l)
      PROVE  Trim
  BY <1>10, RmdirTrim
<1>11. ASSUME NEW l \in Locs, NEW d \in Dirs, NEW name \in Names, dos_rename(l, d, name)
      PROVE  Trim
  BY <1>11, RenameTrim
<1>12. ASSUME NEW name \in Names, dos_mkdir(name)
      PROVE  Trim
  BY <1>12, MkdirTrim
<1>13. ASSUME dos_free
      PROVE  Trim
  BY <1>13, FreeTrim
<1>14. ASSUME Power
      PROVE  Trim
  BY <1>14, PowerTrim
<1> QED
  BY <1>1, <1>2, <1>3, <1>4, <1>5, <1>6, <1>7, <1>8, <1>9, <1>10, <1>11, <1>12, <1>13, <1>14, Zenon DEF Next

LEMMA LossNext == LossInv /\ [Next]_vars => LossInv'
<1> SUFFICES ASSUME LossInv, [Next]_vars PROVE LossInv'
  OBVIOUS
<1>1. VolInv /\ VolInv'
  BY NextInv DEF LossInv
<1>2. CASE UNCHANGED vars
  BY <1>1, <1>2 DEF LossInv, vars
<1>3. CASE Next /\ ~UNCHANGED vars
  <2> SUFFICES ASSUME ~faulted' PROVE ~upset' /\ Lossless(vol'.fat, dir', sft')
    BY <1>1 DEF LossInv
  <2>1. Ended
    BY <1>1, <1>3, NextEnds
  <2>2. Fine
    BY <2>1 DEF Ended, Fault
  <2>3. ~faulted /\ upset' = upset
    BY <2>2 DEF Fine
  <2>4. ~upset /\ Spare
    BY <2>3, SpareIs DEF LossInv
  <2>5. Trim
    BY <2>4, <1>3, NextTrim
  <2> QED
    BY <2>3, <2>4, <2>5 DEF Trim
<1> QED
  BY <1>2, <1>3

LEMMA LossInit == Init => LossInv
<1> SUFFICES ASSUME Init PROVE LossInv
  OBVIOUS
<1>1. VolInv /\ ~upset
  BY InitInv DEF Init
<1>2. \A x \in Clusters : vol.fat[x] = FREE
  BY DEF Init
<1>3. Files(dir) = {}
  <2>1. \A l \in Locs : dir[l].name \in {NeverUsed, Junk}
    BY Blanks DEF Init
  <2>2. NeverUsed \notin Names /\ Junk \notin Names
    BY NamesApart
  <2> QED
    BY <2>1, <2>2 DEF Files
<1>4. Lossless(vol.fat, dir, sft)
  BY <1>2, <1>3 DEF Lossless
<1> QED
  BY <1>1, <1>4 DEF LossInv

\* Unless a call was interrupted, every cluster in use is of a file or a directory, and a
\* closed file has no more than it needs (map_cluster, dos_extend, shrink_file, wipe_out).
THEOREM FatNothingLost == Spec => []NothingLost
<1>1. LossInv => NothingLost
  <2> SUFFICES ASSUME LossInv, ~faulted
               PROVE  /\ Clusters \ Free(vol.fat) = UNION {ToSet(Chain(vol.fat, Start(l))) : l \in Live}
                      /\ \A l \in Live : Idle(l) /\ ~dir[l].isdir => Room(vol.fat, Start(l)) < Size(l) + ClusterSize
    BY DEF NothingLost
  <2>1. Lossless(vol.fat, dir, sft) /\ Now
    BY SpareIs DEF Spare
  <2>2. /\ Live = Files(dir)
        /\ \A l \in Live : /\ Start(l) = St(dir, sft)[l] /\ Size(l) = Sz(dir, sft)[l]
                           /\ Whole(vol.fat, Start(l)) /\ Start(l) \in Clusters \cup {FREE}
    BY <2>1, NowFacts
  <2>3. \A l \in Live : Idle(l) /\ ~dir[l].isdir => Room(vol.fat, Start(l)) < Size(l) + ClusterSize
    BY <2>1, <2>2 DEF Lossless
  <2>4. ASSUME NEW x \in Clusters, vol.fat[x] # FREE
        PROVE  \E l \in Live : x \in ToSet(Chain(vol.fat, Start(l)))
    <3>1. PICK l \in Files(dir) : x \in ToSet(Chain(vol.fat, St(dir, sft)[l]))
      BY <2>1, <2>4 DEF Lossless
    <3> QED
      BY <2>2, <3>1
  <2>5. ASSUME NEW l \in Live, NEW x \in ToSet(Chain(vol.fat, Start(l)))
        PROVE  x \in Clusters /\ vol.fat[x] # FREE
    BY <2>2, ChainFacts
  <2>6. \A x : x \in Clusters \ Free(vol.fat) <=> x \in Clusters /\ vol.fat[x] # FREE
    BY DEF Free
  <2>7. Clusters \ Free(vol.fat) = UNION {ToSet(Chain(vol.fat, Start(l))) : l \in Live}
    BY ONLY <2>4, <2>5, <2>6
  <2> QED
    BY <2>3, <2>7
<1>2. LossInv /\ [Next]_vars => LossInv'
  BY LossNext
<1> QED
  BY <1>1, <1>2, LossInit, PTL DEF Spec
=============================================================================
