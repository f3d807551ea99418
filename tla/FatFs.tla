------------------------------- MODULE FatFs -------------------------------
(***************************************************************************)
(* Files and directories on a FAT volume: the calls of kernel/fatfs.c with *)
(* the FAT of fattab.c and the directories of fatdir.c, power failure      *)
(* between any two of them or in their midst, and programs aborted by a    *)
(* critical error.                                                         *)
(*                                                                         *)
(* `vol' and `dir' are the FAT and the directories as the calls see them,  *)
(* through the buffers of module BlockIO; `disk' is what the last flush    *)
(* left on the disk.  How much of the rest is there when power fails is    *)
(* anybody's guess.  FAT entries and directory entries are thought of as   *)
(* in sectors of their own.  Writing a buffer does not fail for good here: *)
(* what that does to a block is in module BlockIO.                         *)
(*                                                                         *)
(* A call is a step.  It ends after any of its transfers when one fails or *)
(* the program is aborted: `Bad' says which of it may happen.              *)
(*                                                                         *)
(* A file is opened once at a time and not deleted meanwhile, as deny-all  *)
(* under SHARE has it (OpensAgree, OpenFilesStay in module Share), so that *)
(* merge_file_changes finds nothing to do.  Long names, attributes, times, *)
(* the entries . and .., directories in directories and the content of    *)
(* files are left out.                                                     *)
(*                                                                         *)
(* Where an interrupted call leaves an entry with clusters that are not    *)
(* its own, or a count that is wrong, the model stops: `upset' says so.    *)
(***************************************************************************)
EXTENDS Integers, FiniteSets, FiniteSetsExt, Sequences, SequencesExt

CONSTANTS Names, NeverUsed, DELETED, Junk,
          NSft,
          MaxCluster,   \* dpb_size: the largest cluster number
          ClusterSize,  \* in bytes
          RootEnts,     \* dpb_dirents
          DirEnts,      \* entries in a cluster of a directory
          Counts,       \* bytes written or read by a call
          Seeks,        \* positions sought
          MaxSize,      \* bound: file sizes and positions
          Bad           \* "fail", "abort", "power"

ASSUME FatFsAssumption ==
  /\ Names \cap {NeverUsed, DELETED, Junk} = {}
  /\ NeverUsed # DELETED /\ Junk \notin {NeverUsed, DELETED}
  /\ NSft \in Nat /\ MaxCluster \in Nat \ {0} /\ ClusterSize \in Nat \ {0}
  /\ RootEnts \in Nat /\ DirEnts \in Nat \ {0}
  /\ Counts \subseteq Nat \ {0} /\ MaxSize \in Nat /\ Seeks \subseteq 0..MaxSize
  /\ Bad \subseteq {"fail", "abort", "power"}

Clusters == 2..MaxCluster
FREE == 0
LAST == MaxCluster + 1
UNKNOWN == -1
Sfts == 1..NSft
Root == 0
Locs == ({Root} \X (0..RootEnts-1)) \cup (Clusters \X (0..DirEnts-1))

VARIABLES
  vol,      \* FAT, dpb_cluster and dpb_nfreeclst
  dir,      \* directory entries; Junk in clusters that hold none
  sft,
  disk,     \* FAT and directory entries on the disk
  saved,    \* auxiliary: entries that were flushed since their file changed
  faulted,  \* auxiliary: a call was interrupted
  upset

vars == <<vol, dir, sft, disk, saved, faulted, upset>>

Blank(name) == [name |-> name, isdir |-> FALSE, start |-> FREE, size |-> 0]
Entry(name, start, size) == [name |-> name, isdir |-> FALSE, start |-> start, size |-> size]
Closed == [loc |-> <<>>, start |-> FREE, size |-> 0, pos |-> 0, cu |-> FREE, rel |-> 0, clean |-> TRUE]

Init ==
  /\ vol = [fat |-> [c \in Clusters |-> FREE], hint |-> UNKNOWN, nfree |-> UNKNOWN]
  /\ dir = [l \in Locs |-> Blank(IF l[1] = Root THEN NeverUsed ELSE Junk)]
  /\ sft = [i \in Sfts |-> Closed]
  /\ disk = [fat |-> vol.fat, dir |-> dir]
  /\ saved = {} /\ faulted = FALSE /\ upset = FALSE

-----------------------------------------------------------------------------
(* The FAT.                                                                *)

\* The clusters of a chain in order; LAST, FREE and worse end it.
Chain(fat, s) ==
  LET c[i \in 0..MaxCluster] ==
        IF i = 0 THEN s ELSE IF c[i-1] \in Clusters THEN fat[c[i-1]] ELSE FREE
      n == Cardinality({i \in 0..MaxCluster : c[i] \in Clusters})
  IN [i \in 1..n |-> c[i-1]]

Free(fat) == {c \in Clusters : fat[c] = FREE}

\* Mutant: a cluster used again counts as if it had been free.
Adjust_Always(v, c, x) ==
  IF v.nfree = UNKNOWN THEN 0 ELSE IF x # FREE THEN -1 ELSE IF v.fat[c] # FREE THEN 1 ELSE 0

\* link_fat counts free clusters if their number is known.
Adjust(v, c, x) ==
  IF v.nfree = UNKNOWN THEN 0
  ELSE (IF x = FREE /\ v.fat[c] # FREE THEN 1 ELSE 0) - (IF x # FREE /\ v.fat[c] = FREE THEN 1 ELSE 0)

link_fat(v, c, x) == [v EXCEPT !.fat[c] = x, !.nfree = @ + Adjust(v, c, x)]

\* find_fat_free looks from dpb_cluster on, and then from the start.
find_fat_free(v) ==
  LET up == {c \in Free(v.fat) : c >= v.hint}
  IN IF Free(v.fat) = {} THEN LAST ELSE Min(IF up # {} THEN up ELSE Free(v.fat))

\* Mutant: the hint is what was looked at last, on a full disk as well.
Taken_Idx(v) ==
  LET c == find_fat_free(v)
  IN IF c = LAST THEN [v EXCEPT !.hint = c] ELSE [link_fat(v, c, LAST) EXCEPT !.hint = c]

\* The cluster found is the end of a chain of its own.
Taken(v) ==
  LET c == find_fat_free(v)
  IN IF c = LAST THEN [v EXCEPT !.hint = UNKNOWN] ELSE [link_fat(v, c, LAST) EXCEPT !.hint = c]

\* wipe_out_clusters for the clusters in S.
Wiped(v, S) ==
  [fat |-> [c \in Clusters |-> IF c \in S THEN FREE ELSE v.fat[c]],
   hint |-> IF S = {} THEN v.hint ELSE Min(S \cup ({v.hint} \ {UNKNOWN})),
   nfree |-> IF v.nfree = UNKNOWN THEN UNKNOWN ELSE v.nfree + Cardinality(S)]

\* Mutant: the last cluster of the chain is not freed.
FirstOf_Short(fat, s, k) == {Chain(fat, s)[j] : j \in 1..k-1}

\* Where it stops when the FAT cannot be read, is left to the reader of the
\* chain: the first k clusters are free then.
FirstOf(fat, s, k) == {Chain(fat, s)[j] : j \in 1..k}

-----------------------------------------------------------------------------
(* map_cluster: m is the part of the fnode that it changes.                *)

Fnode(i) == [vol |-> vol, start |-> sft[i].start, cu |-> sft[i].cu, rel |-> sft[i].rel]

\* extend: the new cluster is linked after the last one, or is the first.
extend(m) ==
  LET c == find_fat_free(m.vol)
      v == Taken(m.vol)
  IN IF c = LAST THEN [m EXCEPT !.vol = v]
     ELSE IF m.cu = FREE THEN [m EXCEPT !.vol = v, !.start = c, !.cu = c]
     ELSE [m EXCEPT !.vol = link_fat(v, m.cu, c), !.cu = c, !.rel = @ + 1]

\* Mutant: the count of clusters is not reset.
Rewound_Keeps(m, rel) == IF rel < m.rel THEN [m EXCEPT !.cu = m.start] ELSE m

\* A position before the current one is looked for from the start.
Rewound(m, rel) == IF rel < m.rel THEN [m EXCEPT !.cu = m.start, !.rel = 0] ELSE m

AtEnd(m) == m.cu = FREE \/ m.vol.fat[m.cu] = LAST

Mapped(m, rel) == m.cu # FREE /\ m.rel = rel

\* A turn of the loop: one cluster on, if there is one.
Turn(m, rel, write) ==
  IF Mapped(m, rel) THEN m
  ELSE IF AtEnd(m) THEN IF write THEN extend(m) ELSE m
  ELSE IF m.vol.fat[m.cu] \in Clusters
  THEN [m EXCEPT !.cu = m.vol.fat[m.cu], !.rel = @ + 1] ELSE m

\* The fnode after each turn.
Steps(m, rel, write) ==
  LET p[k \in 0..MaxCluster+1] ==
        IF k = 0 THEN Rewound(m, rel) ELSE Turn(p[k-1], rel, write)
  IN p

map_cluster(m, rel, write) == Steps(m, rel, write)[MaxCluster+1]

\* Where it may end early: after a turn, or with a cluster taken but not
\* linked to.
Interrupted(m, rel, write) ==
  LET S == {Steps(m, rel, write)[k] : k \in 0..MaxCluster}
      growing == {q \in S : write /\ q.cu # FREE /\ q.rel # rel /\ q.vol.fat[q.cu] = LAST}
  IN S \cup {[q EXCEPT !.vol = Taken(q.vol)] : q \in growing}

-----------------------------------------------------------------------------
(* Directories.                                                            *)

Live == {l \in Locs : dir[l].name \in Names}
Dirs == {Root} \cup {dir[l].start : l \in {k \in Live : dir[k].isdir}}

\* The entries of directory d in order.
InDir(fat, d) ==
  IF d = Root THEN [j \in 1..RootEnts |-> <<Root, j-1>>]
  ELSE LET c == Chain(fat, d) IN
       [j \in 1..Len(c) * DirEnts |-> <<c[(j-1) \div DirEnts + 1], (j-1) % DirEnts>>]

\* find_fname: the entry of that name, if there is one.
find_fname(d, name) == {l \in ToSet(InDir(vol.fat, d)) : dir[l].name = name}

\* find_free takes the first of the entries that are not in use.
Unused(d) == LET e == InDir(vol.fat, d) IN
             {j \in DOMAIN e : dir[e[j]].name \in {NeverUsed, DELETED}}
find_free(d) == InDir(vol.fat, d)[Min(Unused(d))]

\* Mutant: the cluster is taken as it is.
Filled_Not(f, S, name) == f

\* clear_dir, and what is in the clusters of a directory that is no more.
Filled(f, S, name) == [l \in Locs |-> IF l[1] \in S THEN Blank(name) ELSE f[l]]

OpenAt(l) == {i \in Sfts : sft[i].loc = l}
Idle(l) == OpenAt(l) = {}

-----------------------------------------------------------------------------
(* Ends of calls.                                                          *)

\* Mutant: buffers of the FAT are left out.
flush_buffers_Dir ==
  /\ disk' = [fat |-> disk.fat, dir |-> dir']
  /\ saved' = {l \in Locs : /\ dir'[l].name \in Names /\ ~dir'[l].isdir
                            /\ \A i \in Sfts : sft'[i].loc = l => sft'[i].clean}

\* All buffers are on the disk: files that are closed or not changed are saved.
flush_buffers ==
  /\ disk' = [fat |-> vol'.fat, dir |-> dir']
  /\ saved' = {l \in Locs : /\ dir'[l].name \in Names /\ ~dir'[l].isdir
                            /\ \A i \in Sfts : sft'[i].loc = l => sft'[i].clean}

\* A call that changed the file at l, and wrote nothing to the disk.
Unflushed(l) == disk' = disk /\ saved' = saved \ {l}

Fine == UNCHANGED <<faulted, upset>>
Fault(bad) == faulted' = TRUE /\ upset' = bad

-----------------------------------------------------------------------------
(* Opening and closing.                                                    *)

Opened(l, f) == [Closed EXCEPT !.loc = l, !.start = f[l].start, !.size = f[l].size, !.cu = f[l].start]

\* dos_open of a file there is.
dos_open(i, l) ==
  /\ ~upset /\ sft[i] = Closed /\ l \in Live /\ ~dir[l].isdir /\ Idle(l)
  /\ sft' = [sft EXCEPT ![i] = Opened(l, dir)]
  /\ UNCHANGED <<vol, dir, disk, saved>> /\ Fine

\* With O_TRUNC: the clusters are freed, then the entry is written.  If the FAT
\* cannot be read the rest of the clusters is lost; if the entry cannot, it
\* keeps clusters that are free.
dos_open_trunc(i, l) ==
  /\ ~upset /\ sft[i] = Closed /\ l \in Live /\ ~dir[l].isdir /\ Idle(l)
  /\ LET all == Len(Chain(vol.fat, dir[l].start)) IN
     \E k \in 0..all :
       /\ vol' = Wiped(vol, FirstOf(vol.fat, dir[l].start, k))
       /\ \/ /\ k < all => "fail" \in Bad
             /\ dir' = [dir EXCEPT ![l] = Entry(@.name, FREE, 0)]
             /\ sft' = [sft EXCEPT ![i] = Opened(l, dir')]
             /\ flush_buffers
             /\ IF k < all THEN Fault(FALSE) ELSE Fine
          \/ Bad # {} /\ UNCHANGED <<dir, sft>> /\ Unflushed(l) /\ Fault(k > 0)

\* alloc_find_free: an entry to use, or a directory one cluster larger.  The
\* cluster is linked to before it is cleared.
Grows(d) == d # Root /\ Unused(d) = {}
Larger(d) == LET c == Chain(vol.fat, d) IN
             extend([vol |-> vol, start |-> d, cu |-> c[Len(c)], rel |-> Len(c) - 1])
NewIn(d) == IF Grows(d) THEN <<Larger(d).cu, 0>> ELSE find_free(d)
Vol(d) == IF Grows(d) THEN Larger(d).vol ELSE vol
Cleared(d) == IF Grows(d) THEN Filled(dir, {Larger(d).cu}, NeverUsed) ELSE dir
HasRoom(d) == Unused(d) # {} \/ (d # Root /\ Free(vol.fat) # {})

\* The call ends while the directory grows: the cluster is not yet linked to,
\* not yet cleared, or the new entry not written.
GrownOnly(d) ==
  /\ Bad # {} /\ Grows(d) /\ Free(vol.fat) # {}
  /\ UNCHANGED sft
  /\ \/ vol' = Taken(vol) /\ UNCHANGED <<dir, disk, saved>> /\ Fault(FALSE)
     \/ vol' = Vol(d) /\ UNCHANGED <<dir, disk, saved>> /\ Fault(TRUE)
     \/ vol' = Vol(d) /\ dir' = Cleared(d) /\ UNCHANGED <<disk, saved>> /\ Fault(FALSE)
     \/ vol' = Vol(d) /\ dir' = Cleared(d) /\ flush_buffers /\ Fault(FALSE)

\* There is no cluster to be had.
DiskFull ==
  /\ Free(vol.fat) = {}
  /\ vol' = Taken(vol)
  /\ UNCHANGED <<dir, sft, disk, saved>> /\ Fine

dos_create(i, d, name) ==
  /\ ~upset /\ sft[i] = Closed /\ d \in Dirs /\ find_fname(d, name) = {}
  /\ \/ /\ HasRoom(d)
        /\ vol' = Vol(d)
        /\ dir' = [Cleared(d) EXCEPT ![NewIn(d)] = Entry(name, FREE, 0)]
        /\ sft' = [sft EXCEPT ![i] = Opened(NewIn(d), dir')]
        /\ flush_buffers /\ Fine
     \/ GrownOnly(d)
     \/ Grows(d) /\ DiskFull

\* dos_close: the entry is brought up to date, and all is flushed.  A commit
\* leaves the file open, and not clean if it was not.  If the entry cannot be
\* read, nothing is written and the SFT stays.
dos_close(i, commit) ==
  /\ ~upset /\ sft[i] # Closed
  /\ UNCHANGED vol
  /\ \/ /\ dir' = IF sft[i].clean THEN dir
                  ELSE [dir EXCEPT ![sft[i].loc] = Entry(@.name, sft[i].start, sft[i].size)]
        /\ sft' = IF commit THEN sft ELSE [sft EXCEPT ![i] = Closed]
        /\ flush_buffers /\ Fine
     \/ Bad # {} /\ UNCHANGED <<dir, sft, disk, saved>> /\ Fault(FALSE)

-----------------------------------------------------------------------------
(* Reading, writing, seeking, truncating: rwblock.                         *)

Lesser(a, b) == IF a < b THEN a ELSE b
Greater(a, b) == IF a < b THEN b ELSE a

\* fnode_to_sft.
Back(i, m, size, pos) ==
  [sft EXCEPT ![i].start = m.start, ![i].cu = m.cu, ![i].rel = m.rel,
              ![i].size = size, ![i].pos = pos]

SftSeek(i, pos) ==
  /\ ~upset /\ sft[i] # Closed
  /\ sft' = [sft EXCEPT ![i].pos = pos]
  /\ UNCHANGED <<vol, dir, disk, saved>> /\ Fine

rwblock_read(i, n) ==
  LET s == sft[i]
      end == Lesser(s.pos + n, s.size)
  IN /\ ~upset /\ s # Closed /\ s.pos < s.size
     /\ \/ LET m == map_cluster(Fnode(i), (end - 1) \div ClusterSize, FALSE) IN
           sft' = Back(i, m, s.size, end) /\ Fine
        \/ /\ "fail" \in Bad
           /\ \E m \in Interrupted(Rewound(Fnode(i), s.pos \div ClusterSize),
                                   (end - 1) \div ClusterSize, FALSE) :
                sft' = Back(i, m, s.size, Greater(s.pos, Lesser(end, m.rel * ClusterSize)))
           /\ Fault(FALSE)
     /\ UNCHANGED <<vol, dir, disk, saved>>

\* Mutant: one cluster too many.
Stuck_More(s, m) ==
  IF s.pos > s.size /\ m.cu # FREE THEN (m.rel + 2) * ClusterSize ELSE s.size

\* dos_extend could not go to the position: the size is that of the clusters
\* up to where it stopped.
Stuck(s, m) ==
  IF s.pos > s.size /\ m.cu # FREE THEN (m.rel + 1) * ClusterSize ELSE s.size

\* A full disk ends the call early, a failed transfer anywhere; an abort leaves
\* the SFT as it was.
rwblock_write(i, n) ==
  LET s == sft[i]
      first == s.pos \div ClusterSize
      end == s.pos + n
      to == (end - 1) \div ClusterSize
      begin == Rewound(Fnode(i), first)
      full == map_cluster(begin, to, TRUE)
      Far(m) == m.cu # FREE /\ m.rel >= first
      Upto(m, pos) == sft' = [Back(i, m, Greater(s.size, pos), pos) EXCEPT ![i].clean = FALSE]
      Short(m) == sft' = [Back(i, m, Stuck(s, m), s.pos) EXCEPT ![i].clean = FALSE]
  IN /\ ~upset /\ s # Closed /\ end <= MaxSize
     /\ Unflushed(s.loc)
     /\ \/ /\ vol' = full.vol
           /\ IF Mapped(full, to) THEN Upto(full, end)
              ELSE IF Far(full) THEN Upto(full, (full.rel + 1) * ClusterSize)
              ELSE Short(full)
           /\ Fine
        \/ \E m \in Interrupted(begin, to, TRUE) :
             /\ vol' = m.vol
             /\ \/ Bad \ {"fail"} # {} /\ UNCHANGED sft
                \/ /\ "fail" \in Bad
                   /\ IF Far(m) THEN \E q \in first..m.rel : Upto(m, Greater(s.pos, q * ClusterSize))
                      ELSE Short(m)
             /\ Fault(FALSE)
     /\ UNCHANGED dir

\* A write of nothing ends the file at the position.  Going up it allocates as
\* far as the last byte; going down shrink_file frees what comes after.
LastByte(pos) == (IF pos > 0 THEN pos - 1 ELSE 0) \div ClusterSize

\* Mutant: the chain is not ended before the rest is freed.
Shrunk_Open(m, size, k) ==
  LET v == Wiped(m.vol, FirstOf(m.vol.fat, m.vol.fat[m.cu], k))
  IN IF size # 0 THEN [m EXCEPT !.vol = v] ELSE [m EXCEPT !.vol = link_fat(v, m.cu, FREE), !.start = FREE, !.cu = FREE]

\* shrink_file after map_cluster: the volume, and the file's fields.
Shrunk(m, size, k) ==
  LET next == m.vol.fat[m.cu]
      cut == link_fat(m.vol, m.cu, IF size = 0 THEN FREE ELSE LAST)
  IN IF size # 0 THEN [m EXCEPT !.vol = Wiped(cut, FirstOf(m.vol.fat, next, k))]
     ELSE [m EXCEPT !.vol = Wiped(cut, FirstOf(m.vol.fat, next, k)), !.start = FREE, !.cu = FREE]

rwblock_trunc(i) ==
  LET s == sft[i]
      m == map_cluster(Fnode(i), LastByte(s.pos), s.pos > s.size)
      rest == IF m.cu = FREE THEN 0 ELSE Len(Chain(m.vol.fat, m.vol.fat[m.cu]))
      Ends(x, size) == sft' = [Back(i, x, size, s.pos) EXCEPT ![i].clean = FALSE]
  IN /\ ~upset /\ s # Closed
     /\ \/ /\ s.pos = 0 /\ s.cu = FREE
           /\ vol' = vol /\ Ends(Fnode(i), 0) /\ Unflushed(s.loc) /\ Fine
        \/ /\ s.pos > s.size /\ ~Mapped(m, LastByte(s.pos))
           /\ vol' = m.vol /\ Ends(m, Stuck(s, m)) /\ Unflushed(s.loc) /\ Fine
        \/ /\ Mapped(m, LastByte(s.pos))
           /\ \E k \in 0..rest :
                /\ k < rest => "fail" \in Bad
                /\ IF s.pos > 0 /\ m.vol.fat[m.cu] = LAST
                   THEN vol' = m.vol /\ Ends(m, s.pos) /\ Unflushed(s.loc)
                   ELSE /\ vol' = Shrunk(m, s.pos, k).vol /\ Ends(Shrunk(m, s.pos, k), s.pos)
                        /\ dir' = dir /\ flush_buffers
                /\ IF k < rest THEN Fault(FALSE) ELSE Fine
        \/ \* The chain is cut and the SFT does not know.
           /\ Bad \ {"fail"} # {} /\ Mapped(m, LastByte(s.pos))
           /\ \E k \in 0..rest : vol' = Shrunk(m, s.pos, k).vol
           /\ sft' = sft /\ Unflushed(s.loc)
           /\ Fault(s.pos = 0 \/ m.vol.fat[m.cu] # LAST)
        \/ \* It is not even found; clusters may have been added.
           /\ Bad # {}
           /\ \E x \in Interrupted(Fnode(i), LastByte(s.pos), s.pos > s.size) :
                /\ vol' = x.vol /\ Unflushed(s.loc)
                /\ \/ sft' = sft
                   \/ "fail" \in Bad /\ s.pos > s.size /\ ~Mapped(x, LastByte(s.pos)) /\ Ends(x, Stuck(s, x))
           /\ Fault(FALSE)
     /\ UNCHANGED dir

-----------------------------------------------------------------------------
(* Deleting, renaming, making and removing directories.                    *)

\* delete_dir_entry: the clusters are freed before the entry is written.
delete_dir_entry(l) ==
  LET all == Len(Chain(vol.fat, dir[l].start))
      gone == IF dir[l].isdir THEN ToSet(Chain(vol.fat, dir[l].start)) ELSE {}
  IN \E k \in 0..all :
       /\ vol' = Wiped(vol, FirstOf(vol.fat, dir[l].start, k))
       /\ \/ /\ k < all => "fail" \in Bad
             /\ dir' = Filled([dir EXCEPT ![l] = Blank(DELETED)], gone, Junk)
             /\ UNCHANGED sft /\ flush_buffers
             /\ IF k < all THEN Fault(FALSE) ELSE Fine
          \/ Bad # {} /\ UNCHANGED <<dir, sft>> /\ Unflushed(l) /\ Fault(k > 0)

dos_delete(l) ==
  /\ ~upset /\ l \in Live /\ ~dir[l].isdir /\ Idle(l)
  /\ delete_dir_entry(l)

dos_rmdir(l) ==
  /\ ~upset /\ l \in Live /\ dir[l].isdir
  /\ \A e \in ToSet(InDir(vol.fat, dir[l].start)) : dir[e].name \in {NeverUsed, DELETED}
  /\ delete_dir_entry(l)

\* In the directory itself the name is changed.  To another one a file goes by
\* a new entry, which is written after the old one is gone.
dos_rename(l, d, name) ==
  /\ ~upset /\ l \in Live /\ Idle(l) /\ d \in Dirs /\ find_fname(d, name) = {}
  /\ UNCHANGED sft
  /\ \/ /\ l \in ToSet(InDir(vol.fat, d))
        /\ dir' = [dir EXCEPT ![l].name = name]
        /\ UNCHANGED vol /\ flush_buffers /\ Fine
     \/ /\ l \notin ToSet(InDir(vol.fat, d)) /\ ~dir[l].isdir /\ HasRoom(d)
        /\ vol' = Vol(d)
        /\ \/ /\ dir' = [Cleared(d) EXCEPT ![l] = Blank(DELETED), ![NewIn(d)] = [dir[l] EXCEPT !.name = name]]
              /\ Fine
           \/ /\ Bad # {}
              /\ dir' = [Cleared(d) EXCEPT ![l] = Blank(DELETED)]
              /\ Fault(FALSE)
        /\ flush_buffers
     \/ /\ l \notin ToSet(InDir(vol.fat, d)) /\ ~dir[l].isdir
        /\ GrownOnly(d) \/ (Grows(d) /\ DiskFull)

\* A cluster is taken and cleared, then the entry is written.
dos_mkdir(name) ==
  /\ ~upset /\ find_fname(Root, name) = {} /\ Unused(Root) # {}
  /\ UNCHANGED sft
  /\ \/ /\ Free(vol.fat) # {}
        /\ vol' = Taken(vol)
        /\ dir' = [Filled(dir, {find_fat_free(vol)}, NeverUsed) EXCEPT
                     ![find_free(Root)] = [name |-> name, isdir |-> TRUE, start |-> find_fat_free(vol), size |-> 0]]
        /\ flush_buffers /\ Fine
     \/ /\ Bad # {} /\ Free(vol.fat) # {}
        /\ vol' = Taken(vol) /\ UNCHANGED <<dir, disk, saved>> /\ Fault(FALSE)
     \/ DiskFull

\* dos_free counts the free clusters and notes the first.  What cannot be read
\* is not free.
dos_free ==
  /\ ~upset /\ vol.nfree = UNKNOWN
  /\ \E S \in SUBSET Free(vol.fat) :
       /\ S # Free(vol.fat) => "fail" \in Bad
       /\ vol' = [vol EXCEPT !.nfree = Cardinality(S), !.hint = IF S = {} THEN @ ELSE Min(S)]
       /\ IF S = Free(vol.fat) THEN Fine ELSE Fault(TRUE)
  /\ UNCHANGED <<dir, sft, disk, saved>>

-----------------------------------------------------------------------------
(* Power failure.                                                          *)

\* What a volume with these entries promises.
Files(f) == {l \in Locs : f[l].name \in Names}
Whole(fat, s) == s # FREE => LET c == Chain(fat, s) IN c # <<>> /\ fat[Last(c)] = LAST
Room(fat, s) == Len(Chain(fat, s)) * ClusterSize
Apart(fat, starts) ==
  \A k, l \in DOMAIN starts :
    k # l => ToSet(Chain(fat, starts[k])) \cap ToSet(Chain(fat, starts[l])) = {}

\* Some of what is not on the disk yet got there.
Power ==
  /\ ~upset /\ "power" \in Bad
  /\ \E C \in SUBSET {c \in Clusters : vol.fat[c] # disk.fat[c]},
        L \in SUBSET {l \in Locs : dir[l] # disk.dir[l] /\ dir[l].name # Junk} :
       LET fat == [c \in Clusters |-> IF c \in C THEN vol.fat[c] ELSE disk.fat[c]]
           f == [l \in Locs |-> IF l \in L THEN dir[l] ELSE disk.dir[l]]
           dirs == {f[l].start : l \in {k \in Files(f) : f[k].isdir}}
           held == UNION {ToSet(Chain(fat, d)) : d \in dirs}
           g == Filled(f, Clusters \ held, Junk)
           starts == [l \in Files(g) |-> g[l].start] IN
       /\ vol' = [fat |-> fat, hint |-> UNKNOWN, nfree |-> UNKNOWN]
       /\ dir' = g
       /\ disk' = [fat |-> fat, dir |-> g]
       /\ Fault(~ /\ \A l \in Files(g) : Whole(fat, starts[l]) /\ g[l].size <= Room(fat, starts[l])
                  /\ Apart(fat, starts)
                  /\ \A c \in held, j \in 0..DirEnts-1 : g[<<c, j>>].name # Junk)
  /\ sft' = [i \in Sfts |-> Closed]
  /\ UNCHANGED saved

Next ==
  \/ \E i \in Sfts :
       \/ \E l \in Locs : dos_open(i, l) \/ dos_open_trunc(i, l)
       \/ \E d \in Dirs, name \in Names : dos_create(i, d, name)
       \/ \E commit \in BOOLEAN : dos_close(i, commit)
       \/ \E pos \in Seeks : SftSeek(i, pos)
       \/ \E n \in Counts : rwblock_read(i, n) \/ rwblock_write(i, n)
       \/ rwblock_trunc(i)
  \/ \E l \in Locs : \/ dos_delete(l) \/ dos_rmdir(l)
                     \/ \E d \in Dirs, name \in Names : dos_rename(l, d, name)
  \/ \E name \in Names : dos_mkdir(name)
  \/ dos_free
  \/ Power
  \/ upset /\ UNCHANGED vars

Spec == Init /\ [][Next]_vars

-----------------------------------------------------------------------------
(* Properties.                                                             *)

\* Where the file or directory at l begins: what is open is ahead of its entry.
Start(l) == IF OpenAt(l) = {} THEN dir[l].start ELSE sft[Max(OpenAt(l))].start
Size(l) == IF OpenAt(l) = {} THEN dir[l].size ELSE sft[Max(OpenAt(l))].size

Entries == [name : Names \cup {NeverUsed, DELETED, Junk}, isdir : BOOLEAN,
            start : Clusters \cup {FREE}, size : 0..MaxSize]

\* Types of all variables.
TypeOK ==
  /\ vol \in [fat : [Clusters -> Clusters \cup {FREE, LAST}], hint : Clusters \cup {UNKNOWN},
              nfree : 0..MaxCluster \cup {UNKNOWN}]
  /\ dir \in [Locs -> Entries]
  /\ sft \in [Sfts -> [loc : Locs \cup {<<>>}, start : Clusters \cup {FREE}, size : 0..MaxSize,
                       pos : 0..MaxSize, cu : Clusters \cup {FREE}, rel : 0..MaxCluster, clean : BOOLEAN]]
  /\ disk \in [fat : [Clusters -> Clusters \cup {FREE, LAST}], dir : [Locs -> Entries]]
  /\ saved \subseteq Locs /\ faulted \in BOOLEAN /\ upset \in BOOLEAN

\* Chains end, and no cluster is in two of them, after any mix of growing,
\* truncating, deleting and making directories, failed and aborted calls and
\* power failures (extend, wipe_out, shrink_file, find_fat_free).
ChainsApart ==
  ~upset => /\ \A l \in Live : Whole(vol.fat, Start(l))
            /\ Apart(vol.fat, [l \in Live |-> Start(l)])

\* A file has the clusters its size needs, also after a full disk.
SizeFits == ~upset => \A l \in Live : Size(l) <= Room(vol.fat, Start(l))

\* The position cached in the SFT is a cluster of the file, and the one that
\* rel says (map_cluster, fnode_to_sft).
CachedPosition ==
  ~upset => \A i \in Sfts : sft[i] # Closed =>
    LET c == Chain(vol.fat, sft[i].start) IN
    IF sft[i].cu = FREE THEN c = <<>> /\ sft[i].rel = 0
    ELSE sft[i].rel < Len(c) /\ sft[i].cu = c[sft[i].rel + 1]

\* The number of free clusters is right whenever it is known.
FreeCount == ~upset /\ vol.nfree # UNKNOWN => vol.nfree = Cardinality(Free(vol.fat))

\* What was closed or committed is on the disk, entry and chain, whatever
\* happens to other files, and stays in force after a power failure.
SavedStays ==
  ~upset => \A l \in saved :
    /\ l \in Live /\ dir[l] = disk.dir[l]
    /\ Chain(vol.fat, dir[l].start) = Chain(disk.fat, dir[l].start)
    /\ Whole(disk.fat, dir[l].start) /\ dir[l].size <= Room(disk.fat, dir[l].start)

\* Unless a call was interrupted, every cluster in use is of a file or a
\* directory, and a closed file has no more than it needs.
NothingLost ==
  ~faulted =>
    /\ Clusters \ Free(vol.fat) = UNION {ToSet(Chain(vol.fat, Start(l))) : l \in Live}
    /\ \A l \in Live : Idle(l) /\ ~dir[l].isdir => Room(vol.fat, Start(l)) < Size(l) + ClusterSize

\* Directories hold entries, never what was in the cluster before
\* (clear_dir), names once, and nothing after the first entry never used,
\* where dir_read ends.
DirsClean ==
  ~upset => \A d \in Dirs :
    LET e == InDir(vol.fat, d) IN
    /\ \A j \in DOMAIN e : dir[e[j]].name # Junk
    /\ \A j, k \in DOMAIN e : j # k /\ dir[e[j]].name \in Names => dir[e[k]].name # dir[e[j]].name
    /\ \A j, k \in DOMAIN e : j < k /\ dir[e[j]].name = NeverUsed => dir[e[k]].name = NeverUsed

=============================================================================
