---------------------------- MODULE ShareProofs ----------------------------
(***************************************************************************)
(* What SHARE promises, for every number of processes, files, entries and  *)
(* locks, and all modes and regions: entries and open files match, opens   *)
(* agree, locks are apart, transfers respect them, free entries are        *)
(* counted right, open files are not deleted.  Four inductive invariants:  *)
(* Inv for the tables, FreeInv for the counters, OpenInv for handles and   *)
(* references, RestInv for the types of the rest.                          *)
(***************************************************************************)
EXTENDS Share, TableFacts

-----------------------------------------------------------------------------
(* The rules for opens.                                                    *)

\* Nobody may open a file beside one who denies all, nor deny all beside
\* another; and an open that may proceed does not clash with the first.
LEMMA Rules ==
  ASSUME NEW fs \in ShareModes, NEW fo \in OpenModes,
         NEW s \in ShareModes, NEW o \in OpenModes, Allowed(fs, fo, s, o)
  PROVE  /\ fs # DENY_ALL /\ s # DENY_ALL
         /\ ~Clash(fo, fs, o, s)
<1> USE DEF ShareModes, OpenModes, COMPAT, DENY_ALL, DENY_WRITE, DENY_READ, DENY_NONE,
            READ_ONLY, WRITE_ONLY, READ_WRITE, Clash, Access, Denied
<1>1. CASE open_actions(fs, s) = 0
  BY <1>1 DEF open_actions
<1>2. CASE <<fs, fo, s, o>> \in open_exceptions
  BY <1>2 DEF open_exceptions
<1> QED
  BY <1>1, <1>2 DEF Allowed

-----------------------------------------------------------------------------
(* The inductive invariant.                                                *)

FileEntry == [filename : Files \cup {None}, openmode : OpenModes, sharemode : ShareModes,
              first_openmode : OpenModes, first_sharemode : ShareModes]

\* An entry of the file table is like the first open or was allowed by it.
FilesInv ==
  /\ file_table \in [Slots -> FileEntry]
  /\ \A k \in Slots : Used(k) =>
       \/ LikeFirst(k)
       \/ Allowed(file_table[k].first_sharemode, file_table[k].first_openmode,
                  file_table[k].sharemode, file_table[k].openmode)
  /\ OpensAgree

\* The entries of the SFT that know an entry of the file table are in use, and
\* are all there are for it.
Matched ==
  /\ \A i \in Sfts : sft[i].shroff >= 0 =>
       /\ Used(sft[i].shroff) /\ sft[i].file = file_table[sft[i].shroff].filename
       /\ \A j \in Sfts : sft[j].shroff = sft[i].shroff => j = i
  /\ \A k \in Slots : Used(k) => \E i \in Sfts : sft[i].shroff = k

SftInv ==
  /\ sft \in [Sfts -> [count : Nat, shroff : Slots \cup {-1}, file : Files \cup {None}]]
  /\ refs \in [Procs -> [Sfts -> Nat]]
  /\ enable \in BOOLEAN /\ upset \in BOOLEAN
  /\ \A i \in Sfts : sft[i].shroff >= 0 => sft[i].count > 0 /\ enable
  /\ ~upset => Matched

LockEntry == [used : {0, 1}, start : 0..Top, end : 0..Top,
              fileno : Slots, psp : Procs \cup {None}]

\* What LocksApart says while the tables agree.
Apart(l) ==
  /\ Used(lock_table[l].fileno) /\ Bytes(l) # {}
  /\ \A m \in LockSlots \ {l} :
       /\ lock_table[m].used = 1 /\ SameFile(lock_table[l].fileno, m)
       /\ Bytes(l) \cap Bytes(m) # {}
       => \/ lock_table[l].start < lock_table[m].start /\ lock_table[m].end < lock_table[l].end
          \/ lock_table[m].start < lock_table[l].start /\ lock_table[l].end < lock_table[m].end

LocksInv ==
  /\ lock_table \in [LockSlots -> LockEntry]
  /\ \A l \in LockSlots : lock_table[l].used = 1 => lock_table[l].start < lock_table[l].end
  /\ ~upset => \A l \in LockSlots : lock_table[l].used = 1 => Apart(l)

Inv == FilesInv /\ SftInv /\ LocksInv

\* Freeing entries of the file table keeps the rest in agreement.
LEMMA FilesShrink ==
  ASSUME FilesInv, file_table' \in [Slots -> FileEntry],
         \A k \in Slots : file_table'[k] \in {file_table[k], NoOpen}
  PROVE  FilesInv'
<1>1. \A k \in Slots : Used(k)' => file_table'[k] = file_table[k]
  BY DEF Used, NoOpen
<1>2. OpensAgree'
  <2> SUFFICES ASSUME NEW j \in Slots, NEW k \in Slots, Used(j)', j # k,
                      file_table'[j].filename = file_table'[k].filename
               PROVE  /\ file_table'[j].sharemode # DENY_ALL
                      /\ file_table'[j].first_openmode = file_table'[k].first_openmode
                      /\ file_table'[j].first_sharemode = file_table'[k].first_sharemode
                      /\ LikeFirst(j)' => ~Conflict(j, k)'
    BY DEF OpensAgree
  <2>1. file_table'[j] = file_table[j] /\ file_table'[k] = file_table[k] /\ Used(j)
    BY <1>1 DEF Used
  <2> QED
    BY <2>1 DEF FilesInv, OpensAgree, LikeFirst, Conflict
<1>3. \A k \in Slots : Used(k)' =>
        \/ LikeFirst(k)'
        \/ Allowed(file_table'[k].first_sharemode, file_table'[k].first_openmode,
                   file_table'[k].sharemode, file_table'[k].openmode)
  BY <1>1 DEF FilesInv, LikeFirst, Used
<1> QED
  BY <1>2, <1>3 DEF FilesInv

\* A new entry agrees with those of its file: what do_open_check compares it
\* with stands for all of them.
LEMMA FilesAdd ==
  ASSUME FilesInv, NEW f \in Files, NEW o \in OpenModes, NEW s \in ShareModes,
         ~Refused(f, o, s),
         file_table' = [file_table EXCEPT ![open_check] =
                          [filename |-> f, openmode |-> o, sharemode |-> s,
                           first_openmode |-> FirstModes(f, o, s)[2],
                           first_sharemode |-> FirstModes(f, o, s)[1]]]
  PROVE  FilesInv' /\ open_check \in Slots /\ ~Used(open_check)
<1> DEFINE n == open_check
           first == FirstModes(f, o, s)
           Like(j) == \/ LikeFirst(j)
                      \/ Allowed(file_table[j].first_sharemode, file_table[j].first_openmode,
                                 file_table[j].sharemode, file_table[j].openmode)
<1>1. n \in Slots /\ ~Used(n)
  BY MinIn, ShareAssumption DEF Refused, FreeSlots, open_check, Slots, ShareAssumption
<1>2. f # None
  BY ShareAssumption DEF ShareAssumption
<1>3. \A j \in Slots : file_table[j].filename = f =>
        first = <<file_table[j].first_sharemode, file_table[j].first_openmode>>
  <2> SUFFICES ASSUME NEW j \in Slots, file_table[j].filename = f
               PROVE  first = <<file_table[j].first_sharemode, file_table[j].first_openmode>>
    OBVIOUS
  <2> DEFINE q == Min(OfFile(f))
  <2>1. j \in OfFile(f) /\ OfFile(f) \subseteq Nat
    BY ShareAssumption DEF OfFile, Slots, ShareAssumption
  <2>2. q \in OfFile(f)
    BY <2>1, MinIn
  <2>3. first = <<file_table[q].first_sharemode, file_table[q].first_openmode>>
    BY <2>1 DEF FirstModes, is_file_open
  <2>4. q \in Slots /\ Used(q) /\ file_table[q].filename = file_table[j].filename
    BY <2>2, <1>2 DEF OfFile, Used
  <2> HIDE DEF q
  <2> QED
    BY <2>3, <2>4 DEF FilesInv, OpensAgree
<1>4. (\E j \in Slots : file_table[j].filename = f) => Allowed(first[1], first[2], s, o)
  BY DEF Refused, is_file_open, OfFile
<1>5. (\A j \in Slots : file_table[j].filename # f) => first = <<s, o>>
  BY DEF FirstModes, is_file_open, OfFile
<1>6. first[1] \in ShareModes /\ first[2] \in OpenModes
  <2>1. CASE \E j \in Slots : file_table[j].filename = f
    BY <2>1, <1>3 DEF FilesInv, FileEntry
  <2>2. CASE \A j \in Slots : file_table[j].filename # f
    BY <2>2, <1>5
  <2> QED
    BY <2>1, <2>2
<1> HIDE DEF n, first
<1>7. /\ file_table' \in [Slots -> FileEntry]
      /\ \A j \in Slots \ {n} : file_table'[j] = file_table[j]
      /\ file_table'[n] = [filename |-> f, openmode |-> o, sharemode |-> s,
                           first_openmode |-> first[2], first_sharemode |-> first[1]]
  BY <1>1, <1>6 DEF FilesInv, FileEntry, n, first
<1>8. \A j \in Slots : file_table[j].filename = f =>
        /\ j # n /\ Used(j) /\ Like(j)
        /\ file_table[j].first_sharemode = first[1] /\ file_table[j].first_openmode = first[2]
        /\ Allowed(first[1], first[2], s, o)
  BY <1>1, <1>2, <1>3, <1>4 DEF Used, FilesInv
<1>9. OpensAgree'
  <2>1. ASSUME NEW j \in Slots, file_table[j].filename = f
        PROVE  /\ file_table[j].sharemode # DENY_ALL /\ s # DENY_ALL
               /\ LikeFirst(j) => ~Clash(file_table[j].openmode, file_table[j].sharemode, o, s)
               /\ s = first[1] /\ o = first[2] =>
                    ~Clash(file_table[j].openmode, file_table[j].sharemode, o, s)
    <3> DEFINE e == file_table[j]
    <3>1. /\ e.sharemode \in ShareModes /\ e.openmode \in OpenModes
          /\ e.first_sharemode = first[1] /\ e.first_openmode = first[2]
          /\ Allowed(first[1], first[2], s, o)
          /\ \/ e.openmode = first[2] /\ e.sharemode = first[1]
             \/ Allowed(first[1], first[2], e.sharemode, e.openmode)
      BY <2>1, <1>8 DEF FilesInv, FileEntry, LikeFirst
    <3>2. /\ first[1] # DENY_ALL /\ s # DENY_ALL
          /\ ~Clash(first[2], first[1], o, s)
      BY <3>1, <1>6, Rules
    <3>3. CASE e.openmode = first[2] /\ e.sharemode = first[1]
      BY <3>2, <3>3
    <3>4. CASE Allowed(first[1], first[2], e.sharemode, e.openmode)
      <4>1. /\ e.sharemode # DENY_ALL
            /\ ~Clash(first[2], first[1], e.openmode, e.sharemode)
        BY <3>1, <3>4, <1>6, Rules
      <4>2. LikeFirst(j) => e.openmode = first[2] /\ e.sharemode = first[1]
        BY <3>1 DEF LikeFirst
      <4>3. s = first[1] /\ o = first[2] => ~Clash(e.openmode, e.sharemode, o, s)
        BY <4>1 DEF Clash
      <4> QED
        BY <3>2, <4>1, <4>2, <4>3
    <3> QED
      BY <3>1, <3>3, <3>4
  <2> SUFFICES ASSUME NEW j \in Slots, NEW k \in Slots, Used(j)', j # k,
                      file_table'[j].filename = file_table'[k].filename
               PROVE  /\ file_table'[j].sharemode # DENY_ALL
                      /\ file_table'[j].first_openmode = file_table'[k].first_openmode
                      /\ file_table'[j].first_sharemode = file_table'[k].first_sharemode
                      /\ LikeFirst(j)' => ~Conflict(j, k)'
    BY DEF OpensAgree
  <2>2. CASE j # n /\ k # n
    <3>1. file_table'[j] = file_table[j] /\ file_table'[k] = file_table[k] /\ Used(j)
      BY <2>2, <1>7 DEF Used
    <3> QED
      BY <3>1 DEF FilesInv, OpensAgree, LikeFirst, Conflict
  <2>3. CASE j = n /\ k # n
    <3>1. file_table'[k] = file_table[k] /\ file_table[k].filename = f
      BY <2>3, <1>7
    <3>2. LikeFirst(j)' <=> o = first[2] /\ s = first[1]
      BY <2>3, <1>7 DEF LikeFirst
    <3>3. Conflict(j, k)' <=> Clash(o, s, file_table[k].openmode, file_table[k].sharemode)
      BY <2>3, <3>1, <1>7 DEF Conflict
    <3> QED
      BY <2>1, <2>3, <3>1, <3>2, <3>3, <1>7, <1>8 DEF Clash
  <2>4. CASE j # n /\ k = n
    <3>1. file_table'[j] = file_table[j] /\ file_table[j].filename = f
      BY <2>4, <1>7
    <3>2. LikeFirst(j)' <=> LikeFirst(j)
      BY <3>1 DEF LikeFirst
    <3>3. Conflict(j, k)' <=> Clash(file_table[j].openmode, file_table[j].sharemode, o, s)
      BY <2>4, <3>1, <1>7 DEF Conflict
    <3> QED
      BY <2>1, <2>4, <3>1, <3>2, <3>3, <1>7, <1>8
  <2> QED
    BY <2>2, <2>3, <2>4
<1>10. ASSUME NEW j \in Slots, Used(j)'
       PROVE  \/ LikeFirst(j)'
              \/ Allowed(file_table'[j].first_sharemode, file_table'[j].first_openmode,
                         file_table'[j].sharemode, file_table'[j].openmode)
  <2>1. CASE j # n
    BY <2>1, <1>7, <1>10 DEF FilesInv, LikeFirst, Used
  <2>2. CASE j = n /\ \E h \in Slots : file_table[h].filename = f
    BY <2>2, <1>4, <1>7
  <2>3. CASE j = n /\ \A h \in Slots : file_table[h].filename # f
    BY <2>3, <1>5, <1>7 DEF LikeFirst
  <2> QED
    BY <2>1, <2>2, <2>3
<1> QED
  BY <1>1, <1>7, <1>9, <1>10 DEF FilesInv, n

-----------------------------------------------------------------------------
(* Regions.                                                                *)

\* A region ends within the offsets, and where its bytes do unless they go
\* past the largest.
LEMMA EndOf ==
  ASSUME NEW r \in Regions
  PROVE  /\ End(r) \in 0..Top /\ r[1] \in 0..Top /\ r[2] \in 0..Top
         /\ End(r) = IF r[1] + r[2] > Top THEN Top ELSE r[1] + r[2]
<1> DEFINE a == r[1]
           b == r[2]
<1>1. Top \in Nat /\ a \in 0..Top /\ b \in 0..Top
  BY ShareAssumption DEF ShareAssumption
<1>2. End(r) = IF (a + b) % (Top + 1) < a THEN Top ELSE (a + b) % (Top + 1)
  BY DEF End
<1> HIDE DEF a, b
<1>3. CASE a + b =< Top
  <2>1. (a + b) % (Top + 1) = a + b
    BY <1>1, <1>3
  <2> QED
    BY <2>1, <1>1, <1>2, <1>3 DEF a, b
<1>4. CASE a + b > Top
  <2>1. (a + b) % (Top + 1) = a + b - (Top + 1)
    BY <1>1, <1>4
  <2> QED
    BY <2>1, <1>1, <1>2, <1>4 DEF a, b
<1> QED
  BY <1>1, <1>3, <1>4

\* A region with bytes in a lock that does not hold its first or last byte
\* reaches beyond the lock on both sides.
LEMMA Beyond ==
  ASSUME NEW r \in Regions, NEW lock \in [start : 0..Top, end : 0..Top], NEW x \in 0..Top,
         lock.start =< x, x < lock.end, r[1] =< x, x < r[1] + r[2],
         End(r) =< r[1] \/ ~Holds(lock, r)
  PROVE  End(r) > r[1] /\ r[1] < lock.start /\ lock.end < End(r) /\ lock.end < r[1] + r[2]
  BY EndOf, ShareAssumption DEF Holds, ShareAssumption

-----------------------------------------------------------------------------
(* Locks.                                                                  *)

\* Removing locks, and entries of the file table that no lock is left for,
\* keeps the rest apart.
LEMMA LocksShrink ==
  ASSUME LocksInv, ~upset, FilesInv, upset' \in BOOLEAN,
         \A l \in LockSlots : lock_table'[l] \in {lock_table[l], NoLock},
         lock_table' \in [LockSlots -> LockEntry],
         \A l \in LockSlots : lock_table'[l].used = 1 =>
           file_table'[lock_table[l].fileno] = file_table[lock_table[l].fileno]
  PROVE  LocksInv'
<1>1. \A l \in LockSlots : lock_table'[l].used = 1 =>
        /\ lock_table'[l] = lock_table[l] /\ lock_table[l].used = 1 /\ lock_table[l].fileno \in Slots
        /\ file_table'[lock_table[l].fileno] = file_table[lock_table[l].fileno]
  BY DEF NoLock, LocksInv, LockEntry
<1>2. ASSUME NEW l \in LockSlots, lock_table'[l].used = 1
      PROVE  Apart(l)'
  <2>1. Apart(l)
    BY <1>1, <1>2 DEF LocksInv
  <2>2. Used(lock_table[l].fileno)' /\ Bytes(l)' # {}
    BY <1>1, <1>2, <2>1 DEF Apart, Used, Bytes
  <2>3. ASSUME NEW m \in LockSlots \ {l}, lock_table'[m].used = 1, SameFile(lock_table[l].fileno, m)',
               Bytes(l)' \cap Bytes(m)' # {}
        PROVE  \/ lock_table'[l].start < lock_table'[m].start /\ lock_table'[m].end < lock_table'[l].end
               \/ lock_table'[m].start < lock_table'[l].start /\ lock_table'[l].end < lock_table'[m].end
    <3>1. lock_table'[m] = lock_table[m] /\ lock_table[m].used = 1
      BY <1>1, <2>3
    <3>2. SameFile(lock_table[l].fileno, m)
      BY <1>1, <1>2, <2>3, <3>1 DEF SameFile
    <3>3. Bytes(l) \cap Bytes(m) # {}
      BY <1>1, <1>2, <2>3, <3>1 DEF Bytes
    <3> QED
      BY <1>1, <1>2, <2>1, <3>1, <3>2, <3>3 DEF Apart
  <2> QED
    BY <2>2, <2>3 DEF Apart
<1>3. \A l \in LockSlots : lock_table'[l].used = 1 => lock_table'[l].start < lock_table'[l].end
  BY <1>1 DEF LocksInv
<1> QED
  BY <1>2, <1>3 DEF LocksInv

\* A new lock is apart from those that did not hold its first or last byte.
LEMMA LocksAdd ==
  ASSUME LocksInv, ~upset, NEW k \in Slots, Used(k), NEW r \in Regions, NEW p \in Procs,
         NEW n \in LockSlots, lock_table[n].used = 0, End(r) > r[1], ~Hit(None, k, r),
         lock_table' = [lock_table EXCEPT ![n] =
                          [used |-> 1, start |-> r[1], end |-> End(r), fileno |-> k, psp |-> p]],
         UNCHANGED <<file_table, upset>>
  PROVE  LocksInv'
<1> DEFINE new == [used |-> 1, start |-> r[1], end |-> End(r), fileno |-> k, psp |-> p]
<1>1. /\ new \in LockEntry
      /\ new.start < new.end /\ Top \in Nat
  BY EndOf, ShareAssumption DEF ShareAssumption, LockEntry
<1>2. /\ lock_table'[n] = new
      /\ \A m \in LockSlots \ {n} : lock_table'[m] = lock_table[m]
      /\ lock_table' \in [LockSlots -> LockEntry]
  BY <1>1 DEF LocksInv
<1> HIDE DEF new
<1>3. ASSUME NEW m \in LockSlots \ {n}, lock_table[m].used = 1, SameFile(k, m),
             NEW x, x \in (new.start .. new.end - 1), x \in Bytes(m)
      PROVE  new.start < lock_table[m].start /\ lock_table[m].end < new.end
  <2>1. ~Holds(lock_table[m], r)
    BY <1>3 DEF Hit, SameFile
  <2>2. /\ lock_table[m].start \in 0..Top /\ lock_table[m].end \in 0..Top
        /\ new.start \in 0..Top /\ new.end \in 0..Top
        /\ new.start = r[1] /\ new.end = End(r)
    BY <1>1 DEF LocksInv, LockEntry, new
  <2> QED
    BY <1>1, <1>3, <2>1, <2>2 DEF Holds, Bytes
<1>4. ASSUME NEW l \in LockSlots, lock_table'[l].used = 1
      PROVE  Apart(l)'
  <2>1. Used(lock_table[l].fileno)' /\ Bytes(l)' # {}
    <3>1. CASE l = n
      BY <3>1, <1>1, <1>2 DEF Bytes, Used, LockEntry, new
    <3>2. CASE l # n
      BY <3>2, <1>2, <1>4 DEF LocksInv, Apart, Used, Bytes
    <3> QED
      BY <3>1, <3>2
  <2>2. ASSUME NEW m \in LockSlots \ {l}, lock_table'[m].used = 1, SameFile(lock_table[l].fileno, m)',
               NEW x \in Bytes(l)' \cap Bytes(m)'
        PROVE  \/ lock_table'[l].start < lock_table'[m].start /\ lock_table'[m].end < lock_table'[l].end
               \/ lock_table'[m].start < lock_table'[l].start /\ lock_table'[l].end < lock_table'[m].end
    <3>1. CASE l = n
      <4>1. lock_table'[m] = lock_table[m] /\ SameFile(k, m)
        BY <2>2, <3>1, <1>2 DEF SameFile, new
      <4>2. x \in (new.start .. new.end - 1) /\ x \in Bytes(m)
        BY <2>2, <3>1, <4>1, <1>2 DEF Bytes
      <4>3. new.start < lock_table[m].start /\ lock_table[m].end < new.end
        BY <1>3, <4>1, <4>2, <2>2, <3>1
      <4> QED
        BY <4>1, <4>3, <3>1, <1>2
    <3>2. CASE m = n
      <4>1. lock_table'[l] = lock_table[l] /\ SameFile(k, l) /\ lock_table[l].used = 1
        BY <1>4, <2>2, <3>2, <1>2 DEF SameFile, new
      <4>2. x \in (new.start .. new.end - 1) /\ x \in Bytes(l)
        BY <2>2, <3>2, <4>1, <1>2 DEF Bytes
      <4>3. new.start < lock_table[l].start /\ lock_table[l].end < new.end
        BY <1>3, <4>1, <4>2, <2>2, <3>2
      <4> QED
        BY <4>1, <4>3, <3>2, <1>2
    <3>3. CASE l # n /\ m # n
      <4>1. lock_table'[l] = lock_table[l] /\ lock_table'[m] = lock_table[m]
        BY <3>3, <1>2
      <4>2. SameFile(lock_table[l].fileno, m) /\ x \in Bytes(l) /\ x \in Bytes(m)
        BY <2>2, <4>1 DEF SameFile, Bytes
      <4>3. Apart(l) /\ lock_table[m].used = 1
        BY <1>4, <2>2, <4>1 DEF LocksInv
      <4> QED
        BY <4>1, <4>2, <4>3 DEF Apart
    <3> QED
      BY <3>1, <3>2, <3>3
  <2> QED
    BY <2>1, <2>2 DEF Apart
<1>5. \A l \in LockSlots : lock_table'[l].used = 1 => lock_table'[l].start < lock_table'[l].end
  BY <1>1, <1>2 DEF LocksInv
<1> QED
  BY <1>2, <1>4, <1>5 DEF LocksInv

-----------------------------------------------------------------------------
(* Closing.                                                                *)

LEMMA Less ==
  ASSUME NEW a \in Nat, NEW b \in Nat, b =< a, a # b
  PROVE  a - b \in Nat /\ a - b > 0
  OBVIOUS

\* DosCloseSft keeps the invariant, however often each entry is closed.
LEMMA CloseKeeps ==
  ASSUME Inv, ~upset, NEW n \in [Sfts -> Nat], \A i \in Sfts : n[i] =< sft[i].count,
         DosCloseSft(n), refs' \in [Procs -> [Sfts -> Nat]], upset' \in BOOLEAN
  PROVE  Inv'
<1> DEFINE S == {sft[i].shroff : i \in {j \in Last(n) : IsShareInstalled /\ sft[j].shroff >= 0}}
<1>1. /\ sft' = [i \in Sfts |-> IF sft[i].count = n[i] THEN NoSft
                                ELSE [sft[i] EXCEPT !.count = @ - n[i]]]
      /\ close_files(S) /\ enable' = enable
  BY DEF DosCloseSft
<1>2. /\ lock_table' = [l \in LockSlots |-> IF lock_table[l].used = 1 /\ lock_table[l].fileno \in S
                                            THEN NoLock ELSE lock_table[l]]
      /\ file_table' = [k \in Slots |-> IF k \in S THEN NoOpen ELSE file_table[k]]
  BY <1>1 DEF close_files
<1>3. /\ sft \in [Sfts -> [count : Nat, shroff : Slots \cup {-1}, file : Files \cup {None}]]
      /\ \A i \in Sfts : sft[i].shroff >= 0 => sft[i].count > 0 /\ enable
      /\ Matched
  BY DEF Inv, SftInv
<1>4. \A i \in Sfts : sft[i].shroff >= 0 => (sft[i].shroff \in S <=> sft[i].count = n[i])
  <2> SUFFICES ASSUME NEW i \in Sfts, sft[i].shroff >= 0
               PROVE  sft[i].shroff \in S <=> sft[i].count = n[i]
    OBVIOUS
  <2>1. ASSUME sft[i].shroff \in S PROVE sft[i].count = n[i]
    <3>1. PICK j \in Last(n) : sft[j].shroff = sft[i].shroff
      BY <2>1
    <3>2. j = i
      BY <3>1, <1>3 DEF Matched, Last
    <3> QED
      BY <3>1, <3>2 DEF Last
  <2>2. ASSUME sft[i].count = n[i] PROVE sft[i].shroff \in S
    BY <2>2, <1>3 DEF Last, IsShareInstalled
  <2> QED
    BY <2>1, <2>2
<1> HIDE DEF S
<1>5. FilesInv'
  <2>1. NoOpen \in FileEntry
    BY ShareAssumption DEF NoOpen, FileEntry, OpenModes, ShareModes
  <2>2. /\ file_table' \in [Slots -> FileEntry]
        /\ \A k \in Slots : file_table'[k] \in {file_table[k], NoOpen}
    BY <1>2, <2>1 DEF Inv, FilesInv
  <2> QED
    BY <2>2, FilesShrink DEF Inv
<1>6. SftInv'
  <2>1. NoSft \in [count : Nat, shroff : Slots \cup {-1}, file : Files \cup {None}]
    BY DEF NoSft
  <2>2. ASSUME NEW i \in Sfts
        PROVE  /\ sft'[i] \in [count : Nat, shroff : Slots \cup {-1}, file : Files \cup {None}]
               /\ sft'[i].shroff >= 0 <=> sft[i].shroff >= 0 /\ sft[i].count # n[i]
               /\ sft'[i].shroff >= 0 => /\ sft'[i].shroff = sft[i].shroff
                                         /\ sft'[i].file = sft[i].file
                                         /\ sft'[i].count > 0
    <3>1. CASE sft[i].count = n[i]
      <4>1. sft'[i] = NoSft
        BY <1>1, <3>1
      <4> QED
        BY <4>1, <3>1, <2>1 DEF NoSft
    <3>2. CASE sft[i].count # n[i]
      <4> DEFINE c == sft[i].count - n[i]
      <4>1. sft'[i] = [sft[i] EXCEPT !.count = c]
        BY <1>1, <3>2, Zenon
      <4>2. sft[i].count \in Nat /\ n[i] \in Nat /\ n[i] =< sft[i].count
        BY <1>3
      <4>3. c \in Nat /\ c > 0
        BY <4>2, <3>2, Less, Zenon
      <4> HIDE DEF c
      <4> QED
        BY <4>1, <4>3, <3>2, <1>3
    <3> QED
      BY <3>1, <3>2
  <2>3. sft' \in [Sfts -> [count : Nat, shroff : Slots \cup {-1}, file : Files \cup {None}]]
    BY <2>2, <1>1
  <2>4. \A k \in Slots : Used(k)' <=> Used(k) /\ k \notin S
    BY <1>2 DEF Used, NoOpen
  <2>5. Matched'
    <3>1. ASSUME NEW i \in Sfts, sft'[i].shroff >= 0
          PROVE  /\ Used(sft[i].shroff)' /\ sft'[i].file = file_table'[sft'[i].shroff].filename
                 /\ \A j \in Sfts : sft'[j].shroff = sft'[i].shroff => j = i
      <4>1. /\ sft[i].shroff >= 0 /\ sft'[i].shroff = sft[i].shroff /\ sft'[i].file = sft[i].file
            /\ sft[i].shroff \in Slots /\ sft[i].shroff \notin S
        BY <3>1, <2>2, <1>3, <1>4
      <4>2. Used(sft[i].shroff)' /\ sft'[i].file = file_table'[sft'[i].shroff].filename
        BY <4>1, <2>4, <1>2, <1>3 DEF Matched
      <4>3. \A j \in Sfts : sft'[j].shroff = sft'[i].shroff => sft[j].shroff = sft[i].shroff
        BY <4>1, <2>2, <3>1
      <4> QED
        BY <4>1, <4>2, <4>3, <1>3 DEF Matched
    <3>2. ASSUME NEW k \in Slots, Used(k)'
          PROVE  \E i \in Sfts : sft'[i].shroff = k
      <4>1. Used(k) /\ k \notin S /\ k >= 0
        BY <3>2, <2>4 DEF Slots
      <4>2. PICK i \in Sfts : sft[i].shroff = k
        BY <4>1, <1>3 DEF Matched
      <4> QED
        BY <4>1, <4>2, <2>2, <1>4
    <3> QED
      BY <3>1, <3>2 DEF Matched
  <2> QED
    BY <2>2, <2>3, <2>5, <1>1, <1>3 DEF Inv, SftInv
<1>7. LocksInv'
  <2>1. NoLock \in LockEntry
    BY ShareAssumption DEF NoLock, LockEntry, Slots, ShareAssumption
  <2>2. /\ \A l \in LockSlots : lock_table'[l] \in {lock_table[l], NoLock}
        /\ lock_table' \in [LockSlots -> LockEntry]
    BY <1>2, <2>1 DEF Inv, LocksInv
  <2>3. ASSUME NEW l \in LockSlots, lock_table'[l].used = 1
        PROVE  file_table'[lock_table[l].fileno] = file_table[lock_table[l].fileno]
    <3>1. lock_table[l].fileno \in Slots /\ lock_table[l].fileno \notin S
      BY <2>3, <1>2 DEF NoLock, Inv, LocksInv, LockEntry
    <3> QED
      BY <3>1, <1>2
  <2> QED
    BY <2>2, <2>3, LocksShrink DEF Inv
<1> QED
  BY <1>5, <1>6, <1>7 DEF Inv

-----------------------------------------------------------------------------
(* One lemma for the calls that need more than the lemmas above.           *)

LEMMA InitInv == Init => Inv
<1> SUFFICES ASSUME Init PROVE Inv
  OBVIOUS
<1>1. FilesInv
  BY ShareAssumption DEF Init, NoOpen, FilesInv, FileEntry, Used, OpensAgree, OpenModes, ShareModes
<1>2. SftInv
  <2>1. /\ sft \in [Sfts -> [count : Nat, shroff : Slots \cup {-1}, file : Files \cup {None}]]
        /\ refs \in [Procs -> [Sfts -> Nat]]
        /\ \A i \in Sfts : ~(sft[i].shroff >= 0)
    BY DEF Init, NoSft
  <2>2. Matched
    BY <2>1 DEF Init, NoOpen, Matched, Used
  <2>3. enable \in BOOLEAN /\ upset \in BOOLEAN
    BY Zenon DEF Init
  <2> QED
    BY <2>1, <2>2, <2>3 DEF SftInv
<1>3. LocksInv
  BY ShareAssumption DEF Init, NoLock, LocksInv, LockEntry, Slots, ShareAssumption
<1> QED
  BY <1>1, <1>2, <1>3 DEF Inv

\* A handle more or less.
LEMMA RefsAdd ==
  ASSUME NEW f \in [Procs -> [Sfts -> Nat]], NEW p \in Procs, NEW i \in Sfts, NEW c \in Nat
  PROVE  [f EXCEPT ![p][i] = c] \in [Procs -> [Sfts -> Nat]]
<1> DEFINE g == [f[p] EXCEPT ![i] = c]
<1>1. g \in [Sfts -> Nat]
  OBVIOUS
<1>2. [f EXCEPT ![p][i] = c] = [f EXCEPT ![p] = g]
  BY Zenon
<1> HIDE DEF g
<1> QED
  BY <1>1, <1>2

LEMMA OpenKeeps ==
  ASSUME Inv, NEW p \in Procs, DosOpen(p)
  PROVE  Inv'
<1>1. PICK f \in Files, m \in Modes, out \in Outcomes :
       LET i == Min(FreeSfts)
           o == m[1]
           s == Sharing(m[2])
           k == IF IsShareInstalled THEN open_check ELSE -1
           first == FirstModes(f, o, s) IN
       /\ IsShareInstalled => ~Refused(f, o, s)
       /\ sft' = [sft EXCEPT ![i] = [count |-> 1, shroff |-> k, file |-> f]]
       /\ file_table' = IF k = -1 THEN file_table
            ELSE [file_table EXCEPT ![k] =
                   [filename |-> f, openmode |-> o, sharemode |-> s,
                    first_openmode |-> first[2], first_sharemode |-> first[1]]]
       /\ refs' \in {refs, [refs EXCEPT ![p][i] = 1]}
  BY DEF DosOpen
<1> DEFINE i == Min(FreeSfts)
           o == m[1]
           s == Sharing(m[2])
           k == IF IsShareInstalled THEN open_check ELSE -1
<1>2. ~upset /\ FreeSfts # {} /\ UNCHANGED <<enable, lock_table, upset>>
  BY DEF DosOpen, Call
<1>3. i \in Sfts /\ sft[i].count = 0
  BY <1>2, MinIn, ShareAssumption DEF FreeSfts, Sfts, ShareAssumption
<1>4. o \in OpenModes /\ s \in ShareModes
  BY ShareAssumption DEF ShareAssumption, OpenModes, ShareModes, Sharing, COMPAT, DENY_NONE
<1>5. refs' \in [Procs -> [Sfts -> Nat]]
  <2>1. refs \in [Procs -> [Sfts -> Nat]]
    BY DEF Inv, SftInv
  <2>2. refs' = refs \/ refs' = [refs EXCEPT ![p][i] = 1]
    BY <1>1, Zenon
  <2> HIDE DEF i
  <2>3. [refs EXCEPT ![p][i] = 1] \in [Procs -> [Sfts -> Nat]]
    BY <2>1, <1>3, RefsAdd
  <2> QED
    BY <2>1, <2>2, <2>3, Zenon
<1>6. CASE enable
  <2>1. k = open_check /\ ~Refused(f, o, s)
    BY <1>1, <1>6 DEF IsShareInstalled
  <2>2. k \in Slots
    BY <2>1, MinIn, ShareAssumption DEF Refused, FreeSlots, open_check, Slots, ShareAssumption
  <2>3. file_table' = [file_table EXCEPT ![open_check] =
                         [filename |-> f, openmode |-> o, sharemode |-> s,
                          first_openmode |-> FirstModes(f, o, s)[2],
                          first_sharemode |-> FirstModes(f, o, s)[1]]]
    <3>1. k # -1
      BY <2>2 DEF Slots
    <3> QED
      BY <1>1, <2>1, <3>1, Zenon
  <2>4. FilesInv' /\ ~Used(k)
    BY <1>4, <2>1, <2>3, FilesAdd DEF Inv
  <2>5. /\ \A j \in Slots \ {k} : file_table'[j] = file_table[j]
        /\ file_table'[k].filename = f /\ f # None
    BY <2>1, <2>2, <2>3, ShareAssumption DEF Inv, FilesInv, ShareAssumption
  <2>6. sft' = [sft EXCEPT ![i] = [count |-> 1, shroff |-> k, file |-> f]]
    BY <1>1
  <2> HIDE DEF i, k, o, s
  <2>7. SftInv'
    <3>1. /\ sft \in [Sfts -> [count : Nat, shroff : Slots \cup {-1}, file : Files \cup {None}]]
          /\ \A j \in Sfts : sft[j].shroff >= 0 => sft[j].count > 0
          /\ refs \in [Procs -> [Sfts -> Nat]] /\ Matched
      BY <1>2 DEF Inv, SftInv
    <3>2. /\ sft' \in [Sfts -> [count : Nat, shroff : Slots \cup {-1}, file : Files \cup {None}]]
          /\ sft'[i].count = 1 /\ sft'[i].shroff = k /\ sft'[i].file = f
          /\ \A j \in Sfts \ {i} : sft'[j] = sft[j]
      BY <2>2, <2>6, <3>1, <1>3
    <3>4. /\ k >= 0 /\ \A j \in Sfts : sft[j].shroff # k
          /\ ~(sft[i].shroff >= 0)
      <4>1. k >= 0 /\ k # -1
        BY <2>2, ShareAssumption DEF Slots, ShareAssumption
      <4>2. sft[i].shroff >= 0 => sft[i].count > 0
        BY <3>1, <1>3
      <4>3. ~(sft[i].shroff >= 0)
        BY <4>2, <1>3
      <4>4. ASSUME NEW j \in Sfts, sft[j].shroff = k PROVE FALSE
        <5>1. Used(sft[j].shroff)
          BY <4>1, <4>4, <3>1 DEF Matched
        <5> QED
          BY <5>1, <4>4, <2>4
      <4> QED
        BY <4>1, <4>3, <4>4
    <3>5. \A j \in Slots : Used(j)' <=> Used(j) \/ j = k
      BY <2>5 DEF Used
    <3>6. Matched'
      <4>1. ASSUME NEW j \in Sfts, sft'[j].shroff >= 0
            PROVE  /\ Used(sft[j].shroff)' /\ sft'[j].file = file_table'[sft'[j].shroff].filename
                   /\ \A h \in Sfts : sft'[h].shroff = sft'[j].shroff => h = j
        <5>1. CASE j = i
          BY <5>1, <3>2, <3>4, <3>5, <2>5, <2>2
        <5>2. CASE j # i
          <6>1. /\ sft'[j] = sft[j] /\ sft[j].shroff # k /\ sft[j].shroff \in Slots
                /\ Used(sft[j].shroff) /\ sft[j].file = file_table[sft[j].shroff].filename
            BY <5>2, <4>1, <3>1, <3>2, <3>4 DEF Matched
          <6>2. Used(sft[j].shroff)'
            BY <6>1, <3>5 DEF Used
          <6> QED
            BY <4>1, <6>1, <6>2, <5>2, <3>1, <3>2, <2>5 DEF Matched
        <5> QED
          BY <5>1, <5>2
      <4>2. ASSUME NEW j \in Slots, Used(j)'
            PROVE  \E h \in Sfts : sft'[h].shroff = j
        <5>1. CASE j = k
          BY <5>1, <3>2, <1>3
        <5>2. CASE j # k
          <6>1. PICK h \in Sfts : sft[h].shroff = j
            BY <5>2, <4>2, <3>1, <3>5 DEF Matched
          <6>2. h # i
            BY <6>1, <3>4 DEF Slots
          <6> QED
            BY <6>1, <6>2, <3>2
        <5> QED
          BY <5>1, <5>2
      <4> QED
        BY <4>1, <4>2 DEF Matched
    <3> QED
      <4>1. enable' = enable /\ enable \in BOOLEAN /\ upset' = upset /\ upset \in BOOLEAN
        BY <1>2, Zenon DEF Inv, SftInv
      <4>2. \A j \in Sfts : sft'[j].shroff >= 0 => sft'[j].count > 0
        BY <3>1, <3>2
      <4>3. \A j \in Sfts : sft'[j].shroff >= 0 => sft'[j].count > 0 /\ enable'
        BY <4>1, <4>2, <1>6, Zenon
      <4> QED
        BY <3>2, <1>5, <3>6, <4>1, <4>3, Zenon DEF SftInv
  <2>8. LocksInv'
    <3>1. \A l \in LockSlots : lock_table[l].used = 1 =>
            lock_table[l].fileno \in Slots \ {k}
      BY <1>2, <2>4 DEF Inv, LocksInv, LockEntry, Apart
    <3>2. lock_table' = lock_table /\ upset' \in BOOLEAN
      BY <1>2 DEF Inv, SftInv
    <3> QED
      BY <3>1, <3>2, <2>5, <1>2, LocksShrink DEF Inv, LocksInv
  <2> QED
    BY <2>4, <2>7, <2>8 DEF Inv
<1>7. CASE ~enable
  <2>1. k = -1 /\ file_table' = file_table
    BY <1>1, <1>7 DEF IsShareInstalled
  <2>2. sft' = [sft EXCEPT ![i] = [count |-> 1, shroff |-> -1, file |-> f]]
    BY <1>1, <2>1
  <2> HIDE DEF i, k, o, s
  <2>4. FilesInv' /\ LocksInv'
    BY <1>2, <2>1 DEF Inv, FilesInv, LocksInv, OpensAgree, Used, LikeFirst, Conflict, Apart, Bytes, SameFile
  <2>5. \A j \in Sfts : ~(sft[j].shroff >= 0)
    BY <1>7 DEF Inv, SftInv
  <2>6. \A j \in Sfts : ~(sft'[j].shroff >= 0)
    BY <2>2, <2>5 DEF Inv, SftInv
  <2>7. \A j \in Slots : ~Used(j)
    BY <2>5, <1>2 DEF Inv, SftInv, Matched, Slots
  <2>8. Matched'
    BY <2>1, <2>6, <2>7 DEF Matched, Used
  <2> QED
    BY <1>2, <1>3, <1>5, <2>2, <2>4, <2>6, <2>8 DEF Inv, SftInv
<1> QED
  BY <1>6, <1>7 DEF Inv, SftInv

\* The steps that change neither what opens nor what locks say.
LEMMA SameTables ==
  ASSUME FilesInv, LocksInv, UNCHANGED <<file_table, lock_table, upset>>
  PROVE  FilesInv' /\ LocksInv'
  BY DEF FilesInv, LocksInv, OpensAgree, Used, LikeFirst, Conflict, Apart, Bytes, SameFile

LEMMA LockKeeps ==
  ASSUME Inv, NEW p \in Procs, Lock(p)
  PROVE  Inv'
<1>1. PICK i \in Sfts, r \in Regions :
       LET k == sft[i].shroff
           free == {l \in LockSlots : lock_table[l].used = 0} IN
       /\ k >= 0 /\ End(r) > r[1] /\ ~Hit(None, k, r) /\ free # {}
       /\ lock_table' = [lock_table EXCEPT ![Min(free)] =
                           [used |-> 1, start |-> r[1], end |-> End(r), fileno |-> k, psp |-> p]]
  BY DEF Lock
<1> DEFINE k == sft[i].shroff
           free == {l \in LockSlots : lock_table[l].used = 0}
           n == Min(free)
<1>2. ~upset /\ UNCHANGED <<enable, file_table, sft, refs, upset>>
  BY DEF Lock, Call
<1>3. k \in Slots /\ Used(k)
  BY <1>1, <1>2 DEF Inv, SftInv, Matched
<1>4. n \in LockSlots /\ lock_table[n].used = 0
  <2>1. free \subseteq Nat
    BY ShareAssumption DEF LockSlots, ShareAssumption
  <2>2. n \in free
    BY <1>1, <2>1, MinIn
  <2> QED
    BY <2>2
<1>5. /\ lock_table' = [lock_table EXCEPT ![n] =
                          [used |-> 1, start |-> r[1], end |-> End(r), fileno |-> k, psp |-> p]]
      /\ End(r) > r[1] /\ ~Hit(None, k, r)
  BY <1>1
<1> HIDE DEF k, n
<1>6. LocksInv'
  BY <1>2, <1>3, <1>4, <1>5, LocksAdd DEF Inv
<1>7. FilesInv' /\ SftInv'
  BY <1>2 DEF Inv, FilesInv, SftInv, OpensAgree, Used, LikeFirst, Conflict, Matched
<1> QED
  BY <1>6, <1>7 DEF Inv

LEMMA UnlockKeeps ==
  ASSUME Inv, NEW p \in Procs, Unlock(p)
  PROVE  Inv'
<1>1. PICK l : lock_table' = [lock_table EXCEPT ![l] = NoLock]
  BY DEF Unlock
<1>2. ~upset /\ UNCHANGED <<enable, file_table, sft, refs, upset>>
  BY DEF Unlock, Call
<1>3. FilesInv' /\ SftInv'
  BY <1>2 DEF Inv, FilesInv, SftInv, OpensAgree, Used, LikeFirst, Conflict, Matched
<1>4. NoLock \in LockEntry
  BY ShareAssumption DEF NoLock, LockEntry, Slots, ShareAssumption
<1>5. /\ lock_table' \in [LockSlots -> LockEntry]
      /\ \A m \in LockSlots : lock_table'[m] \in {lock_table[m], NoLock}
  BY <1>1, <1>4 DEF Inv, LocksInv
<1>6. LocksInv'
  BY <1>2, <1>5, LocksShrink DEF Inv, SftInv
<1> QED
  BY <1>3, <1>6 DEF Inv

\* A refused transfer frees the entry of an open file.
LEMMA RefusedKeeps ==
  ASSUME Inv, NEW p \in Procs, DosRWSft(p)
  PROVE  Inv'
<1>1. PICK k : file_table' = [file_table EXCEPT ![k] = NoOpen]
  BY DEF DosRWSft
<1>2. upset' = TRUE /\ UNCHANGED <<enable, lock_table, sft, refs>>
  BY DEF DosRWSft
<1>3. NoOpen \in FileEntry
  BY ShareAssumption DEF NoOpen, FileEntry, OpenModes, ShareModes
<1>4. /\ file_table' \in [Slots -> FileEntry]
      /\ \A j \in Slots : file_table'[j] \in {file_table[j], NoOpen}
  BY <1>1, <1>3 DEF Inv, FilesInv
<1>5. FilesInv'
  BY <1>4, FilesShrink DEF Inv
<1>6. SftInv' /\ LocksInv'
  BY <1>2 DEF Inv, SftInv, LocksInv
<1> QED
  BY <1>5, <1>6 DEF Inv

\* SHARE /D and /E: nothing is left of either table.
LEMMA ClearedKeeps ==
  ASSUME Inv, Cleared, asm_disable \/ asm_enable
  PROVE  Inv'
<1>1. /\ file_table' \in [Slots -> FileEntry] /\ \A k \in Slots : ~Used(k)'
      /\ lock_table' \in [LockSlots -> LockEntry] /\ \A l \in LockSlots : lock_table'[l].used = 0
  BY ShareAssumption DEF Cleared, NoOpen, NoLock, FileEntry, LockEntry, Used, OpenModes, ShareModes,
                         Slots, ShareAssumption
<1>2. FilesInv' /\ LocksInv'
  BY <1>1 DEF FilesInv, LocksInv, OpensAgree
<1>3. /\ sft' \in [Sfts -> [count : Nat, shroff : Slots \cup {-1}, file : Files \cup {None}]]
      /\ \A i \in Sfts : ~(sft'[i].shroff >= 0)
  <2>1. CASE asm_disable
    BY <2>1 DEF asm_disable, Inv, SftInv
  <2>2. CASE asm_enable
    BY <2>2 DEF asm_enable, Inv, SftInv
  <2> QED
    BY <2>1, <2>2
<1>4. enable' \in BOOLEAN /\ upset' \in BOOLEAN /\ refs' \in [Procs -> [Sfts -> Nat]]
  BY Zenon DEF Inv, SftInv, asm_disable, asm_enable
<1>5. SftInv'
  BY <1>1, <1>3, <1>4 DEF SftInv, Matched
<1> QED
  BY <1>2, <1>5 DEF Inv

LEMMA CloseOneKeeps ==
  ASSUME Inv, NEW p \in Procs, DosClose(p)
  PROVE  Inv'
<1>1. PICK i \in Sfts, out \in Outcomes :
        /\ IsOpen(p, i)
        /\ refs' = [refs EXCEPT ![p][i] = @ - 1]
        /\ IF out = "ok" THEN DosCloseSft(OnceEach({i})) ELSE UNCHANGED <<share, share_installed, sft>>
  BY DEF DosClose
<1>2. ~upset /\ upset' = upset /\ upset' \in BOOLEAN
  BY Zenon DEF DosClose, Call, Inv, SftInv
<1>3. /\ refs \in [Procs -> [Sfts -> Nat]] /\ refs[p][i] > 0 /\ sft[i].count > 0
      /\ \A j \in Sfts : sft[j].count \in Nat
  BY <1>1 DEF IsOpen, Inv, SftInv
<1>4. refs' \in [Procs -> [Sfts -> Nat]]
  <2> DEFINE c == refs[p][i] - 1
  <2>1. c \in Nat
    BY <1>3
  <2>2. refs' = [refs EXCEPT ![p][i] = c]
    BY <1>1, Zenon
  <2> HIDE DEF c
  <2> QED
    BY <1>3, <2>1, <2>2, RefsAdd
<1>5. CASE out = "ok"
  <2>1. OnceEach({i}) \in [Sfts -> Nat] /\ \A j \in Sfts : OnceEach({i})[j] =< sft[j].count
    BY <1>3 DEF OnceEach
  <2> QED
    BY <1>1, <1>2, <1>4, <1>5, <2>1, CloseKeeps
<1>6. CASE out # "ok"
  <2>1. UNCHANGED <<share, sft, upset>>
    BY <1>1, <1>2, <1>6
  <2> QED
    BY <1>4, <2>1, SameTables DEF Inv, SftInv, share, Matched, Used
<1> QED
  BY <1>5, <1>6

LEMMA CloneKeeps ==
  ASSUME Inv, NEW p \in Procs, CloneHandle(p)
  PROVE  Inv'
<1>1. PICK i \in Sfts, q \in Procs :
        /\ refs' = [refs EXCEPT ![q][i] = @ + 1]
        /\ sft' = [sft EXCEPT ![i].count = @ + 1]
  BY DEF CloneHandle
<1>2. UNCHANGED <<share, upset>> /\ ~upset
  BY DEF CloneHandle, Call
<1>3. /\ sft \in [Sfts -> [count : Nat, shroff : Slots \cup {-1}, file : Files \cup {None}]]
      /\ refs \in [Procs -> [Sfts -> Nat]]
  BY DEF Inv, SftInv
<1> DEFINE c == refs[q][i] + 1
           d == sft[i].count + 1
<1>4. c \in Nat /\ d \in Nat /\ d > 0
  BY <1>3
<1>5. refs' = [refs EXCEPT ![q][i] = c] /\ sft' = [sft EXCEPT ![i].count = d]
  BY <1>1, Zenon
<1> HIDE DEF c, d
<1>6. refs' \in [Procs -> [Sfts -> Nat]]
  BY <1>3, <1>4, <1>5, RefsAdd
<1>7. /\ sft' \in [Sfts -> [count : Nat, shroff : Slots \cup {-1}, file : Files \cup {None}]]
      /\ \A j \in Sfts : /\ sft'[j].shroff = sft[j].shroff /\ sft'[j].file = sft[j].file
                         /\ sft[j].count > 0 => sft'[j].count > 0
  BY <1>3, <1>4, <1>5
<1>8. FilesInv' /\ LocksInv'
  BY <1>2, SameTables DEF Inv, share
<1>9. SftInv'
  <2>1. Matched'
    BY <1>2, <1>7 DEF Inv, SftInv, Matched, share, Used
  <2>2. enable' = enable /\ upset' = upset /\ enable \in BOOLEAN /\ upset \in BOOLEAN
    BY <1>2, Zenon DEF Inv, SftInv, share
  <2>3. \A j \in Sfts : sft'[j].shroff >= 0 => sft'[j].count > 0 /\ enable
    BY <1>7 DEF Inv, SftInv
  <2>4. \A j \in Sfts : sft'[j].shroff >= 0 => sft'[j].count > 0 /\ enable'
    BY <2>2, <2>3, Zenon
  <2> QED
    BY <1>6, <1>7, <2>1, <2>2, <2>4, Zenon DEF SftInv
<1> QED
  BY <1>8, <1>9 DEF Inv

LEMMA ReturnKeeps ==
  ASSUME Inv, NEW p \in Procs, return_user(p)
  PROVE  Inv'
<1>1. PICK bad : DosCloseSft(Closes(p, bad))
  BY DEF return_user
<1>2. ~upset /\ upset' \in BOOLEAN
  BY Zenon DEF return_user, Inv, SftInv
<1>3. \A i \in Sfts : refs[p][i] \in Nat /\ sft[i].count \in Nat
  BY DEF Inv, SftInv
<1>4. ASSUME NEW i \in Sfts
      PROVE  Closes(p, bad)[i] \in Nat /\ Closes(p, bad)[i] =< sft[i].count
  <2>1. Closes(p, bad)[i] = IF i \in bad THEN 0 ELSE Min({refs[p][i], sft[i].count})
    BY DEF Closes
  <2>2. \A a \in Nat, c \in Nat : Min({a, c}) \in Nat /\ Min({a, c}) =< c
    BY LeastOfTwo
  <2> QED
    BY <1>3, <2>1, <2>2
<1>5. Closes(p, bad) \in [Sfts -> Nat]
  BY <1>4 DEF Closes
<1>6. refs' \in [Procs -> [Sfts -> Nat]]
  BY DEF return_user, None0, Inv, SftInv
<1> QED
  BY <1>1, <1>2, <1>4, <1>5, <1>6, CloseKeeps

LEMMA SetFattrKeeps ==
  ASSUME Inv, NEW p \in Procs, DosSetFattr(p)
  PROVE  Inv'
<1>1. PICK f \in dir :
        \E closed \in SUBSET {i \in Sfts : sft[i].count > 0 /\ sft[i].file = f} :
          /\ DosCloseSft(OnceEach(closed))
          /\ upset' = (closed # {})
  BY DEF DosSetFattr
<1>2. PICK closed \in SUBSET {i \in Sfts : sft[i].count > 0 /\ sft[i].file = f} :
        DosCloseSft(OnceEach(closed)) /\ upset' = (closed # {})
  BY <1>1
<1>3. upset' \in BOOLEAN
  BY <1>2
<1>4. ~upset /\ refs' = refs
  BY DEF DosSetFattr, Call
<1>5. OnceEach(closed) \in [Sfts -> Nat] /\ \A j \in Sfts : OnceEach(closed)[j] =< sft[j].count
  BY <1>2 DEF OnceEach, Inv, SftInv
<1> QED
  BY <1>2, <1>3, <1>4, <1>5, CloseKeeps DEF Inv, SftInv

-----------------------------------------------------------------------------
(* Counting free entries.                                                  *)

FreeLocks == {l \in LockSlots : lock_table[l].used = 0}

LEMMA MoreFree ==
  ASSUME NEW A, NEW B, NEW S, IsFiniteSet(B), S \subseteq B, B \ S = A
  PROVE  /\ Cardinality(B) = Cardinality(A) + Cardinality(S)
         /\ Cardinality(A) \in Nat /\ Cardinality(S) \in Nat
<1>1. B \cap S = S
  OBVIOUS
<1>2. /\ Cardinality(B) = Cardinality(B \cap S) + Cardinality(B \ S)
      /\ Cardinality(B \cap S) \in Nat /\ Cardinality(B \ S) \in Nat
  BY SplitCount
<1>3. /\ Cardinality(B) = Cardinality(S) + Cardinality(A)
      /\ Cardinality(S) \in Nat /\ Cardinality(A) \in Nat
  BY <1>1, <1>2, Zenon
<1> QED
  BY <1>3

LEMMA TablesFinite ==
  /\ IsFiniteSet(Slots) /\ Cardinality(Slots) = FileTableSize
  /\ IsFiniteSet(LockSlots) /\ Cardinality(LockSlots) = LockTableSize
<1>1. FileTableSize \in Nat /\ LockTableSize \in Nat
  BY ShareAssumption DEF ShareAssumption
<1> QED
  BY <1>1, FS_Interval DEF Slots, LockSlots

LEMMA FreeFinite ==
  /\ IsFiniteSet(FreeSlots) /\ Cardinality(FreeSlots) \in 0..FileTableSize
  /\ IsFiniteSet(FreeLocks) /\ Cardinality(FreeLocks) \in 0..LockTableSize
<1>1. /\ IsFiniteSet(FreeSlots) /\ Cardinality(FreeSlots) =< FileTableSize
      /\ IsFiniteSet(FreeLocks) /\ Cardinality(FreeLocks) =< LockTableSize
  BY TablesFinite, FS_Subset DEF FreeSlots, FreeLocks
<1> QED
  BY <1>1, FS_CardinalityType, ShareAssumption DEF ShareAssumption

LEMMA FreeFiniteNext == IsFiniteSet(FreeSlots') /\ IsFiniteSet(FreeLocks')
  BY TablesFinite, FS_Subset DEF FreeSlots, FreeLocks

\* One entry less, and a set of entries more.
LEMMA OneLess ==
  ASSUME NEW A, NEW B, NEW k, IsFiniteSet(B), k \in B, A = B \ {k}
  PROVE  Cardinality(A) = Cardinality(B) - 1 /\ Cardinality(B) \in Nat
<1>1. Cardinality({k}) = 1
  BY FS_Singleton
<1>2. Cardinality(B) = Cardinality(A) + Cardinality({k}) /\ Cardinality(A) \in Nat
  BY MoreFree
<1> QED
  BY <1>1, <1>2

FreeInv == file_table_free = Cardinality(FreeSlots) /\ lock_table_free = Cardinality(FreeLocks)

LEMMA FreeInvInit == Init => FreeInv
<1> SUFFICES ASSUME Init PROVE FreeInv
  OBVIOUS
<1>1. FreeSlots = Slots /\ FreeLocks = LockSlots
  BY DEF Init, NoOpen, NoLock, FreeSlots, FreeLocks, Used
<1> QED
  BY <1>1, TablesFinite DEF Init, FreeInv

LEMMA FreeSame ==
  ASSUME FreeInv, UNCHANGED <<file_table, lock_table, file_table_free, lock_table_free>>
  PROVE  FreeInv'
  BY DEF FreeInv, FreeSlots, FreeLocks, Used

\* The entries close_file clears are in use, each once.
LEMMA FreeClose ==
  ASSUME Inv, FreeInv, ~upset, NEW n, DosCloseSft(n)
  PROVE  FreeInv'
<1> DEFINE S == {sft[i].shroff : i \in {j \in Last(n) : IsShareInstalled /\ sft[j].shroff >= 0}}
           G == {l \in LockSlots : lock_table[l].used = 1 /\ lock_table[l].fileno \in S}
<1>1. /\ lock_table' = [l \in LockSlots |-> IF l \in G THEN NoLock ELSE lock_table[l]]
      /\ lock_table_free' = lock_table_free + Cardinality(G)
      /\ file_table' = [k \in Slots |-> IF k \in S THEN NoOpen ELSE file_table[k]]
      /\ file_table_free' = file_table_free + Cardinality(S)
  BY DEF DosCloseSft, close_files, Unlocked
<1>2. S \subseteq Slots /\ \A k \in S : Used(k)
  BY DEF Inv, SftInv, Matched, Last
<1> HIDE DEF S
<1>3. S \subseteq FreeSlots' /\ FreeSlots' \ S = FreeSlots
  BY <1>1, <1>2 DEF FreeSlots, Used, NoOpen
<1>4. G \subseteq FreeLocks' /\ FreeLocks' \ G = FreeLocks
  BY <1>1 DEF FreeLocks, NoLock
<1> HIDE DEF G
<1>5. /\ Cardinality(FreeSlots') = Cardinality(FreeSlots) + Cardinality(S)
      /\ Cardinality(FreeLocks') = Cardinality(FreeLocks) + Cardinality(G)
  BY <1>3, <1>4, FreeFiniteNext, MoreFree
<1> QED
  BY <1>1, <1>5 DEF FreeInv

LEMMA FreeOpen ==
  ASSUME Inv, FreeInv, NEW p \in Procs, DosOpen(p)
  PROVE  FreeInv'
<1>1. PICK f \in Files, m \in Modes :
       LET k == IF IsShareInstalled THEN open_check ELSE -1
           first == FirstModes(f, m[1], Sharing(m[2])) IN
       /\ IsShareInstalled => ~Refused(f, m[1], Sharing(m[2]))
       /\ file_table' = IF k = -1 THEN file_table
            ELSE [file_table EXCEPT ![k] =
                   [filename |-> f, openmode |-> m[1], sharemode |-> Sharing(m[2]),
                    first_openmode |-> first[2], first_sharemode |-> first[1]]]
       /\ file_table_free' = IF k = -1 THEN file_table_free ELSE file_table_free - 1
  BY DEF DosOpen
<1>2. UNCHANGED <<lock_table, lock_table_free>> /\ f # None
  BY ShareAssumption DEF DosOpen, ShareAssumption
<1>3. CASE ~IsShareInstalled
  BY <1>1, <1>2, <1>3, FreeSame
<1>4. CASE IsShareInstalled
  <2> DEFINE k == open_check
  <2>1. k \in FreeSlots /\ k # -1
    BY <1>1, <1>4, MinIn, ShareAssumption DEF Refused, FreeSlots, open_check, Slots, ShareAssumption
  <2> DEFINE new == [filename |-> f, openmode |-> m[1], sharemode |-> Sharing(m[2]),
                     first_openmode |-> FirstModes(f, m[1], Sharing(m[2]))[2],
                     first_sharemode |-> FirstModes(f, m[1], Sharing(m[2]))[1]]
  <2>2. file_table' = [file_table EXCEPT ![k] = new]
    BY <1>1, <1>4, <2>1
  <2>7. new.filename = f
    OBVIOUS
  <2>3. file_table_free' = file_table_free - 1
    BY <1>1, <1>4, <2>1
  <2> HIDE DEF k, new
  <2>4. FreeSlots' = FreeSlots \ {k}
    BY <1>2, <2>1, <2>2, <2>7 DEF FreeSlots, Used, Inv, FilesInv
  <2>5. Cardinality(FreeSlots') = Cardinality(FreeSlots) - 1
    BY <2>1, <2>4, FreeFinite, OneLess
  <2>6. FreeLocks' = FreeLocks
    BY <1>2 DEF FreeLocks
  <2> QED
    BY <1>2, <2>3, <2>5, <2>6 DEF FreeInv
<1> QED
  BY <1>3, <1>4

LEMMA FreeRefused ==
  ASSUME Inv, FreeInv, NEW p \in Procs, DosRWSft(p)
  PROVE  FreeInv'
<1>1. PICK i \in Sfts : /\ sft[i].shroff >= 0
                        /\ file_table' = [file_table EXCEPT ![sft[i].shroff] = NoOpen]
  BY DEF DosRWSft
<1> DEFINE k == sft[i].shroff
<1>2. ~upset /\ file_table_free' = file_table_free + 1 /\ UNCHANGED <<lock_table, lock_table_free>>
  BY DEF DosRWSft, Call
<1>3. k \in Slots /\ Used(k) /\ file_table' = [file_table EXCEPT ![k] = NoOpen]
  BY <1>1, <1>2 DEF Inv, SftInv, Matched
<1> HIDE DEF k
<1>4. k \in FreeSlots' /\ FreeSlots = FreeSlots' \ {k}
  BY <1>3 DEF FreeSlots, Used, NoOpen, Inv, FilesInv
<1>5. Cardinality(FreeSlots) = Cardinality(FreeSlots') - 1 /\ Cardinality(FreeSlots') \in Nat
  BY <1>4, FreeFiniteNext, OneLess
<1>6. FreeLocks' = FreeLocks
  BY <1>2 DEF FreeLocks
<1> QED
  BY <1>2, <1>5, <1>6 DEF FreeInv

LEMMA FreeLock ==
  ASSUME Inv, FreeInv, NEW p \in Procs, Lock(p)
  PROVE  FreeInv'
<1> DEFINE n == Min(FreeLocks)
<1>1. PICK e : lock_table' = [lock_table EXCEPT ![n] = e] /\ e.used = 1
  BY DEF Lock, FreeLocks
<1>2. /\ lock_table_free' = lock_table_free - 1 /\ UNCHANGED <<file_table, file_table_free>>
      /\ FreeLocks # {}
  BY DEF Lock, FreeLocks
<1>3. n \in FreeLocks
  <2>1. FreeLocks \subseteq Nat
    BY ShareAssumption DEF FreeLocks, LockSlots, ShareAssumption
  <2> QED
    BY <1>2, <2>1, MinIn
<1> HIDE DEF n
<1>4. FreeLocks' = FreeLocks \ {n}
  BY <1>1, <1>3 DEF FreeLocks, Inv, LocksInv
<1>5. Cardinality(FreeLocks') = Cardinality(FreeLocks) - 1
  BY <1>3, <1>4, FreeFinite, OneLess
<1>6. FreeSlots' = FreeSlots
  BY <1>2 DEF FreeSlots, Used
<1> QED
  BY <1>2, <1>5, <1>6 DEF FreeInv

LEMMA FreeUnlock ==
  ASSUME Inv, FreeInv, NEW p \in Procs, Unlock(p)
  PROVE  FreeInv'
<1>1. PICK i \in Sfts, r \in Regions :
       LET mine == {l \in LockSlots :
                      /\ lock_table[l].used = 1 /\ lock_table[l].psp = p
                      /\ lock_table[l].fileno = sft[i].shroff
                      /\ lock_table[l].start = r[1] /\ lock_table[l].end = End(r)} IN
       mine # {} /\ lock_table' = [lock_table EXCEPT ![Min(mine)] = NoLock]
  BY DEF Unlock
<1> DEFINE mine == {l \in LockSlots :
                      /\ lock_table[l].used = 1 /\ lock_table[l].psp = p
                      /\ lock_table[l].fileno = sft[i].shroff
                      /\ lock_table[l].start = r[1] /\ lock_table[l].end = End(r)}
           n == Min(mine)
<1>2. lock_table_free' = lock_table_free + 1 /\ UNCHANGED <<file_table, file_table_free>>
  BY DEF Unlock
<1>3. n \in LockSlots /\ lock_table[n].used = 1 /\ lock_table' = [lock_table EXCEPT ![n] = NoLock]
  <2>1. mine \subseteq Nat /\ mine # {}
    BY <1>1, ShareAssumption DEF LockSlots, ShareAssumption
  <2>2. n \in mine
    BY <2>1, MinIn
  <2> QED
    BY <1>1, <2>2
<1> HIDE DEF n, mine
<1>4. n \in FreeLocks' /\ FreeLocks = FreeLocks' \ {n}
  BY <1>3 DEF FreeLocks, NoLock, Inv, LocksInv
<1>5. Cardinality(FreeLocks) = Cardinality(FreeLocks') - 1 /\ Cardinality(FreeLocks') \in Nat
  BY <1>4, FreeFiniteNext, OneLess
<1>6. FreeSlots' = FreeSlots
  BY <1>2 DEF FreeSlots, Used
<1> QED
  BY <1>2, <1>5, <1>6 DEF FreeInv

LEMMA FreeCleared ==
  ASSUME Cleared
  PROVE  FreeInv'
<1>1. FreeSlots' = Slots /\ FreeLocks' = LockSlots
  BY DEF Cleared, NoOpen, NoLock, FreeSlots, FreeLocks, Used
<1> QED
  BY <1>1, TablesFinite DEF Cleared, FreeInv

LEMMA FreeStep == Inv /\ FreeInv /\ [Next]_vars => FreeInv'
<1> SUFFICES ASSUME Inv, FreeInv, [Next]_vars PROVE FreeInv'
  OBVIOUS
<1>1. ASSUME UNCHANGED share
      PROVE  FreeInv'
  BY <1>1, FreeSame DEF share
<1>2. CASE UNCHANGED vars
  BY <1>1, <1>2 DEF vars
<1>3. ASSUME NEW p \in Procs, DosClose(p) \/ return_user(p) \/ DosSetFattr(p)
      PROVE  FreeInv'
  <2>1. ~upset /\ (UNCHANGED share \/ \E n : DosCloseSft(n))
    BY <1>3 DEF DosClose, return_user, DosSetFattr, Call
  <2> QED
    BY <1>1, <2>1, FreeClose
<1>4. ASSUME NEW p \in Procs, DosOpen(p) \/ DosRWSft(p) \/ Lock(p) \/ Unlock(p)
      PROVE  FreeInv'
  BY <1>4, FreeOpen, FreeRefused, FreeLock, FreeUnlock
<1>5. ASSUME NEW p \in Procs, CloneHandle(p)
      PROVE  FreeInv'
  BY <1>1, <1>5 DEF CloneHandle
<1>6. ASSUME NEW f \in Files, DosDelete(f) \/ DosRename(f)
      PROVE  FreeInv'
  BY <1>1, <1>6 DEF DosDelete, DosRename
<1>7. CASE asm_disable \/ asm_enable
  BY <1>7, FreeCleared DEF asm_disable, asm_enable
<1> QED
  BY <1>2, <1>3, <1>4, <1>5, <1>6, <1>7 DEF Next

-----------------------------------------------------------------------------
(* Handles and the references they count as.                               *)

RefCounts == [Procs -> [Sfts -> Nat]]

\* The handles to entry i, each a process and a number.
Held(r, i) == {h \in Procs \X Nat : 1 =< h[2] /\ h[2] =< r[h[1]][i]}

\* When the handles of one process change, so does the number of all.
LEMMA HeldChange ==
  ASSUME NEW r \in RefCounts, NEW r2 \in RefCounts, NEW p \in Procs, NEW i \in Sfts,
         \A q \in Procs \ {p} : r2[q][i] = r[q][i], IsFiniteSet(Held(r, i))
  PROVE  /\ IsFiniteSet(Held(r2, i))
         /\ Cardinality(Held(r, i)) \in Nat /\ Cardinality(Held(r2, i)) \in Nat
         /\ Cardinality(Held(r2, i)) - r2[p][i] = Cardinality(Held(r, i)) - r[p][i]
<1> DEFINE a == r[p][i]
           b == r2[p][i]
           rest == {h \in Held(r, i) : h[1] # p}
<1>1. a \in Nat /\ b \in Nat
  BY DEF RefCounts
<1>2. ASSUME NEW c \in Nat
      PROVE  IsFiniteSet({p} \X (1..c)) /\ Cardinality({p} \X (1..c)) = c
  <2>1. IsFiniteSet(1..c) /\ Cardinality(1..c) = c
    BY <1>2, FS_Interval
  <2> QED
    BY <2>1, PairCount, Zenon
<1>3. Held(r, i) = rest \cup ({p} \X (1..a))
  BY DEF Held
<1>4. Held(r2, i) = rest \cup ({p} \X (1..b))
  BY DEF Held, RefCounts
<1>5. IsFiniteSet(rest) /\ Cardinality(rest) \in Nat
  BY FS_Subset, FS_CardinalityType
<1>6. \A c \in Nat : rest \cap ({p} \X (1..c)) = {}
  OBVIOUS
<1> HIDE DEF rest
<1>7. ASSUME NEW c \in Nat
      PROVE  /\ IsFiniteSet(rest \cup ({p} \X (1..c)))
             /\ Cardinality(rest \cup ({p} \X (1..c))) = Cardinality(rest) + c
  <2> DEFINE C == {p} \X (1..c)
  <2>1. IsFiniteSet(C) /\ Cardinality(C) = c /\ rest \cap C = {}
    BY <1>2, <1>6
  <2> HIDE DEF C
  <2>2. /\ IsFiniteSet(rest \cup C)
        /\ Cardinality(rest \cup C) = Cardinality(rest) + Cardinality(C) - Cardinality(rest \cap C)
    BY <2>1, <1>5, FS_Union
  <2>3. Cardinality(rest \cap C) = 0
    BY <2>1, FS_EmptySet, Zenon
  <2>4. Cardinality(rest \cup C) = Cardinality(rest) + c
    BY <2>1, <2>2, <2>3, <1>5, <1>7
  <2> QED
    BY <2>2, <2>4 DEF C
<1>8. /\ IsFiniteSet(Held(r, i)) /\ Cardinality(Held(r, i)) = Cardinality(rest) + a
      /\ IsFiniteSet(Held(r2, i)) /\ Cardinality(Held(r2, i)) = Cardinality(rest) + b
  BY <1>1, <1>3, <1>4, <1>7, Zenon
<1> DEFINE x == Cardinality(Held(r, i))
           y == Cardinality(Held(r2, i))
           z == Cardinality(rest)
<1>9. x = z + a /\ y = z + b /\ z \in Nat
  BY <1>5, <1>8
<1> HIDE DEF a, b, x, y, z
<1>10. x \in Nat /\ y \in Nat /\ y - b = x - a
  BY <1>1, <1>9
<1> QED
  BY <1>8, <1>10 DEF a, b, x, y

\* Entries have at least the handles there are of them, and a file with
\* handles opened under SHARE is there.
Covered(r, i, c) == IsFiniteSet(Held(r, i)) /\ Cardinality(Held(r, i)) =< c
OpenInv ==
  ~upset => /\ \A i \in Sfts : Covered(refs, i, sft[i].count)
            /\ \A p \in Procs, i \in Sfts :
                 refs[p][i] > 0 /\ sft[i].shroff >= 0 => sft[i].file \in dir

\* An entry that is free has no handles.
LEMMA NoHandles ==
  ASSUME NEW r \in RefCounts, NEW i \in Sfts, Covered(r, i, 0), NEW p \in Procs
  PROVE  r[p][i] = 0
<1>1. Held(r, i) = {}
  <2>1. Cardinality(Held(r, i)) \in Nat /\ Cardinality(Held(r, i)) =< 0 /\ IsFiniteSet(Held(r, i))
    BY FS_CardinalityType DEF Covered
  <2> QED
    BY <2>1, NoneCounted
<1>2. r[p][i] \in Nat
  BY DEF RefCounts
<1>3. r[p][i] >= 1 => <<p, 1>> \in Held(r, i)
  BY DEF Held
<1> QED
  BY <1>1, <1>2, <1>3

LEMMA CoverChange ==
  ASSUME NEW r \in RefCounts, NEW r2 \in RefCounts, NEW p \in Procs, NEW i \in Sfts,
         \A q \in Procs \ {p} : r2[q][i] = r[q][i],
         NEW c \in Nat, NEW c2 \in Nat, c - r[p][i] =< c2 - r2[p][i], Covered(r, i, c)
  PROVE  Covered(r2, i, c2)
<1> DEFINE a == r[p][i]
           b == r2[p][i]
           x == Cardinality(Held(r, i))
           y == Cardinality(Held(r2, i))
<1>1. IsFiniteSet(Held(r, i)) /\ x =< c
  BY DEF Covered
<1>2. IsFiniteSet(Held(r2, i)) /\ x \in Nat /\ y \in Nat /\ y - b = x - a
  BY <1>1, HeldChange
<1>5. a \in Nat /\ b \in Nat
  BY DEF RefCounts
<1>3. c - a =< c2 - b
  OBVIOUS
<1> HIDE DEF a, b, x, y
<1>4. y =< c2
  BY <1>1, <1>2, <1>3, <1>5
<1> QED
  BY <1>2, <1>4 DEF Covered, y

\* The calls that change the handles of one process and no file: what an
\* entry loses, so do the handles.
LEMMA KeepsOpen ==
  ASSUME Inv, OpenInv, ~upset, NEW p \in Procs, refs' \in RefCounts, dir' = dir,
         \A q \in Procs \ {p}, i \in Sfts : refs'[q][i] = refs[q][i],
         \A i \in Sfts :
           /\ sft'[i].count \in Nat
           /\ sft[i].count - refs[p][i] =< sft'[i].count - refs'[p][i]
           /\ refs'[p][i] > 0 => \E q \in Procs : refs[q][i] > 0
           /\ sft'[i].shroff >= 0 => sft[i].shroff >= 0 /\ sft'[i].file = sft[i].file
  PROVE  OpenInv'
<1>1. refs \in RefCounts /\ \A i \in Sfts : sft[i].count \in Nat
  BY DEF Inv, SftInv, RefCounts
<1>2. ASSUME NEW i \in Sfts
      PROVE  Covered(refs', i, sft'[i].count)
  <2> DEFINE r == refs
             r2 == refs'
             c == sft[i].count
             c2 == sft'[i].count
  <2>1. /\ r \in RefCounts /\ r2 \in RefCounts /\ c \in Nat /\ c2 \in Nat
        /\ \A q \in Procs \ {p} : r2[q][i] = r[q][i]
        /\ c - r[p][i] =< c2 - r2[p][i]
    BY <1>1
  <2>2. Covered(r, i, c)
    BY DEF OpenInv
  <2> HIDE DEF r, r2, c, c2
  <2>3. Covered(r2, i, c2)
    BY <2>1, <2>2, CoverChange
  <2> QED
    BY <2>3 DEF r2, c2
<1>3. ASSUME NEW q \in Procs, NEW i \in Sfts, refs'[q][i] > 0, sft'[i].shroff >= 0
      PROVE  sft'[i].file \in dir'
  <2>1. \E h \in Procs : refs[h][i] > 0
    <3>1. CASE q = p
      BY <1>3, <3>1
    <3>2. CASE q # p
      BY <1>3, <3>2
    <3> QED
      BY <3>1, <3>2
  <2>2. sft[i].shroff >= 0 /\ sft'[i].file = sft[i].file
    BY <1>3
  <2> QED
    BY <2>1, <2>2 DEF OpenInv
<1> QED
  BY <1>2, <1>3 DEF OpenInv

\* The calls that leave the handles alone.
LEMMA HandlesStay ==
  ASSUME Inv, OpenInv, ~upset, UNCHANGED <<refs, dir>>,
         \A i \in Sfts :
           /\ sft'[i].count = sft[i].count
           /\ sft'[i].shroff >= 0 => sft[i].shroff >= 0 /\ sft'[i].file = sft[i].file
  PROVE  OpenInv'
  BY DEF OpenInv

\* DosCloseSft takes as many references from each entry as it closes.
LEMMA CloseSft ==
  ASSUME Inv, NEW n \in [Sfts -> Nat], \A i \in Sfts : n[i] =< sft[i].count, DosCloseSft(n)
  PROVE  \A i \in Sfts :
           /\ sft'[i].count \in Nat /\ sft'[i].count = sft[i].count - n[i]
           /\ sft'[i].shroff >= 0 => sft[i].shroff >= 0 /\ sft'[i].file = sft[i].file
<1> SUFFICES ASSUME NEW i \in Sfts
             PROVE  /\ sft'[i].count \in Nat /\ sft'[i].count = sft[i].count - n[i]
                    /\ sft'[i].shroff >= 0 => sft[i].shroff >= 0 /\ sft'[i].file = sft[i].file
  OBVIOUS
<1> DEFINE c == sft[i].count
           d == c - n[i]
<1>1. sft'[i] = IF c = n[i] THEN NoSft ELSE [sft[i] EXCEPT !.count = d]
  BY Zenon DEF DosCloseSft
<1>2. /\ c \in Nat /\ n[i] \in Nat /\ n[i] =< c
      /\ sft[i] \in [count : Nat, shroff : Slots \cup {-1}, file : Files \cup {None}]
  BY DEF Inv, SftInv
<1>3. d \in Nat /\ (c = n[i] => d = 0)
  BY <1>2
<1> HIDE DEF d
<1>4. CASE c = n[i]
  BY <1>1, <1>3, <1>4 DEF NoSft, d
<1>5. CASE c # n[i]
  <2>1. sft'[i] = [sft[i] EXCEPT !.count = d]
    BY <1>1, <1>5
  <2>2. sft'[i].count = d /\ sft'[i].shroff = sft[i].shroff /\ sft'[i].file = sft[i].file
    BY <1>2, <2>1
  <2> QED
    BY <1>3, <2>2 DEF d
<1> QED
  BY <1>4, <1>5

LEMMA OpenOfClose ==
  ASSUME Inv, OpenInv, NEW p \in Procs, DosClose(p)
  PROVE  OpenInv'
<1>1. PICK i \in Sfts, out \in Outcomes :
        /\ IsOpen(p, i)
        /\ refs' = [refs EXCEPT ![p][i] = @ - 1]
        /\ IF out = "ok" THEN DosCloseSft(OnceEach({i})) ELSE UNCHANGED <<share, share_installed, sft>>
  BY DEF DosClose
<1>2. ~upset /\ dir' = dir
  BY DEF DosClose, Call
<1>3. /\ refs \in RefCounts /\ refs[p][i] \in Nat /\ refs[p][i] > 0 /\ sft[i].count > 0
      /\ \A j \in Sfts : sft[j].count \in Nat
  BY <1>1 DEF IsOpen, Inv, SftInv, RefCounts
<1> DEFINE c == refs[p][i] - 1
<1>4. c \in Nat
  BY <1>3
<1>5. refs' = [refs EXCEPT ![p][i] = c]
  BY <1>1, Zenon
<1> HIDE DEF c
<1>6. /\ refs' \in RefCounts
      /\ \A q \in Procs, j \in Sfts : refs'[q][j] = IF q = p /\ j = i THEN c ELSE refs[q][j]
  <2>1. refs' \in RefCounts
    BY <1>3, <1>4, <1>5, RefsAdd DEF RefCounts
  <2> QED
    BY <1>3, <1>5, <2>1 DEF RefCounts
<1>7. \A j \in Sfts :
        /\ sft'[j].count \in Nat
        /\ sft'[j].count = sft[j].count \/ (j = i /\ sft'[j].count = sft[j].count - 1)
        /\ sft'[j].shroff >= 0 => sft[j].shroff >= 0 /\ sft'[j].file = sft[j].file
  <2>1. CASE out = "ok"
    <3> DEFINE n == OnceEach({i})
    <3>1. n \in [Sfts -> Nat] /\ \A j \in Sfts : n[j] =< sft[j].count /\ n[j] = IF j = i THEN 1 ELSE 0
      BY <1>3 DEF OnceEach
    <3>2. DosCloseSft(n)
      BY <1>1, <2>1
    <3> HIDE DEF n
    <3>3. \A j \in Sfts :
            /\ sft'[j].count \in Nat /\ sft'[j].count = sft[j].count - n[j]
            /\ sft'[j].shroff >= 0 => sft[j].shroff >= 0 /\ sft'[j].file = sft[j].file
      BY <3>1, <3>2, CloseSft
    <3>4. ASSUME NEW j \in Sfts
          PROVE  sft'[j].count = sft[j].count \/ (j = i /\ sft'[j].count = sft[j].count - 1)
      <4>1. sft[j].count \in Nat /\ sft'[j].count = sft[j].count - n[j] /\ n[j] = IF j = i THEN 1 ELSE 0
        BY <1>3, <3>1, <3>3
      <4> QED
        BY <4>1
    <3> QED
      BY <3>3, <3>4, Zenon
  <2>2. CASE out # "ok"
    <3>1. sft' = sft /\ \A j \in Sfts : sft[j].count \in Nat
      BY <1>1, <1>3, <2>2
    <3> QED
      BY <3>1, Zenon
  <2> QED
    BY <2>1, <2>2
<1>8. ASSUME NEW j \in Sfts
      PROVE  /\ sft[j].count - refs[p][j] =< sft'[j].count - refs'[p][j]
             /\ refs'[p][j] > 0 => \E q \in Procs : refs[q][j] > 0
  <2>1. refs[p][j] \in Nat /\ sft[j].count \in Nat /\ sft'[j].count \in Nat
    BY <1>3, <1>7 DEF RefCounts
  <2>2. CASE j = i
    BY <2>1, <2>2, <1>3, <1>6, <1>7 DEF c
  <2>3. CASE j # i
    BY <2>1, <2>3, <1>6, <1>7
  <2> QED
    BY <2>2, <2>3
<1> QED
  BY <1>2, <1>6, <1>7, <1>8, KeepsOpen

\* A process that ends gives up all its handles, and no entry loses more
\* references than it had handles.
LEMMA OpenOfReturn ==
  ASSUME Inv, OpenInv, NEW p \in Procs, return_user(p)
  PROVE  OpenInv'
<1>1. PICK bad : DosCloseSft(Closes(p, bad))
  BY DEF return_user
<1>2. ~upset /\ dir' = dir /\ refs' = [refs EXCEPT ![p] = None0]
  BY DEF return_user
<1>3. refs \in RefCounts /\ \A i \in Sfts : refs[p][i] \in Nat /\ sft[i].count \in Nat
  BY DEF Inv, SftInv, RefCounts
<1>4. /\ refs' \in RefCounts /\ \A i \in Sfts : refs'[p][i] = 0
      /\ \A q \in Procs \ {p}, i \in Sfts : refs'[q][i] = refs[q][i]
  BY <1>2, <1>3 DEF RefCounts, None0
<1> DEFINE n == Closes(p, bad)
<1>5. ASSUME NEW i \in Sfts
      PROVE  n[i] \in Nat /\ n[i] =< sft[i].count /\ n[i] =< refs[p][i]
  <2>1. n[i] = IF i \in bad THEN 0 ELSE Min({refs[p][i], sft[i].count})
    BY DEF Closes
  <2>2. \A a \in Nat, c \in Nat : Min({a, c}) \in Nat /\ Min({a, c}) =< c /\ Min({a, c}) =< a
    BY LeastOfTwo
  <2> QED
    BY <1>3, <2>1, <2>2
<1>6. n \in [Sfts -> Nat]
  BY <1>5 DEF Closes
<1> HIDE DEF n
<1>7. \A i \in Sfts :
        /\ sft'[i].count \in Nat /\ sft'[i].count = sft[i].count - n[i]
        /\ sft'[i].shroff >= 0 => sft[i].shroff >= 0 /\ sft'[i].file = sft[i].file
  <2>1. DosCloseSft(n) /\ \A i \in Sfts : n[i] =< sft[i].count
    BY <1>1, <1>5 DEF n
  <2> QED
    BY <1>6, <2>1, CloseSft
<1>8. \A i \in Sfts : sft[i].count - refs[p][i] =< sft'[i].count - refs'[p][i]
  BY <1>3, <1>4, <1>5, <1>7
<1>9. \A i \in Sfts : ~(refs'[p][i] > 0)
  BY <1>4
<1> QED
  BY <1>2, <1>4, <1>7, <1>8, <1>9, KeepsOpen

LEMMA OpenOfClone ==
  ASSUME Inv, OpenInv, NEW p \in Procs, CloneHandle(p)
  PROVE  OpenInv'
<1>1. PICK i \in Sfts, q \in Procs :
        /\ IsOpen(p, i)
        /\ refs' = [refs EXCEPT ![q][i] = @ + 1]
        /\ sft' = [sft EXCEPT ![i].count = @ + 1]
  BY DEF CloneHandle
<1>2. ~upset /\ dir' = dir
  BY DEF CloneHandle, Call
<1>3. /\ sft \in [Sfts -> [count : Nat, shroff : Slots \cup {-1}, file : Files \cup {None}]]
      /\ refs \in RefCounts /\ refs[q][i] \in Nat /\ sft[i].count \in Nat
      /\ refs[p][i] > 0
  BY <1>1 DEF Inv, SftInv, RefCounts, IsOpen
<1> DEFINE c == refs[q][i] + 1
           d == sft[i].count + 1
<1>4. c \in Nat /\ d \in Nat /\ sft[i].count - refs[q][i] =< d - c
  BY <1>3
<1>5. refs' = [refs EXCEPT ![q][i] = c] /\ sft' = [sft EXCEPT ![i].count = d]
  BY <1>1, Zenon
<1> HIDE DEF c, d
<1>6. /\ refs' \in RefCounts
      /\ \A r \in Procs, j \in Sfts : refs'[r][j] = IF r = q /\ j = i THEN c ELSE refs[r][j]
  <2>1. refs' \in RefCounts
    BY <1>3, <1>4, <1>5, RefsAdd DEF RefCounts
  <2> QED
    BY <1>3, <1>5, <2>1 DEF RefCounts
<1>7. \A j \in Sfts : /\ sft'[j].count = IF j = i THEN d ELSE sft[j].count
                      /\ sft'[j].shroff = sft[j].shroff /\ sft'[j].file = sft[j].file
                      /\ sft[j].count \in Nat
  BY <1>3, <1>5
<1>8. ASSUME NEW j \in Sfts
      PROVE  /\ sft'[j].count \in Nat
             /\ sft[j].count - refs[q][j] =< sft'[j].count - refs'[q][j]
             /\ refs'[q][j] > 0 => \E r \in Procs : refs[r][j] > 0
             /\ sft'[j].shroff >= 0 => sft[j].shroff >= 0 /\ sft'[j].file = sft[j].file
  <2>1. CASE j = i
    BY <2>1, <1>3, <1>4, <1>6, <1>7
  <2>2. CASE j # i
    <3>1. refs[q][j] \in Nat /\ refs'[q][j] = refs[q][j] /\ sft'[j].count = sft[j].count
      BY <2>2, <1>3, <1>6, <1>7 DEF RefCounts
    <3> QED
      BY <3>1, <1>7
  <2> QED
    BY <2>1, <2>2
<1> QED
  BY <1>2, <1>6, <1>8, KeepsOpen

LEMMA OpenOfSetFattr ==
  ASSUME Inv, OpenInv, NEW p \in Procs, DosSetFattr(p)
  PROVE  OpenInv'
<1>1. PICK f \in dir :
        \E closed \in SUBSET {i \in Sfts : sft[i].count > 0 /\ sft[i].file = f} :
          /\ DosCloseSft(OnceEach(closed))
          /\ upset' = (closed # {})
  BY DEF DosSetFattr
<1>2. PICK closed \in SUBSET {i \in Sfts : sft[i].count > 0 /\ sft[i].file = f} :
        DosCloseSft(OnceEach(closed)) /\ upset' = (closed # {})
  BY <1>1
<1>3. ~upset /\ UNCHANGED <<refs, dir>>
  BY DEF DosSetFattr, Call
<1>4. CASE closed # {}
  BY <1>2, <1>4 DEF OpenInv
<1>5. CASE closed = {}
  <2> DEFINE n == OnceEach(closed)
  <2>1. \A i \in Sfts : sft[i].count \in Nat
    BY DEF Inv, SftInv
  <2>2. n \in [Sfts -> Nat] /\ \A i \in Sfts : n[i] = 0 /\ n[i] =< sft[i].count
    BY <1>5, <2>1 DEF OnceEach
  <2>3. DosCloseSft(n)
    BY <1>2
  <2> HIDE DEF n
  <2>4. \A i \in Sfts :
          /\ sft'[i].count \in Nat /\ sft'[i].count = sft[i].count - n[i]
          /\ sft'[i].shroff >= 0 => sft[i].shroff >= 0 /\ sft'[i].file = sft[i].file
    BY <2>2, <2>3, CloseSft
  <2>5. \A i \in Sfts : sft'[i].count = sft[i].count
    BY <2>1, <2>2, <2>4
  <2> QED
    BY <1>3, <2>4, <2>5, HandlesStay
<1> QED
  BY <1>4, <1>5

\* A new open uses an entry no handle is left of.
LEMMA OpenOfOpen ==
  ASSUME Inv, OpenInv, NEW p \in Procs, DosOpen(p)
  PROVE  OpenInv'
<1>1. PICK f \in Files, m \in Modes, out \in Outcomes :
       LET i == Min(FreeSfts)
           k == IF IsShareInstalled THEN open_check ELSE -1 IN
       /\ sft' = [sft EXCEPT ![i] = [count |-> 1, shroff |-> k, file |-> f]]
       /\ IF out = "ok"
          THEN refs' = [refs EXCEPT ![p][i] = 1] /\ dir' = dir \cup {f} /\ UNCHANGED dying
          ELSE dying' = p /\ UNCHANGED <<refs, dir>>
  BY Zenon DEF DosOpen
<1> DEFINE i == Min(FreeSfts)
           k == IF IsShareInstalled THEN open_check ELSE -1
<1>2. ~upset /\ FreeSfts # {}
  BY DEF DosOpen, Call
<1>3. i \in Sfts /\ sft[i].count = 0
  BY <1>2, MinIn, ShareAssumption DEF FreeSfts, Sfts, ShareAssumption
<1>4. sft' = [sft EXCEPT ![i] = [count |-> 1, shroff |-> k, file |-> f]]
  BY <1>1
<1>5. IF out = "ok" THEN refs' = [refs EXCEPT ![p][i] = 1] /\ dir' = dir \cup {f}
      ELSE UNCHANGED <<refs, dir>>
  BY <1>1
<1> HIDE DEF i, k
<1>6. /\ refs \in RefCounts
      /\ sft \in [Sfts -> [count : Nat, shroff : Slots \cup {-1}, file : Files \cup {None}]]
  BY DEF Inv, SftInv, RefCounts
<1>7. /\ sft'[i].count = 1 /\ sft'[i].file = f
      /\ \A j \in Sfts \ {i} : sft'[j] = sft[j]
      /\ \A j \in Sfts : sft[j].count \in Nat
  BY <1>3, <1>4, <1>6
<1>8. Covered(refs, i, 0)
  BY <1>2, <1>3 DEF OpenInv
<1>9. \A q \in Procs : refs[q][i] = 0
  BY <1>3, <1>6, <1>8, NoHandles
<1>10. /\ refs' \in RefCounts /\ refs'[p][i] \in {0, 1}
       /\ \A q \in Procs, j \in Sfts : q # p \/ j # i => refs'[q][j] = refs[q][j]
       /\ dir \subseteq dir' /\ (refs'[p][i] > 0 => f \in dir')
  <2>1. CASE out = "ok"
    <3>1. refs' = [refs EXCEPT ![p][i] = 1] /\ dir' = dir \cup {f}
      BY <1>5, <2>1
    <3>2. refs' \in RefCounts
      BY <1>3, <1>6, <3>1, RefsAdd DEF RefCounts
    <3> QED
      BY <1>3, <1>6, <3>1, <3>2 DEF RefCounts
  <2>2. CASE out # "ok"
    BY <1>5, <1>6, <1>9, <2>2
  <2> QED
    BY <2>1, <2>2
<1>11. ASSUME NEW j \in Sfts
       PROVE  Covered(refs', j, sft'[j].count)
  <2> DEFINE r == refs
             r2 == refs'
             c == sft[j].count
             c2 == sft'[j].count
  <2>1. /\ r \in RefCounts /\ r2 \in RefCounts /\ c \in Nat /\ c2 \in Nat
        /\ \A q \in Procs \ {p} : r2[q][j] = r[q][j]
    BY <1>6, <1>7, <1>10
  <2>2. c - r[p][j] =< c2 - r2[p][j]
    <3>1. CASE j = i
      BY <3>1, <1>3, <1>7, <1>9, <1>10
    <3>2. CASE j # i
      <4>1. r[p][j] \in Nat /\ r2[p][j] = r[p][j] /\ c2 = c
        BY <3>2, <1>6, <1>7, <1>10 DEF RefCounts
      <4> QED
        BY <4>1, <2>1
    <3> QED
      BY <3>1, <3>2
  <2>3. Covered(r, j, c)
    BY <1>2 DEF OpenInv
  <2> HIDE DEF r, r2, c, c2
  <2>4. Covered(r2, j, c2)
    BY <2>1, <2>2, <2>3, CoverChange
  <2> QED
    BY <2>4 DEF r2, c2
<1>12. ASSUME NEW q \in Procs, NEW j \in Sfts, refs'[q][j] > 0, sft'[j].shroff >= 0
       PROVE  sft'[j].file \in dir'
  <2>1. CASE j = i /\ q = p
    BY <1>7, <1>10, <1>12, <2>1
  <2>2. CASE j = i /\ q # p
    BY <1>9, <1>10, <1>12, <2>2
  <2>3. CASE j # i
    <3>1. sft'[j] = sft[j] /\ refs'[q][j] = refs[q][j]
      BY <2>3, <1>7, <1>10
    <3>2. sft[j].file \in dir
      BY <3>1, <1>2, <1>12 DEF OpenInv
    <3> QED
      BY <3>1, <3>2, <1>10
  <2> QED
    BY <2>1, <2>2, <2>3
<1> QED
  BY <1>11, <1>12 DEF OpenInv

\* A file that is deleted or renamed is in no entry that SHARE knows of.
LEMMA OpenOfDelete ==
  ASSUME Inv, OpenInv, NEW f \in Files, DosDelete(f) \/ DosRename(f)
  PROVE  OpenInv'
<1>1. /\ ~upset /\ UNCHANGED <<sft, refs, upset>> /\ ~(enable /\ is_file_open(f))
      /\ dir \ {f} \subseteq dir'
  BY DEF DosDelete, DosRename, Call, IsShareInstalled
<1>2. \A i \in Sfts : sft[i].shroff >= 0 => sft[i].file # f
  <2> SUFFICES ASSUME NEW i \in Sfts, sft[i].shroff >= 0 PROVE sft[i].file # f
    OBVIOUS
  <2>1. enable /\ sft[i].shroff \in Slots /\ sft[i].file = file_table[sft[i].shroff].filename
    BY <1>1 DEF Inv, SftInv, Matched
  <2>2. OfFile(f) = {}
    BY <1>1, <2>1 DEF is_file_open
  <2> QED
    BY <2>1, <2>2 DEF OfFile
<1> QED
  BY <1>1, <1>2 DEF OpenInv

LEMMA OpenStep == Inv /\ OpenInv /\ [Next]_vars => OpenInv'
<1> SUFFICES ASSUME Inv, OpenInv, [Next]_vars PROVE OpenInv'
  OBVIOUS
<1>1. ASSUME UNCHANGED <<sft, refs, dir, upset>>
      PROVE  OpenInv'
  BY <1>1 DEF OpenInv
<1>2. CASE UNCHANGED vars
  BY <1>1, <1>2 DEF vars
<1>3. ASSUME NEW p \in Procs,
             DosOpen(p) \/ DosClose(p) \/ CloneHandle(p) \/ return_user(p) \/ DosSetFattr(p)
      PROVE  OpenInv'
  BY <1>3, OpenOfOpen, OpenOfClose, OpenOfClone, OpenOfReturn, OpenOfSetFattr
<1>4. ASSUME NEW p \in Procs, DosRWSft(p)
      PROVE  OpenInv'
  BY <1>4 DEF DosRWSft, OpenInv
<1>5. ASSUME NEW p \in Procs, Lock(p) \/ Unlock(p)
      PROVE  OpenInv'
  BY <1>1, <1>5 DEF Lock, Unlock
<1>6. ASSUME NEW f \in Files, DosDelete(f) \/ DosRename(f)
      PROVE  OpenInv'
  BY <1>6, OpenOfDelete
<1>7. CASE asm_disable
  <2>1. ~upset /\ UNCHANGED <<refs, dir>>
    BY <1>7 DEF asm_disable, Call
  <2>2. \A i \in Sfts : sft'[i].count = sft[i].count /\ ~(sft'[i].shroff >= 0)
    BY <1>7 DEF asm_disable, Inv, SftInv
  <2> QED
    BY <2>1, <2>2, HandlesStay
<1>8. CASE asm_enable
  BY <1>1, <1>8 DEF asm_enable
<1> QED
  BY <1>2, <1>3, <1>4, <1>5, <1>6, <1>7, <1>8 DEF Next

LEMMA OpenInvInit == Init => OpenInv
<1>4. ASSUME Init, NEW p \in Procs, NEW i \in Sfts PROVE ~(refs[p][i] > 0)
  BY <1>4 DEF Init
<1> SUFFICES ASSUME Init, NEW i \in Sfts PROVE Covered(refs, i, sft[i].count)
  BY <1>4, Zenon DEF OpenInv
<1>1. Held(refs, i) = {}
  BY DEF Init, Held
<1>2. sft[i].count = 0
  BY DEF Init, NoSft
<1>3. Covered(refs, i, 0)
  <2>1. IsFiniteSet({}) /\ Cardinality({}) = 0
    BY FS_EmptySet
  <2>2. IsFiniteSet(Held(refs, i)) /\ Cardinality(Held(refs, i)) = 0
    BY <1>1, <2>1, Zenon
  <2> QED
    BY <2>2 DEF Covered
<1> QED
  BY <1>2, <1>3

-----------------------------------------------------------------------------
(* The other variables.                                                    *)

RestInv == share_installed \in BOOLEAN /\ dying \in Procs \cup {None} /\ dir \subseteq Files

LEMMA RestStep == Inv /\ RestInv /\ [Next]_vars => RestInv'
<1> SUFFICES ASSUME Inv, RestInv, [Next]_vars PROVE RestInv'
  OBVIOUS
<1> DEFINE B == BOOLEAN
<1>1. enable \in B /\ share_installed \in B /\ dying \in Procs \cup {None} /\ dir \subseteq Files
  BY Zenon DEF RestInv, Inv, SftInv
<1>2. CASE UNCHANGED vars
  BY <1>2, Zenon DEF vars, RestInv
<1>3. share_installed' \in {share_installed, enable}
  <2>1. ASSUME NEW p \in Procs, DosClose(p) PROVE share_installed' \in {share_installed, enable}
    BY <2>1 DEF DosClose, DosCloseSft, IsShareInstalled
  <2>2. ASSUME NEW p \in Procs, return_user(p) PROVE share_installed' \in {share_installed, enable}
    BY <2>2 DEF return_user, DosCloseSft, IsShareInstalled
  <2>3. ASSUME NEW p \in Procs, DosSetFattr(p) PROVE share_installed' \in {share_installed, enable}
    BY <2>3 DEF DosSetFattr, DosCloseSft, IsShareInstalled
  <2>4. ASSUME NEW p \in Procs, DosOpen(p) PROVE share_installed' \in {share_installed, enable}
    BY <2>4 DEF DosOpen, IsShareInstalled
  <2>5. ASSUME NEW p \in Procs, CloneHandle(p) \/ DosRWSft(p) \/ Lock(p) \/ Unlock(p)
        PROVE  share_installed' \in {share_installed, enable}
    BY <2>5 DEF CloneHandle, DosRWSft, Lock, Unlock
  <2>6. ASSUME NEW f \in Files, DosDelete(f) \/ DosRename(f)
        PROVE  share_installed' \in {share_installed, enable}
    BY <2>6 DEF DosDelete, DosRename, IsShareInstalled
  <2>7. CASE asm_disable \/ asm_enable \/ UNCHANGED vars
    BY <2>7 DEF asm_disable, asm_enable, vars
  <2> QED
    BY <2>1, <2>2, <2>3, <2>4, <2>5, <2>6, <2>7 DEF Next
<1>4. dying' \in Procs \cup {None}
  <2>1. ASSUME NEW p \in Procs,
               \/ DosOpen(p) \/ DosClose(p) \/ CloneHandle(p) \/ return_user(p)
               \/ DosRWSft(p) \/ Lock(p) \/ Unlock(p) \/ DosSetFattr(p)
        PROVE  dying' \in {dying, p, None}
    <3>1. ASSUME DosOpen(p) PROVE dying' \in {dying, p, None}
      BY <3>1 DEF DosOpen
    <3>2. ASSUME DosClose(p) \/ return_user(p) \/ DosSetFattr(p) PROVE dying' \in {dying, p, None}
      BY <3>2 DEF DosClose, return_user, DosSetFattr
    <3>3. ASSUME CloneHandle(p) \/ DosRWSft(p) \/ Lock(p) \/ Unlock(p) PROVE dying' \in {dying, p, None}
      BY <3>3 DEF CloneHandle, DosRWSft, Lock, Unlock
    <3> QED
      BY <2>1, <3>1, <3>2, <3>3
  <2>2. ASSUME NEW f \in Files, DosDelete(f) \/ DosRename(f) PROVE dying' = dying
    BY <2>2 DEF DosDelete, DosRename
  <2>3. CASE asm_disable \/ asm_enable \/ UNCHANGED vars
    BY <1>1, <2>3 DEF asm_disable, asm_enable, vars
  <2> QED
    BY <1>1, <2>1, <2>2, <2>3 DEF Next
<1>5. dir' \subseteq Files
  <2>1. ASSUME NEW p \in Procs, DosOpen(p) PROVE dir' \subseteq Files
    <3>1. \E f \in Files : dir' \subseteq dir \cup {f}
      BY <2>1 DEF DosOpen
    <3> QED
      BY <1>1, <3>1
  <2>2. ASSUME NEW p \in Procs,
               \/ DosClose(p) \/ CloneHandle(p) \/ return_user(p)
               \/ DosRWSft(p) \/ Lock(p) \/ Unlock(p) \/ DosSetFattr(p)
        PROVE  dir' = dir
    BY <2>2 DEF DosClose, CloneHandle, return_user, DosRWSft, Lock, Unlock, DosSetFattr
  <2>3. ASSUME NEW f \in Files, DosDelete(f) \/ DosRename(f) PROVE dir' \subseteq Files
    BY <1>1, <2>3 DEF DosDelete, DosRename
  <2>4. CASE asm_disable \/ asm_enable \/ UNCHANGED vars
    BY <1>1, <2>4 DEF asm_disable, asm_enable, vars
  <2> QED
    BY <1>1, <2>1, <2>2, <2>3, <2>4 DEF Next
<1>6. share_installed' \in B
  BY <1>1, <1>3, Zenon
<1> QED
  BY <1>4, <1>5, <1>6, Zenon DEF RestInv

-----------------------------------------------------------------------------
(* The theorems.                                                           *)

LEMMA NextInv == Inv /\ [Next]_vars => Inv'
<1> SUFFICES ASSUME Inv, [Next]_vars PROVE Inv'
  OBVIOUS
<1>1. ASSUME UNCHANGED <<share, sft, refs, upset>>
      PROVE  Inv'
  BY <1>1, SameTables DEF Inv, SftInv, share, Matched, Used
<1>2. CASE UNCHANGED vars
  BY <1>1, <1>2 DEF vars
<1>3. ASSUME NEW p \in Procs,
             \/ DosOpen(p) \/ DosClose(p) \/ CloneHandle(p) \/ return_user(p)
             \/ DosRWSft(p) \/ Lock(p) \/ Unlock(p) \/ DosSetFattr(p)
      PROVE  Inv'
  BY <1>3, OpenKeeps, CloseOneKeeps, CloneKeeps, ReturnKeeps, RefusedKeeps, LockKeeps, UnlockKeeps,
     SetFattrKeeps
<1>4. ASSUME NEW f \in Files, DosDelete(f) \/ DosRename(f)
      PROVE  Inv'
  BY <1>1, <1>4 DEF DosDelete, DosRename
<1>5. CASE asm_disable \/ asm_enable
  BY <1>5, ClearedKeeps DEF asm_disable, asm_enable
<1> QED
  BY <1>2, <1>3, <1>4, <1>5 DEF Next

LEMMA InvHolds == Spec => []Inv
<1>1. Init => Inv
  BY InitInv
<1>2. Inv /\ [Next]_vars => Inv'
  BY NextInv
<1> QED
  BY <1>1, <1>2, PTL DEF Spec

\* What the first open of a file denied no later one does, nor denies what it
\* does, and deny-all opens are alone, for every number of entries and all
\* modes: through FirstModes each entry is compared with the first of its
\* file, which stands for all (do_open_check).
THEOREM OpensAlwaysAgree == Spec => []OpensAgree
<1>1. Inv => OpensAgree
  BY DEF Inv, FilesInv
<1> QED
  BY <1>1, InvHolds, PTL

\* Each entry of the file table in use belongs to exactly one open file and
\* is of that file: SHARE is told of the last close of each entry of the SFT,
\* and of no other (DosOpenSft, DosCloseSft, asm_disable).
THEOREM SlotsAlwaysMatch == Spec => []SlotsMatch
<1>1. ASSUME Inv PROVE SlotsMatch
  <2>1. \A i \in Sfts : sft[i].shroff >= 0 => sft[i].count > 0 /\ enable
    BY <1>1 DEF Inv, SftInv
  <2>2. ASSUME ~upset, NEW k \in Slots
        PROVE  LET at == {i \in Sfts : sft[i].count # 0 /\ sft[i].shroff = k} IN
               IF Used(k) THEN \E i \in at : at = {i} /\ sft[i].file = file_table[k].filename
               ELSE at = {}
    <3> DEFINE at == {i \in Sfts : sft[i].count # 0 /\ sft[i].shroff = k}
    <3>1. Matched /\ k >= 0
      BY <1>1, <2>2 DEF Inv, SftInv, Slots
    <3>2. ASSUME Used(k)
          PROVE  \E i \in at : at = {i} /\ sft[i].file = file_table[k].filename
      <4>1. PICK i \in Sfts : sft[i].shroff = k
        BY <3>1, <3>2 DEF Matched
      <4>2. i \in at /\ sft[i].file = file_table[k].filename
        BY <2>1, <3>1, <4>1 DEF Matched
      <4>3. \A j \in at : j = i
        BY <3>1, <4>1 DEF Matched
      <4> QED
        BY <4>2, <4>3
    <3>3. ASSUME ~Used(k)
          PROVE  at = {}
      BY <3>1, <3>3 DEF Matched
    <3> QED
      BY <3>2, <3>3
  <2> QED
    BY <2>1, <2>2 DEF SlotsMatch
<1> QED
  BY <1>1, InvHolds, PTL

\* Locks of one file are apart or one is in the inside of the other, for
\* every number of locks and all regions: the least that lock_unlock leaves.
THEOREM LocksAlwaysApart == Spec => []LocksApart
<1>1. Inv => LocksApart
  BY DEF Inv, LocksInv, LocksApart, Apart
<1> QED
  BY <1>1, InvHolds, PTL

\* A transfer that passes access_check touches bytes another process locked
\* only when it reaches beyond the lock on both sides, for all regions, those
\* that wrap around included.
THEOREM TransfersAlwaysRespect == Spec => []TransfersRespect
<1>1. ASSUME Inv PROVE TransfersRespect
  <2> SUFFICES ASSUME NEW p \in Procs, NEW k \in Slots, NEW r \in Regions, ~Hit(p, k, r),
                      NEW l \in LockSlots, lock_table[l].used = 1, lock_table[l].psp # p,
                      SameFile(k, l),
                      NEW x \in Bytes(l), x \in 0..Top, r[1] =< x, x < r[1] + r[2]
               PROVE  r[1] < lock_table[l].start /\ lock_table[l].end < r[1] + r[2]
    BY DEF TransfersRespect
  <2> DEFINE lock == [start |-> lock_table[l].start, end |-> lock_table[l].end]
  <2>1. lock \in [start : 0..Top, end : 0..Top] /\ lock.start =< x /\ x < lock.end
    BY <1>1 DEF Inv, LocksInv, LockEntry, Bytes
  <2>2. End(r) =< r[1] \/ ~Holds(lock_table[l], r)
    BY EndOf, ShareAssumption DEF Hit, SameFile, ShareAssumption
  <2>3. Holds(lock, r) <=> Holds(lock_table[l], r)
    BY DEF Holds
  <2>4. r[1] < lock.start /\ lock.end < r[1] + r[2]
    BY <2>1, <2>2, <2>3, Beyond
  <2> QED
    BY <2>4
<1> QED
  BY <1>1, InvHolds, PTL

LEMMA AllHold == Spec => [](Inv /\ FreeInv /\ OpenInv /\ RestInv)
<1>1. Init => Inv /\ FreeInv /\ OpenInv /\ RestInv
  <2>1. Init => RestInv
    BY Zenon DEF Init, RestInv
  <2> QED
    BY <2>1, InitInv, FreeInvInit, OpenInvInit
<1>2. Inv /\ FreeInv /\ OpenInv /\ RestInv /\ [Next]_vars => (Inv /\ FreeInv /\ OpenInv /\ RestInv)'
  BY NextInv, FreeStep, OpenStep, RestStep
<1> QED
  BY <1>1, <1>2, PTL DEF Spec

\* The numbers of free entries and locks are right for every size of the
\* tables, a refused transfer and SHARE /D and /E included: each entry that
\* a close clears was in use, and is cleared once (close_file,
\* remove_all_locks, lock_unlock, open_check, the tables of share.c).
THEOREM FreeAlwaysCounts == Spec => []FreeCounts
<1>1. FreeInv => FreeCounts
  BY DEF FreeInv, FreeCounts, FreeLocks
<1> QED
  BY <1>1, AllHold, PTL

\* No file with a handle opened under SHARE is deleted or renamed, however
\* many processes share the handle and whichever of their closes fail or
\* are aborted: an entry of the SFT is free only when no handle is left
\* (DosDelete, DosRenameTrue, DosCloseSft, CloneHandle, return_user).
THEOREM OpenAlwaysStay == Spec => []OpenFilesStay
<1>1. OpenInv => OpenFilesStay
  BY DEF OpenInv, OpenFilesStay
<1> QED
  BY <1>1, AllHold, PTL

\* All variables keep their types; the counters of free entries, which
\* share.c takes from and adds to, stay between 0 and the size of the tables.
THEOREM TypesAlwaysHold == Spec => []TypeOK
<1>1. Inv /\ FreeInv /\ RestInv => TypeOK
  <2> SUFFICES ASSUME Inv, FreeInv, RestInv PROVE TypeOK
    OBVIOUS
  <2>1. /\ file_table \in [Slots -> FileEntry] /\ lock_table \in [LockSlots -> LockEntry]
        /\ sft \in [Sfts -> [count : Nat, shroff : Slots \cup {-1}, file : Files \cup {None}]]
        /\ refs \in [Procs -> [Sfts -> Nat]] /\ enable \in BOOLEAN /\ upset \in BOOLEAN
    BY Zenon DEF Inv, FilesInv, SftInv, LocksInv
  <2>2. file_table_free \in 0..FileTableSize /\ lock_table_free \in 0..LockTableSize
    BY FreeFinite, Zenon DEF FreeInv
  <2> QED
    BY <2>1, <2>2, Zenon DEF RestInv, TypeOK, FileEntry, LockEntry
<1> QED
  BY <1>1, AllHold, PTL

=============================================================================
