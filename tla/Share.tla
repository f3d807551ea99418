------------------------------- MODULE Share -------------------------------
(***************************************************************************)
(* SHARE: the table of opens and the table of locked regions of            *)
(* share/src/share.c, the calls the kernel makes to it from open, close,   *)
(* read, write, lock, delete, rename and set attributes (kernel/dosfns.c,  *)
(* fatfs.c), and switching it off and on (amishelp.asm).                   *)
(*                                                                         *)
(* Any process may be the current one at a step: resident programs pop up. *)
(* `refs' counts the handles each process has to an entry of the system    *)
(* file table; which handles they are is in module Handles.  Transfers end *)
(* in "ok", "fail" or "abort": after an abort the process is `dying' until *)
(* return_user has closed its handles.                                     *)
(*                                                                         *)
(* Two calls leave the tables and the open files in disagreement: a        *)
(* refused transfer frees the entry of the open file, and setting          *)
(* attributes closes files behind the handles.  `upset' is an auxiliary    *)
(* variable that says it happened; the model stops there.                  *)
(***************************************************************************)
EXTENDS Integers, FiniteSets, FiniteSetsExt, Functions

CONSTANTS Procs, Files, None,
          NSft, FileTableSize, LockTableSize,
          Top,          \* the largest offset: 0xffffffff
          Regions,      \* <<offset, length>> of locks and transfers
          Modes,        \* <<open mode, sharing mode>> asked for at opens
          Outcomes,     \* how transfers may end
          MaxCount      \* bound: references to entries of the SFT

ASSUME ShareAssumption ==
  /\ None \notin Procs \cup Files
  /\ NSft \in Nat \ {0} /\ FileTableSize \in Nat \ {0} /\ LockTableSize \in Nat
  /\ Top \in Nat /\ Regions \subseteq (0..Top) \X (0..Top)
  /\ Modes \subseteq (0..2) \X (0..7)
  /\ "ok" \in Outcomes /\ Outcomes \subseteq {"ok", "fail", "abort"}
  /\ MaxCount \in Nat

Sfts == 0..NSft-1
Slots == 0..FileTableSize-1
LockSlots == 0..LockTableSize-1

VARIABLES
  enable,       \* ctrl1.enable: the resident part answers
  share_installed, \* what the kernel last found out
  file_table, lock_table, file_table_free, lock_table_free,
  sft,          \* the system file table
  refs, dying,  \* handles of the processes; the process being ended
  dir,          \* the files there are
  upset

share == <<enable, file_table, lock_table, file_table_free, lock_table_free>>
vars == <<share, share_installed, sft, refs, dying, dir, upset>>

COMPAT == 0   DENY_ALL == 1   DENY_WRITE == 2   DENY_READ == 3   DENY_NONE == 4
READ_ONLY == 0   WRITE_ONLY == 1   READ_WRITE == 2
OpenModes == 0..2
ShareModes == 0..4

NoOpen == [filename |-> None, openmode |-> 0, sharemode |-> 0,
           first_openmode |-> 0, first_sharemode |-> 0]
NoLock == [used |-> 0, start |-> 0, end |-> 0, fileno |-> 0, psp |-> None]
NoSft == [count |-> 0, shroff |-> -1, file |-> None]

Init ==
  /\ enable = TRUE /\ share_installed \in BOOLEAN
  /\ file_table = [k \in Slots |-> NoOpen] /\ file_table_free = FileTableSize
  /\ lock_table = [k \in LockSlots |-> NoLock] /\ lock_table_free = LockTableSize
  /\ sft = [i \in Sfts |-> NoSft]
  /\ refs = [p \in Procs |-> [i \in Sfts |-> 0]]
  /\ dying = None /\ dir = Files /\ upset = FALSE

-----------------------------------------------------------------------------
(* The rules for opens.                                                    *)

\* open_actions: what the first open's sharing mode and this one's lead to,
\* 0 to proceed, 1 and 2 to fail, without and with a critical error.
open_actions(first, now) ==
  IF first = now /\ now \in {COMPAT, DENY_NONE} THEN 0
  ELSE IF first = COMPAT \/ now # COMPAT THEN 1 ELSE 2

\* open_exceptions, all of which proceed: <<first's sharing and open mode,
\* this one's>>.
open_exceptions ==
  {<<COMPAT, READ_ONLY, s, READ_ONLY>> : s \in {DENY_WRITE, DENY_NONE}}
  \cup {<<DENY_WRITE, READ_ONLY, s, READ_ONLY>> : s \in {COMPAT, DENY_WRITE, DENY_NONE}}
  \cup {<<DENY_READ, READ_ONLY, s, WRITE_ONLY>> : s \in {DENY_WRITE, DENY_NONE}}
  \cup {<<DENY_READ, o, DENY_NONE, WRITE_ONLY>> : o \in {WRITE_ONLY, READ_WRITE}}
  \cup {<<DENY_NONE, READ_ONLY, s, o>> : s \in {COMPAT, DENY_WRITE}, o \in OpenModes}
  \cup {<<DENY_NONE, WRITE_ONLY, DENY_READ, o>> : o \in OpenModes}

Allowed(fs, fo, s, o) == <<fs, fo, s, o>> \in open_exceptions \/ open_actions(fs, s) = 0

\* Mutant: the sharing mode is taken as it comes.
Sharing_AsIs(s) == s
\* open_check takes what it does not know for compatibility mode.
Sharing(s) == IF s > DENY_NONE THEN COMPAT ELSE s

Used(k) == file_table[k].filename # None
FreeSlots == {k \in Slots : ~Used(k)}
OfFile(f) == {k \in Slots : file_table[k].filename = f}
\* Mutant: only the first entry is looked at.
is_file_open_First(f) == file_table[0].filename = f
is_file_open(f) == OfFile(f) # {}

\* Mutant: the first entry's own modes are compared.
FirstModes_Own(f, o, s) ==
  IF ~is_file_open(f) THEN <<s, o>>
  ELSE LET k == Min(OfFile(f)) IN <<file_table[k].sharemode, file_table[k].openmode>>

\* do_open_check compares with the first entry of the file in the table,
\* and takes over what that one knows of the first open.
FirstModes(f, o, s) ==
  IF ~is_file_open(f) THEN <<s, o>>
  ELSE LET k == Min(OfFile(f)) IN
       <<file_table[k].first_sharemode, file_table[k].first_openmode>>

\* open_check answers an entry number unless it refuses.
Refused(f, o, s) ==
  \/ FreeSlots = {}
  \/ /\ is_file_open(f)
     /\ LET first == FirstModes(f, o, s) IN ~Allowed(first[1], first[2], s, o)
open_check == Min(FreeSlots)

-----------------------------------------------------------------------------
(* Regions, which end before their end; offsets are 32 bits wide.          *)

\* Mutant: a region that wraps around is not noticed.
End_Wraps(r) == (r[1] + r[2]) % (Top + 1)
End(r) == LET e == (r[1] + r[2]) % (Top + 1) IN IF e < r[1] THEN Top ELSE e

\* Mutant: only the first byte is tested.
Holds_First(lock, r) == r[1] >= lock.start /\ r[1] < lock.end

\* A lock holds the first or the last byte of the region.
Holds(lock, r) == \/ r[1] >= lock.start /\ r[1] < lock.end
                  \/ End(r) > lock.start /\ End(r) <= lock.end

\* access_check: so does one of the file, of another process unless psp is
\* None.
Hit(psp, fileno, r) ==
  /\ End(r) > r[1]
  /\ \E l \in LockSlots :
       LET lock == lock_table[l] IN
       /\ lock.used = 1
       /\ psp = None \/ lock.psp # psp
       /\ file_table[fileno].filename = file_table[lock.fileno].filename
       /\ Holds(lock, r)

-----------------------------------------------------------------------------
(* Tables after a call.                                                    *)

Call == dying = None /\ ~upset
FreeSfts == {i \in Sfts : sft[i].count = 0}
IsOpen(p, i) == refs[p][i] > 0 /\ sft[i].count > 0      \* get_sft
IsShareInstalled == enable           \* asked anew

\* Mutant: one lock is given back per close.
Unlocked_Once(gone) == IF gone = {} THEN 0 ELSE 1
Unlocked(gone) == Cardinality(gone)

\* close_file for a set of entries.
close_files(S) ==
  LET gone == {l \in LockSlots : lock_table[l].used = 1 /\ lock_table[l].fileno \in S} IN
  /\ lock_table' = [l \in LockSlots |-> IF l \in gone THEN NoLock ELSE lock_table[l]]
  /\ lock_table_free' = lock_table_free + Unlocked(gone)
  /\ file_table' = [k \in Slots |-> IF k \in S THEN NoOpen ELSE file_table[k]]
  /\ file_table_free' = file_table_free + Cardinality(S)

\* Mutant: every close tells SHARE.
Last_Any(n) == {i \in Sfts : n[i] > 0}

\* DosCloseSft n[i] times for each i, all successful.  The last close of an
\* entry tells SHARE.
Last(n) == {i \in Sfts : n[i] > 0 /\ sft[i].count = n[i]}
DosCloseSft(n) ==
  /\ sft' = [i \in Sfts |-> IF sft[i].count = n[i] THEN NoSft
                           ELSE [sft[i] EXCEPT !.count = @ - n[i]]]
  /\ close_files({sft[i].shroff : i \in {j \in Last(n) : IsShareInstalled /\ sft[j].shroff >= 0}})
  /\ share_installed' = IF Last(n) # {} THEN IsShareInstalled ELSE share_installed
  /\ UNCHANGED enable

OnceEach(S) == [i \in Sfts |-> IF i \in S THEN 1 ELSE 0]
None0 == [j \in Sfts |-> 0]

-----------------------------------------------------------------------------
(* Calls.                                                                  *)

\* DosOpenSft for a file.  A file that cannot be opened gives its entry
\* back; an abort leaves both entries in use.
DosOpen(p) ==
  /\ Call /\ FreeSfts # {}
  /\ share_installed' = IsShareInstalled
  /\ \E f \in Files, m \in Modes, out \in Outcomes :
       LET i == Min(FreeSfts)
           o == m[1]
           s == Sharing(m[2])
           k == IF IsShareInstalled THEN open_check ELSE -1
           first == FirstModes(f, o, s) IN
       /\ IsShareInstalled => ~Refused(f, o, s)
       /\ out # "fail"      \* which changes nothing
       /\ sft' = [sft EXCEPT ![i] = [count |-> 1, shroff |-> k, file |-> f]]
       /\ file_table' = IF k = -1 THEN file_table
            ELSE [file_table EXCEPT ![k] =
                   [filename |-> f, openmode |-> o, sharemode |-> s,
                    first_openmode |-> first[2], first_sharemode |-> first[1]]]
       /\ file_table_free' = IF k = -1 THEN file_table_free ELSE file_table_free - 1
       /\ IF out = "ok"
          THEN refs' = [refs EXCEPT ![p][i] = 1] /\ dir' = dir \cup {f} /\ UNCHANGED dying
          ELSE dying' = p /\ UNCHANGED <<refs, dir>>
  /\ UNCHANGED <<enable, lock_table, lock_table_free, upset>>

\* A close that fails gives up the handle only.
DosClose(p) ==
  /\ Call
  /\ \E i \in Sfts, out \in Outcomes :
       /\ IsOpen(p, i)
       /\ refs' = [refs EXCEPT ![p][i] = @ - 1]
       /\ IF out = "ok" THEN DosCloseSft(OnceEach({i})) ELSE UNCHANGED <<share, share_installed, sft>>
       /\ dying' = IF out = "abort" THEN p ELSE None
  /\ UNCHANGED <<dir, upset>>

\* CloneHandle: to the process itself (DosDup), or to a new one (child_psp).
CloneHandle(p) ==
  /\ Call
  /\ \E i \in Sfts, q \in Procs :
       /\ IsOpen(p, i) /\ MapThenSumSet(LAMBDA j : sft[j].count, Sfts) < MaxCount
       /\ refs' = [refs EXCEPT ![q][i] = @ + 1]
       /\ sft' = [sft EXCEPT ![i].count = @ + 1]
  /\ UNCHANGED <<share, share_installed, dying, dir, upset>>

\* return_user: every handle is closed; closes that fail lose the handle.
Closes(p, bad) ==
  [i \in Sfts |-> IF i \in bad THEN 0 ELSE Min({refs[p][i], sft[i].count})]
return_user(p) ==
  /\ ~upset /\ dying \in {None, p}
  /\ \E bad \in IF "fail" \in Outcomes THEN SUBSET {i \in Sfts : refs[p][i] > 0} ELSE {{}} :
       DosCloseSft(Closes(p, bad))
  /\ refs' = [refs EXCEPT ![p] = None0]
  /\ dying' = None
  /\ UNCHANGED <<dir, upset>>

\* DosRWSft, as far as SHARE is concerned: a refusal frees the entry of the
\* file that is open, before the critical error handler runs.
DosRWSft(p) ==
  /\ Call /\ share_installed
  /\ \E i \in Sfts, r \in Regions :
       LET k == sft[i].shroff IN
       /\ IsOpen(p, i) /\ k >= 0
       /\ Hit(p, k, r)
       /\ file_table' = [file_table EXCEPT ![k] = NoOpen]
  /\ file_table_free' = file_table_free + 1
  /\ upset' = TRUE
  /\ UNCHANGED <<enable, lock_table, lock_table_free, share_installed, sft, refs, dying, dir>>

\* DosLockUnlock: lock_unlock, in the name of the process that asks.
Lock(p) ==
  /\ Call /\ share_installed
  /\ \E i \in Sfts, r \in Regions :
       LET k == sft[i].shroff
           free == {l \in LockSlots : lock_table[l].used = 0} IN
       /\ IsOpen(p, i) /\ k >= 0
       /\ End(r) > r[1] /\ ~Hit(None, k, r) /\ free # {}
       /\ lock_table' = [lock_table EXCEPT ![Min(free)] =
                           [used |-> 1, start |-> r[1], end |-> End(r), fileno |-> k, psp |-> p]]
  /\ lock_table_free' = lock_table_free - 1
  /\ UNCHANGED <<enable, file_table, file_table_free, share_installed, sft, refs, dying, dir, upset>>

Unlock(p) ==
  /\ Call /\ share_installed
  /\ \E i \in Sfts, r \in Regions :
       LET k == sft[i].shroff
           mine == {l \in LockSlots :
                      /\ lock_table[l].used = 1 /\ lock_table[l].psp = p
                      /\ lock_table[l].fileno = k
                      /\ lock_table[l].start = r[1] /\ lock_table[l].end = End(r)} IN
       /\ IsOpen(p, i) /\ k >= 0
       /\ End(r) > r[1] /\ mine # {}
       /\ lock_table' = [lock_table EXCEPT ![Min(mine)] = NoLock]
  /\ lock_table_free' = lock_table_free + 1
  /\ UNCHANGED <<enable, file_table, file_table_free, share_installed, sft, refs, dying, dir, upset>>

\* DosDelete and DosRenameTrue of a file there is.
DosDelete(f) ==
  /\ Call /\ f \in dir
  /\ ~(IsShareInstalled /\ is_file_open(f))
  /\ dir' = dir \ {f}
  /\ share_installed' = IsShareInstalled
  /\ UNCHANGED <<share, sft, refs, dying, upset>>

DosRename(f) ==
  /\ Call /\ f \in dir
  /\ ~(IsShareInstalled /\ is_file_open(f))
  /\ \E g \in Files \ dir : dir' = (dir \ {f}) \cup {g}
  /\ share_installed' = IsShareInstalled
  /\ UNCHANGED <<share, sft, refs, dying, upset>>

\* DosSetFattr: asks as an open for reading and writing in compatibility
\* mode would, gives the entry back, and closes each entry of the SFT that
\* is of the file (merge_file_changes) once, whoever has handles to it.
DosSetFattr(p) ==
  /\ Call /\ IsShareInstalled
  /\ \E f \in dir :
       LET mine == {i \in Sfts : sft[i].count > 0 /\ sft[i].file = f} IN
       /\ ~Refused(f, READ_WRITE, COMPAT)
       /\ \E closed \in SUBSET mine, out \in Outcomes :
            /\ \A i \in closed, j \in mine : j < i => j \in closed
            /\ closed = mine <=> out = "ok"
            /\ DosCloseSft(OnceEach(closed))
            /\ upset' = (closed # {})
            /\ dying' = IF out = "abort" THEN p ELSE None
  /\ UNCHANGED <<refs, dir>>

\* asm_disable and asm_enable: SHARE /D and /E.  Entries of the SFT forget
\* theirs, and the tables are cleared both times.
Cleared ==
  /\ file_table' = [k \in Slots |-> NoOpen] /\ file_table_free' = FileTableSize
  /\ lock_table' = [l \in LockSlots |-> NoLock] /\ lock_table_free' = LockTableSize

asm_disable ==
  /\ Call /\ enable
  /\ enable' = FALSE /\ Cleared
  /\ sft' = [i \in Sfts |-> [sft[i] EXCEPT !.shroff = -1]]
  /\ UNCHANGED <<share_installed, refs, dying, dir, upset>>

asm_enable ==
  /\ Call /\ ~enable
  /\ enable' = TRUE /\ Cleared
  /\ UNCHANGED <<share_installed, sft, refs, dying, dir, upset>>

Next ==
  \/ \E p \in Procs : \/ DosOpen(p) \/ DosClose(p) \/ CloneHandle(p) \/ return_user(p)
                      \/ DosRWSft(p) \/ Lock(p) \/ Unlock(p) \/ DosSetFattr(p)
  \/ \E f \in Files : DosDelete(f) \/ DosRename(f)
  \/ asm_disable \/ asm_enable
  \/ upset /\ UNCHANGED vars

Spec == Init /\ [][Next]_vars

-----------------------------------------------------------------------------
(* Properties.                                                             *)

\* Types of all variables (file_t, lock_t, the counters of share.c).
TypeOK ==
  /\ enable \in BOOLEAN /\ share_installed \in BOOLEAN /\ upset \in BOOLEAN
  /\ file_table \in [Slots -> [filename : Files \cup {None}, openmode : OpenModes, sharemode : ShareModes,
                               first_openmode : OpenModes, first_sharemode : ShareModes]]
  /\ lock_table \in [LockSlots -> [used : {0, 1}, start : 0..Top, end : 0..Top,
                                   fileno : Slots, psp : Procs \cup {None}]]
  /\ file_table_free \in 0..FileTableSize /\ lock_table_free \in 0..LockTableSize
  /\ sft \in [Sfts -> [count : Nat, shroff : Slots \cup {-1}, file : Files \cup {None}]]
  /\ refs \in [Procs -> [Sfts -> Nat]]
  /\ dying \in Procs \cup {None} /\ dir \subseteq Files

\* Each entry of the file table in use belongs to one open file, and is of
\* that file: through closes, failed opens, aborts and SHARE /D and /E, no
\* entry is left over or used by two (DosOpenSft, DosCloseSft, close_file).
SlotsMatch ==
  /\ ~upset => \A k \in Slots :
       LET at == {i \in Sfts : sft[i].count # 0 /\ sft[i].shroff = k} IN
       IF Used(k) THEN \E i \in at : at = {i} /\ sft[i].file = file_table[k].filename
       ELSE at = {}
  /\ \A i \in Sfts : sft[i].shroff >= 0 => enable

\* The numbers of free entries that SHARE /S shows are right.
FreeCounts ==
  /\ file_table_free = Cardinality(FreeSlots)
  /\ lock_table_free = Cardinality({l \in LockSlots : lock_table[l].used = 0})

Access(o) == IF o = READ_ONLY THEN {"r"} ELSE IF o = WRITE_ONLY THEN {"w"} ELSE {"r", "w"}
Denied(s) == IF s = DENY_ALL THEN {"r", "w"} ELSE IF s = DENY_WRITE THEN {"w"}
             ELSE IF s = DENY_READ THEN {"r"} ELSE {}
Clash(o, s, o2, s2) == Access(o) \cap Denied(s2) # {} \/ Access(o2) \cap Denied(s) # {}
Conflict(j, k) == Clash(file_table[j].openmode, file_table[j].sharemode,
                        file_table[k].openmode, file_table[k].sharemode)
LikeFirst(k) == /\ file_table[k].openmode = file_table[k].first_openmode
                /\ file_table[k].sharemode = file_table[k].first_sharemode

\* Whoever opens a file for itself alone has it alone.  What the first open
\* denied no later one does, and no later one denies what the first does,
\* also after the first has gone and entries are used again: opens that
\* conflict were both made after a first one that agreed with either
\* (do_open_check).
OpensAgree ==
  \A j \in Slots, k \in Slots :
    Used(j) /\ j # k /\ file_table[j].filename = file_table[k].filename =>
      /\ file_table[j].sharemode # DENY_ALL
      /\ file_table[j].first_openmode = file_table[k].first_openmode
      /\ file_table[j].first_sharemode = file_table[k].first_sharemode
      /\ LikeFirst(j) => ~Conflict(j, k)

Bytes(l) == lock_table[l].start .. lock_table[l].end - 1
SameFile(k, l) == file_table[k].filename = file_table[lock_table[l].fileno].filename

\* A locked region is of an open file, and two of them are apart or one
\* holds the other in its inside: the most the test of first and last byte
\* can do (lock_unlock, access_check, remove_all_locks).
LocksApart ==
  ~upset => \A l \in LockSlots : lock_table[l].used = 1 =>
    /\ Used(lock_table[l].fileno) /\ Bytes(l) # {}
    /\ \A m \in LockSlots \ {l} :
         /\ lock_table[m].used = 1 /\ SameFile(lock_table[l].fileno, m)
         /\ Bytes(l) \cap Bytes(m) # {}
         => \/ lock_table[l].start < lock_table[m].start /\ lock_table[m].end < lock_table[l].end
            \/ lock_table[m].start < lock_table[l].start /\ lock_table[l].end < lock_table[m].end

\* A transfer that SHARE lets through touches no byte another process has
\* locked, unless it reaches beyond that region on both sides; offsets that
\* wrap around included (access_check).
TransfersRespect ==
  \A p \in Procs, k \in Slots, r \in Regions :
    Used(k) /\ ~Hit(p, k, r) =>
      \A l \in LockSlots :
        /\ lock_table[l].used = 1 /\ lock_table[l].psp # p /\ SameFile(k, l)
        /\ Bytes(l) \cap {b \in 0..Top : r[1] <= b /\ b < r[1] + r[2]} # {}
        => r[1] < lock_table[l].start /\ lock_table[l].end < r[1] + r[2]

\* No file is deleted or renamed while a handle of it is open that was
\* opened under SHARE (is_file_open in DosDelete and DosRenameTrue).
OpenFilesStay ==
  ~upset => \A p \in Procs, i \in Sfts :
    refs[p][i] > 0 /\ sft[i].shroff >= 0 => sft[i].file \in dir

=============================================================================
