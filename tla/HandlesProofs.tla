---------------------------- MODULE HandlesProofs ----------------------------
(***************************************************************************)
(* Handles, for every number of segments, SFT entries and handles: the     *)
(* reference counts of the SFT are exact, what O_NOINHERIT keeps private   *)
(* stays private, every block has a living owner, and an EXEC that fails   *)
(* gives back what it took.                                                *)
(***************************************************************************)
EXTENDS Handles, TableFacts

-----------------------------------------------------------------------------
(* The inductive invariant.                                                *)

\* The processes that are running or wait for one they started: a stack, with
\* Top on top of it.
Stack == alive \ kept
Top == IF under = None THEN cu_psp ELSE under

StackInv ==
  /\ Root \in Stack /\ psp[Root].parent = Root
  /\ Top \in Stack /\ (under # None => cu_psp \in kept)
  /\ \A p \in Stack \ {Root} : psp[p].parent \in Stack /\ psp[p].parent # Top
  /\ \A p, q \in Stack \ {Root} : psp[p].parent = psp[q].parent => p = q

\* A process has its own block, or one of its parent's (INT 21h/55h).
MemInv ==
  /\ \A b \in Segs : owner[b] # None => owner[b] \in alive \cup ghosts
  /\ \A p \in alive : owner[p] = p \/ (p \in Stack \ {Root} /\ owner[p] = psp[p].parent)
  /\ \A g \in ghosts : owner[g] = g /\ g \notin alive

ExecPcs == {"header", "env", "mem", "read", "close", "start", "giveup", "small", "finish"}

\* A block EXEC took and nobody else uses.
Taken(b) == b \in Segs /\ owner[b] = cu_psp /\ b \notin alive \cup ghosts

\* The file of EXEC is nobody else's, and open until EXEC closes it.
ExecInv ==
  /\ pc # "user" => under = None
  /\ pc \in {"user", "abort"} => x = NoExec
  /\ pc \in ExecPcs => x.fd \in Sfts /\ sft[x.fd].count \in 0..1
  /\ pc \in {"header", "env", "mem", "read", "close", "giveup"} => sft[x.fd].count = 1
  /\ pc \in ExecPcs /\ x.mode = "overlay" => x.env = None /\ x.mem = None
  /\ pc \in {"env", "mem", "start"} => x.mode # "overlay"
  /\ pc \in {"mem", "read", "close", "start"} /\ x.mode # "overlay" => Taken(x.env)
  /\ pc \in {"read", "close", "start"} /\ x.mode # "overlay" => Taken(x.mem) /\ x.mem # x.env

RefInv ==
  /\ \A p \in alive, h \in Handle : h >= psp[p].size => psp[p].ps_filetab[h] = NoFile
  /\ \A p \in Segs \ alive : fcbs[p] = {}
  /\ \A p \in alive, h \in Handle :
       psp[p].ps_filetab[h] # NoFile => ~sft[psp[p].ps_filetab[h]].fcb
  /\ \A p \in alive, i \in Sfts : i \in fcbs[p] => sft[i].fcb /\ sft[i].psp = p

Inv == TypeOK /\ StackInv /\ MemInv /\ ExecInv /\ RefInv /\ CountsMatch /\ NoInherit

\* What EXEC has changed so far since it looked.
UndoInv ==
  pc \in {"header", "env", "mem", "read", "giveup"} =>
    LET o == x.found[1]
        g == x.found[2] IN
    /\ x.found = <<o, g>> /\ o \in [Segs -> Segs \cup {None}] /\ g \in [Sfts -> Int]
    /\ sft[x.fd].count = 1
    /\ Held = [i \in Sfts |-> IF i = x.fd THEN g[i] + 1 ELSE g[i]]
    /\ pc \in {"header", "env", "giveup"} => owner = o
    /\ pc \in {"header", "env"} \/ (pc = "read" /\ x.mode = "overlay") => x.env = None /\ x.mem = None
    /\ pc = "mem" => o[x.env] = None /\ x.mem = None /\ owner = [o EXCEPT ![x.env] = cu_psp]
    /\ pc = "read" => IF x.mode = "overlay" THEN owner = o
                      ELSE /\ o[x.env] = None /\ o[x.mem] = None
                           /\ owner = [o EXCEPT ![x.env] = cu_psp, ![x.mem] = cu_psp]

-----------------------------------------------------------------------------
(* Counting references.                                                    *)

Cells(t, S, i) == {h \in S : t[h] = i}
Refs(P, A, i) == {r \in A \X Handle : P[r[1]].ps_filetab[r[2]] = i}
Holders(f, A, i) == {p \in A : i \in f[p]}
Is(a, i) == IF a = i THEN 1 ELSE 0
In(i, S) == IF i \in S THEN 1 ELSE 0

\* Two tables that differ in one handle; processes that keep their tables.
AllBut(t, u, h) == \A g \in Handle \ {h} : u[g] = t[g]
KeepTables(P, Q, A) == \A q \in A : P[q].ps_filetab = Q[q].ps_filetab
OthersHold(f, g, A, p) == \A q \in A \ {p} : g[q] = f[q]
OthersKeep(P, Q, A, p) == KeepTables(P, Q, A \ {p})

LEMMA HandlesFinite == IsFiniteSet(Handle)
  BY HandlesAssumption, FS_Interval DEF Handle

LEMMA CellsCount ==
  ASSUME NEW t, NEW S, S \subseteq Handle, NEW i
  PROVE  IsFiniteSet(Cells(t, S, i)) /\ Cardinality(Cells(t, S, i)) \in Nat
  BY HandlesFinite, FS_Subset, FS_CardinalityType DEF Cells

\* A table in two parts.
LEMMA CellsSplit ==
  ASSUME NEW t, NEW S, S \subseteq Handle, NEW T, T \subseteq S, NEW i
  PROVE  Cardinality(Cells(t, S, i)) = Cardinality(Cells(t, T, i)) + Cardinality(Cells(t, S \ T, i))
<1>1. Cells(t, S, i) \cap Cells(t, T, i) = Cells(t, T, i) /\ Cells(t, S, i) \ Cells(t, T, i) = Cells(t, S \ T, i)
  BY DEF Cells
<1> DEFINE A == Cells(t, S, i)
           B == Cells(t, T, i)
<1>2. IsFiniteSet(A)
  BY CellsCount
<1>3. Cardinality(A) = Cardinality(A \cap B) + Cardinality(A \ B)
  BY ONLY <1>2, SplitCount
<1> QED
  BY <1>1, <1>3

LEMMA CellsSame ==
  ASSUME NEW t, NEW u, NEW S, NEW i, \A h \in S : t[h] = i <=> u[h] = i
  PROVE  Cells(t, S, i) = Cells(u, S, i)
  BY DEF Cells

LEMMA CellOne ==
  ASSUME NEW t, NEW h, NEW i
  PROVE  Cardinality(Cells(t, {h}, i)) = Is(t[h], i)
<1>1. CASE t[h] = i
  <2>1. Cells(t, {h}, i) = {h}
    BY <1>1 DEF Cells
  <2> QED
    BY <1>1, <2>1, FS_Singleton DEF Is
<1>2. CASE t[h] # i
  <2>1. Cells(t, {h}, i) = {}
    BY <1>2 DEF Cells
  <2> QED
    BY <1>2, <2>1, FS_EmptySet DEF Is
<1> QED
  BY <1>1, <1>2

\* Setting one handle.
LEMMA CellSet ==
  ASSUME NEW t, NEW u, NEW h \in Handle, NEW i, AllBut(t, u, h)
  PROVE  Cardinality(Cells(u, Handle, i))
           = Cardinality(Cells(t, Handle, i)) - Is(t[h], i) + Is(u[h], i)
<1> DEFINE R == Handle \ {h}
<1>1. Cells(u, R, i) = Cells(t, R, i)
  BY CellsSame DEF AllBut
<1>2. /\ Cardinality(Cells(u, Handle, i)) = Cardinality(Cells(u, {h}, i)) + Cardinality(Cells(u, R, i))
      /\ Cardinality(Cells(t, Handle, i)) = Cardinality(Cells(t, {h}, i)) + Cardinality(Cells(t, R, i))
  BY CellsSplit
<1>3. Cardinality(Cells(t, R, i)) \in Nat
  BY CellsCount
<1>4. /\ Cardinality(Cells(u, {h}, i)) = Is(u[h], i)
      /\ Cardinality(Cells(t, {h}, i)) = Is(t[h], i)
  BY CellOne
<1>5. Is(u[h], i) \in Nat /\ Is(t[h], i) \in Nat
  BY DEF Is
<1> HIDE DEF R
<1> QED
  BY <1>1, <1>2, <1>3, <1>4, <1>5

LEMMA RefsCount ==
  ASSUME NEW P, NEW A, A \subseteq Segs, NEW i
  PROVE  IsFiniteSet(Refs(P, A, i)) /\ Cardinality(Refs(P, A, i)) \in Nat
<1>1. IsFiniteSet(A \X Handle)
  BY HandlesAssumption, HandlesFinite, FS_Subset, FS_Product
<1> QED
  BY <1>1, FS_Subset, FS_CardinalityType DEF Refs

LEMMA HoldersCount ==
  ASSUME NEW f, NEW A, A \subseteq Segs, NEW i
  PROVE  IsFiniteSet(Holders(f, A, i)) /\ Cardinality(Holders(f, A, i)) \in Nat
  BY HandlesAssumption, FS_Subset, FS_CardinalityType DEF Holders

LEMMA RefsSame ==
  ASSUME NEW P, NEW Q, NEW A, NEW i, \A p \in A : P[p].ps_filetab = Q[p].ps_filetab
  PROVE  Refs(P, A, i) = Refs(Q, A, i)
  BY DEF Refs

\* The references of one process and those of the others.
LEMMA RefsSplit ==
  ASSUME NEW P, NEW A, A \subseteq Segs, NEW p \in A, NEW i
  PROVE  Cardinality(Refs(P, A, i))
           = Cardinality(Refs(P, A \ {p}, i)) + Cardinality(Cells(P[p].ps_filetab, Handle, i))
<1> DEFINE R == {p} \X Cells(P[p].ps_filetab, Handle, i)
<1>1. Refs(P, A, i) \cap R = R
  BY DEF Refs, Cells
<1>2. Refs(P, A, i) \ R = Refs(P, A \ {p}, i)
  BY DEF Refs, Cells
<1>3. IsFiniteSet(Refs(P, A, i))
  BY RefsCount
<1>4. /\ Cardinality(Refs(P, A, i)) = Cardinality(Refs(P, A, i) \cap R) + Cardinality(Refs(P, A, i) \ R)
      /\ Cardinality(Refs(P, A, i) \cap R) \in Nat /\ Cardinality(Refs(P, A, i) \ R) \in Nat
  BY <1>3, SplitCount, Zenon
<1>5. Cardinality(R) = Cardinality(Cells(P[p].ps_filetab, Handle, i))
  BY CellsCount, PairCount
<1>6. Cardinality(Refs(P, A, i)) = Cardinality(R) + Cardinality(Refs(P, A \ {p}, i))
          /\ Cardinality(R) \in Nat /\ Cardinality(Refs(P, A \ {p}, i)) \in Nat
  BY <1>1, <1>2, <1>4, Zenon
<1> HIDE DEF R
<1> QED
  BY <1>5, <1>6

\* One handle of one process is set.
LEMMA RefsSet ==
  ASSUME NEW P, NEW Q, NEW A, A \subseteq Segs, NEW p \in A, NEW h \in Handle, NEW i,
         OthersKeep(P, Q, A, p), AllBut(P[p].ps_filetab, Q[p].ps_filetab, h)
  PROVE  Cardinality(Refs(Q, A, i)) = Cardinality(Refs(P, A, i))
            - Is(P[p].ps_filetab[h], i) + Is(Q[p].ps_filetab[h], i)
<1> DEFINE B == A \ {p}
           t == P[p].ps_filetab
           u == Q[p].ps_filetab
<1>1. Refs(P, B, i) = Refs(Q, B, i) /\ Cardinality(Refs(P, B, i)) \in Nat
  BY RefsSame, RefsCount DEF KeepTables, OthersKeep
<1>2. /\ Cardinality(Refs(P, A, i)) = Cardinality(Refs(P, B, i)) + Cardinality(Cells(t, Handle, i))
      /\ Cardinality(Refs(Q, A, i)) = Cardinality(Refs(Q, B, i)) + Cardinality(Cells(u, Handle, i))
  BY RefsSplit
<1>3. Cardinality(Cells(u, Handle, i)) = Cardinality(Cells(t, Handle, i)) - Is(t[h], i) + Is(u[h], i)
  BY CellSet
<1>4. Cardinality(Cells(t, Handle, i)) \in Nat /\ Is(u[h], i) \in Nat /\ Is(t[h], i) \in Nat
  BY CellsCount DEF Is
<1>5. Cardinality(Refs(Q, A, i)) = Cardinality(Refs(P, A, i)) - Is(t[h], i) + Is(u[h], i)
  <2> HIDE DEF B, t, u
  <2> QED
    BY <1>1, <1>2, <1>3, <1>4
<1> QED
  BY <1>5

\* The whole table of one process changes.
LEMMA RefsTable ==
  ASSUME NEW P, NEW Q, NEW A, A \subseteq Segs, NEW p \in A, NEW i, OthersKeep(P, Q, A, p)
  PROVE  Cardinality(Refs(Q, A, i)) - Cardinality(Refs(P, A, i))
           = Cardinality(Cells(Q[p].ps_filetab, Handle, i)) - Cardinality(Cells(P[p].ps_filetab, Handle, i))
<1> DEFINE B == A \ {p}
           t == P[p].ps_filetab
           u == Q[p].ps_filetab
<1>1. Refs(P, B, i) = Refs(Q, B, i) /\ Cardinality(Refs(P, B, i)) \in Nat
  BY RefsSame, RefsCount DEF KeepTables, OthersKeep
<1>2. /\ Cardinality(Refs(P, A, i)) = Cardinality(Refs(P, B, i)) + Cardinality(Cells(t, Handle, i))
      /\ Cardinality(Refs(Q, A, i)) = Cardinality(Refs(Q, B, i)) + Cardinality(Cells(u, Handle, i))
  BY RefsSplit
<1>3. Cardinality(Cells(t, Handle, i)) \in Nat /\ Cardinality(Cells(u, Handle, i)) \in Nat
  BY CellsCount
<1> HIDE DEF B, t, u
<1>4. Cardinality(Refs(Q, A, i)) - Cardinality(Refs(P, A, i)) = Cardinality(Cells(u, Handle, i)) - Cardinality(Cells(t, Handle, i))
  BY <1>1, <1>2, <1>3
<1> QED
  BY <1>4 DEF t, u

\* A process more.
LEMMA RefsAdd ==
  ASSUME NEW P, NEW Q, NEW A, A \subseteq Segs, NEW b \in Segs \ A, NEW i, KeepTables(P, Q, A)
  PROVE  Cardinality(Refs(Q, A \cup {b}, i))
           = Cardinality(Refs(P, A, i)) + Cardinality(Cells(Q[b].ps_filetab, Handle, i))
<1> DEFINE B == A \cup {b}
<1>1. B \ {b} = A /\ B \subseteq Segs /\ b \in B
  OBVIOUS
<1>2. Cardinality(Refs(Q, B, i)) = Cardinality(Refs(Q, B \ {b}, i)) + Cardinality(Cells(Q[b].ps_filetab, Handle, i))
  <2> HIDE DEF B
  <2> QED
    BY <1>1, RefsSplit
<1>3. Refs(P, A, i) = Refs(Q, A, i)
  BY RefsSame DEF KeepTables
<1> QED
  BY <1>1, <1>2, <1>3, Zenon

\* Nobody refers to an entry with no references.
LEMMA NoRefs ==
  ASSUME NEW P, NEW A, A \subseteq Segs, NEW i, Cardinality(Refs(P, A, i)) = 0
  PROVE  \A p \in A, h \in Handle : P[p].ps_filetab[h] # i
<1>1. Refs(P, A, i) = {}
  BY RefsCount, NoneCounted
<1> SUFFICES ASSUME NEW p \in A, NEW h \in Handle, P[p].ps_filetab[h] = i
             PROVE  FALSE
  OBVIOUS
<1>2. <<p, h>> \in Refs(P, A, i)
  BY DEF Refs
<1> QED
  BY <1>1, <1>2

LEMMA NoHolders ==
  ASSUME NEW f, NEW A, A \subseteq Segs, NEW i, Cardinality(Holders(f, A, i)) = 0
  PROVE  \A p \in A : i \notin f[p]
<1>1. Holders(f, A, i) = {}
  BY HoldersCount, NoneCounted
<1> QED
  BY <1>1 DEF Holders

\* The FCB references of one process and those of the others.
LEMMA HoldersSplit ==
  ASSUME NEW f, NEW A, A \subseteq Segs, NEW p \in A, NEW i
  PROVE  Cardinality(Holders(f, A, i)) = Cardinality(Holders(f, A \ {p}, i)) + In(i, f[p])
<1>1. Holders(f, A \ {p}, i) = Holders(f, A, i) \ {p}
  BY DEF Holders
<1>2. p \in Holders(f, A, i) <=> i \in f[p]
  BY DEF Holders
<1>3. Cardinality(Holders(f, A, i)) \in Nat /\ IsFiniteSet(Holders(f, A, i))
  BY HoldersCount
<1>4. Cardinality(Holders(f, A, i) \ {p}) = IF p \in Holders(f, A, i) THEN Cardinality(Holders(f, A, i)) - 1
                                            ELSE Cardinality(Holders(f, A, i))
  BY <1>3, FS_RemoveElement
<1>5. Cardinality(Holders(f, A \ {p}, i)) = IF i \in f[p] THEN Cardinality(Holders(f, A, i)) - 1
                                             ELSE Cardinality(Holders(f, A, i))
  BY <1>1, <1>2, <1>4, Zenon
<1> QED
  BY <1>3, <1>5 DEF In

\* The FCBs of one process change.
LEMMA HoldersSet ==
  ASSUME NEW f, NEW g, NEW A, A \subseteq Segs, NEW p \in A, NEW i, OthersHold(f, g, A, p)
  PROVE  Cardinality(Holders(g, A, i)) = Cardinality(Holders(f, A, i)) - In(i, f[p]) + In(i, g[p])
<1>1. Holders(f, A \ {p}, i) = Holders(g, A \ {p}, i)
  BY DEF Holders, OthersHold
<1>2. Cardinality(Holders(f, A \ {p}, i)) \in Nat /\ In(i, f[p]) \in Nat /\ In(i, g[p]) \in Nat
  BY HoldersCount DEF In
<1>3. /\ Cardinality(Holders(f, A, i)) = Cardinality(Holders(f, A \ {p}, i)) + In(i, f[p])
      /\ Cardinality(Holders(g, A, i)) = Cardinality(Holders(g, A \ {p}, i)) + In(i, g[p])
  BY HoldersSplit
<1> QED
  BY <1>1, <1>2, <1>3

-----------------------------------------------------------------------------
(* What the invariant says of a state.                                     *)

Entry == [count : Nat, kind : {"file", "device"}, psp : Segs \cup {None},
          fcb : BOOLEAN, noinherit : BOOLEAN]
Same(e, d) == e.kind = d.kind /\ e.psp = d.psp /\ e.fcb = d.fcb /\ e.noinherit = d.noinherit
Psp == [parent : Segs \cup {None}, ps_filetab : [Handle -> Sfts \cup {NoFile}],
        size : 0..MaxFiles, ps_maxfiles : 0..MaxFiles]

LEMMA Sizes == /\ NSft \in Nat \ {0} /\ StdFiles \in Nat \ {0} /\ MaxFiles \in Nat /\ StdFiles <= MaxFiles
               /\ Sfts \subseteq Nat /\ NoFile \notin Sfts
  BY HandlesAssumption DEF Sfts, NoFile

\* The program that is running is a process.
LEMMA Running ==
  ASSUME Inv
  PROVE  /\ cu_psp \in alive /\ alive \subseteq Segs
         /\ Me \in Psp /\ Me.ps_maxfiles <= Me.size
  BY DEF Inv, TypeOK, StackInv, Stack, Top, Me, Psp

\* The counts, for one entry.
LEMMA Counts ==
  ASSUME Inv, NEW i \in Sfts
  PROVE  /\ sft[i].count = Cardinality(Refs(psp, alive, i)) + Cardinality(Holders(fcbs, alive, i))
                            + ExecRef(i) + lost[i]
         /\ sft[i].count \in Nat /\ lost[i] \in Nat /\ ExecRef(i) \in 0..1
         /\ Cardinality(Refs(psp, alive, i)) \in Nat /\ Cardinality(Holders(fcbs, alive, i)) \in Nat
<1>1. Cardinality(Refs(psp, alive, i)) \in Nat /\ Cardinality(Holders(fcbs, alive, i)) \in Nat
  BY Running, RefsCount, HoldersCount
<1>2. sft[i].count \in Nat /\ lost[i] \in Nat /\ ExecRef(i) \in 0..1
  BY DEF Inv, TypeOK, ExecRef
<1>3. JftRefs(i) = Refs(psp, alive, i) /\ FcbRefs(i) = Holders(fcbs, alive, i)
  BY DEF JftRefs, FcbRefs, Refs, Holders
<1> QED
  BY <1>1, <1>2, <1>3, Zenon DEF Inv, CountsMatch

\* An entry that counts no references has none.
LEMMA Unreferenced ==
  ASSUME Inv, NEW i \in Sfts, sft[i].count = 0
  PROVE  /\ lost[i] = 0 /\ ExecRef(i) = 0
         /\ Cardinality(Refs(psp, alive, i)) = 0 /\ Cardinality(Holders(fcbs, alive, i)) = 0
         /\ \A p \in alive, h \in Handle : psp[p].ps_filetab[h] # i
         /\ \A p \in alive : i \notin fcbs[p]
<1>1. /\ lost[i] = 0 /\ ExecRef(i) = 0
      /\ Cardinality(Refs(psp, alive, i)) = 0 /\ Cardinality(Holders(fcbs, alive, i)) = 0
  BY Counts
<1> QED
  BY <1>1, Running, NoRefs, NoHolders

\* get_free_sft finds an entry nobody refers to.
LEMMA FreeEntry ==
  ASSUME Inv, FreeSfts # {}
  PROVE  get_free_sft \in Sfts /\ sft[get_free_sft].count = 0
  BY Sizes, MinIn DEF FreeSfts, get_free_sft

\* get_free_hndl finds a handle that is not open.
LEMMA FreeHandle ==
  ASSUME Inv, FreeHandles # {}
  PROVE  /\ get_free_hndl \in Handle /\ get_free_hndl < Me.ps_maxfiles
         /\ Me.ps_filetab[get_free_hndl] = NoFile
<1>1. Me.ps_maxfiles \in 0..MaxFiles
  BY Running DEF Psp
<1>2. get_free_hndl \in FreeHandles
  BY <1>1, MinIn DEF FreeHandles, get_free_hndl
<1> QED
  BY <1>1, <1>2, Sizes DEF FreeHandles, Handle

\* A handle that is open names an entry that is in use.
LEMMA OpenHandle ==
  ASSUME Inv, NEW h \in Handle, IsOpen(h)
  PROVE  Me.ps_filetab[h] \in Sfts /\ sft[Me.ps_filetab[h]].count > 0 /\ h < Me.ps_maxfiles
  BY Running DEF IsOpen, Psp

\* Entries of the table that are in use are left alone by Tidy.
LEMMA Tidied ==
  ASSUME NEW s \in [Sfts -> Entry]
  PROVE  /\ Tidy(s) \in [Sfts -> Entry]
         /\ \A i \in Sfts : /\ Tidy(s)[i].count = s[i].count
                            /\ s[i].count # 0 => Tidy(s)[i] = s[i]
                            /\ s[i].count = 0 => Tidy(s)[i] = NoEntry
  BY DEF Tidy, NoEntry, Entry

\* t is s with n more references to i.
Counted(t, s, i, n) ==
  /\ t \in [Sfts -> Entry]
  /\ \A k \in Sfts : /\ t[k].count = IF k = i THEN s[k].count + n ELSE s[k].count
                     /\ t[k].count # 0 => Same(t[k], s[k])

LEMMA Added ==
  ASSUME NEW s \in [Sfts -> Entry], NEW i \in Sfts, NEW n \in Int, s[i].count + n \in Nat
  PROVE  Counted(Add(s, i, n), s, i, n)
<1> DEFINE t == [s EXCEPT ![i].count = @ + n]
<1>1. /\ t \in [Sfts -> Entry]
      /\ \A k \in Sfts : /\ t[k].count = IF k = i THEN s[k].count + n ELSE s[k].count
                         /\ Same(t[k], s[k])
  BY DEF Entry, Same
<1>2. Add(s, i, n) = Tidy(t)
  BY DEF Add
<1> HIDE DEF t
<1>3. Tidy(t) \in [Sfts -> Entry] /\ \A k \in Sfts : /\ Tidy(t)[k].count = t[k].count
                                                     /\ t[k].count # 0 => Tidy(t)[k] = t[k]
  BY <1>1, Tidied, Zenon
<1> QED
  BY <1>1, <1>2, <1>3 DEF Counted

\* A close takes one reference away, or leaves the table alone.
LEMMA Closed ==
  ASSUME NEW s \in [Sfts -> Entry], NEW i \in Sfts, NEW out, s[i].count > 0
  PROVE  Counted(DosCloseSft(s, i, out), s, i, IF out = "ok" THEN -1 ELSE 0)
<1>1. \A k \in Sfts : s[k].count \in Nat
  BY DEF Entry
<1>2. CASE out = "ok"
  <2>1. Counted(Add(s, i, -1), s, i, -1)
    BY <1>1, Added
  <2> QED
    BY <1>2, <2>1 DEF DosCloseSft
<1>3. CASE out # "ok"
  BY <1>1, <1>3 DEF DosCloseSft, Same, Counted
<1> QED
  BY <1>2, <1>3

\* An open takes an entry and counts it, or leaves the table alone.
IsOpened(s, i, fcb, out) ==
  /\ s \in [Sfts -> Entry] /\ \A k \in Sfts \ {i} : s[k] = sft[k]
  /\ \/ out = "fail" /\ s = sft
     \/ s[i].count = 1 /\ s[i].psp = cu_psp /\ s[i].fcb = fcb
  /\ out = "ok" => s[i].count = 1

LEMMA Opened ==
  ASSUME Inv, FreeSfts # {}, NEW kind \in {"file", "device"}, NEW fcb \in BOOLEAN, NEW noinherit \in BOOLEAN,
         NEW out
  PROVE  IsOpened(DosOpenSft(kind, fcb, noinherit, out), get_free_sft, fcb, out)
<1> DEFINE i == get_free_sft
<1>1. i \in Sfts /\ sft \in [Sfts -> Entry] /\ cu_psp \in Segs
  BY FreeEntry DEF Inv, TypeOK, Entry
<1> HIDE DEF i
<1>2. i = get_free_sft
  BY DEF i
<1>3. [count |-> 1, kind |-> kind, psp |-> cu_psp, fcb |-> fcb, noinherit |-> noinherit] \in Entry
  BY <1>1 DEF Entry
<1> QED
  BY <1>1, <1>2, <1>3 DEF DosOpenSft, IsOpened

Fits(P) == \A p \in Segs : P[p].ps_maxfiles <= P[p].size

\* Setting one handle of one process.
SetHandle(P, p, h, v) == [P EXCEPT ![p].ps_filetab[h] = v]

LEMMA HandleSet ==
  ASSUME NEW P \in [Segs -> Psp], NEW p \in Segs, NEW h \in Handle, NEW v \in Sfts \cup {NoFile}
  PROVE  /\ SetHandle(P, p, h, v) \in [Segs -> Psp]
         /\ Fits(P) => Fits(SetHandle(P, p, h, v))
         /\ \A q \in Segs : /\ SetHandle(P, p, h, v)[q].parent = P[q].parent
                            /\ SetHandle(P, p, h, v)[q].size = P[q].size
                            /\ SetHandle(P, p, h, v)[q].ps_maxfiles = P[q].ps_maxfiles
                            /\ q # p => SetHandle(P, p, h, v)[q] = P[q]
         /\ \A g \in Handle : SetHandle(P, p, h, v)[p].ps_filetab[g] = IF g = h THEN v ELSE P[p].ps_filetab[g]
<1> DEFINE r == [P[p] EXCEPT !.ps_filetab = [@ EXCEPT ![h] = v]]
<1>1. P[p] \in Psp
  OBVIOUS
<1>2. [P[p].ps_filetab EXCEPT ![h] = v] \in [Handle -> Sfts \cup {NoFile}]
  BY <1>1 DEF Psp
<1>3. /\ r \in Psp /\ r.parent = P[p].parent /\ r.size = P[p].size /\ r.ps_maxfiles = P[p].ps_maxfiles
      /\ r.ps_filetab = [P[p].ps_filetab EXCEPT ![h] = v]
  BY <1>1, <1>2 DEF Psp
<1>4. SetHandle(P, p, h, v) = [P EXCEPT ![p] = r]
  BY DEF SetHandle
<1>5. \A g \in Handle : r.ps_filetab[g] = IF g = h THEN v ELSE P[p].ps_filetab[g]
  BY <1>1, <1>3 DEF Psp
<1>6. Fits(P) => Fits(SetHandle(P, p, h, v))
  <2>1. \A q \in Segs : P[q].ps_maxfiles \in Int /\ P[q].size \in Int
    BY DEF Psp
  <2> HIDE DEF r
  <2> QED
    BY <2>1, <1>3, <1>4 DEF Fits
<1> HIDE DEF r
<1> QED
  BY <1>3, <1>4, <1>5, <1>6

\* References that are forgotten.
More(l, i, n) == [l EXCEPT ![i] = @ + n]

LEMMA Forgotten ==
  ASSUME NEW l \in [Sfts -> Nat], NEW i \in Sfts, NEW n \in Nat
  PROVE  /\ More(l, i, n) \in [Sfts -> Nat]
         /\ \A k \in Sfts : More(l, i, n)[k] = IF k = i THEN l[k] + n ELSE l[k]
  BY DEF More

-----------------------------------------------------------------------------
(* Types.                                                                  *)

Exec == [fd : Sfts \cup {NoFile}, format : {"com", "exe"},
         mode : {"run", "load", "overlay"}, env : Segs \cup {None}, mem : Segs \cup {None},
         found : {<<>>} \cup ([Segs -> Segs \cup {None}] \X [Sfts -> Int])]

Types ==
  /\ owner \in [Segs -> Segs \cup {None}]
  /\ cu_psp \in Segs /\ under \in Segs \cup {None}
  /\ psp \in [Segs -> Psp]
  /\ Fits(psp)
  /\ sft \in [Sfts -> Entry]
  /\ pc \in {"user", "abort"} \cup ExecPcs
  /\ x \in Exec
  /\ alive \subseteq Segs /\ kept \subseteq alive /\ ghosts \subseteq Segs
  /\ fcbs \in [Segs -> SUBSET Sfts] /\ lost \in [Sfts -> Nat]

LEMMA SameTypes == (TypeOK <=> Types) /\ (TypeOK' <=> Types')
<1>1. TypeOK <=> Types
  BY Zenon DEF TypeOK, Types, Psp, Entry, Exec, ExecPcs, Fits
<1>2. TypeOK' <=> Types'
  BY Zenon DEF TypeOK, Types, Psp, Entry, Exec, ExecPcs, Fits
<1> QED
  BY <1>1, <1>2

LEMMA Nothing == NoEntry \in Entry /\ NoPsp \in Psp /\ NoExec \in Exec
  BY Sizes DEF NoEntry, Entry, NoPsp, Psp, NoExec, Exec

LEMMA TypeInit == Init => Types
<1> SUFFICES ASSUME Init PROVE Types
  OBVIOUS
<1>1. [NoPsp EXCEPT !.parent = Root, !.size = StdFiles, !.ps_maxfiles = StdFiles] \in Psp
  <2>1. StdFiles \in 0..MaxFiles /\ Root \in Segs
    BY HandlesAssumption, Sizes
  <2> QED
    BY <2>1, Nothing DEF Psp
<1>2. psp \in [Segs -> Psp]
  BY <1>1, Nothing DEF Init
<1>3. Fits(psp)
  BY Sizes DEF Init, NoPsp, Fits
<1> QED
  BY <1>2, <1>3, HandlesAssumption, Nothing DEF Init, Types

-----------------------------------------------------------------------------
(* What the actions have in common.                                        *)

\* The counts after a step.
LEMMA CountsNext ==
  ASSUME \A i \in Sfts : sft'[i].count = Cardinality(Refs(psp', alive', i)) + Cardinality(Holders(fcbs', alive', i))
                                         + ExecRef(i)' + lost'[i]
  PROVE  CountsMatch'
<1>1. \A i \in Sfts : JftRefs(i)' = Refs(psp', alive', i) /\ FcbRefs(i)' = Holders(fcbs', alive', i)
  BY DEF JftRefs, FcbRefs, Refs, Holders
<1> QED
  BY <1>1, Zenon DEF CountsMatch

LEMMA InUse ==
  ASSUME Types', CountsMatch', NEW i \in Sfts, sft'[i].count = 0
  PROVE  /\ \A p \in alive', h \in Handle : psp'[p].ps_filetab[h] # i
         /\ \A p \in alive' : i \notin fcbs'[p]
<1>1. alive' \subseteq Segs /\ lost'[i] \in Nat /\ ExecRef(i)' \in 0..1
  BY DEF Types, ExecRef
<1>2. Cardinality(Refs(psp', alive', i)) \in Nat /\ Cardinality(Holders(fcbs', alive', i)) \in Nat
  BY <1>1, RefsCount, HoldersCount
<1>3. JftRefs(i)' = Refs(psp', alive', i) /\ FcbRefs(i)' = Holders(fcbs', alive', i)
  BY DEF JftRefs, FcbRefs, Refs, Holders
<1>4. 0 = Cardinality(Refs(psp', alive', i)) + Cardinality(Holders(fcbs', alive', i)) + ExecRef(i)' + lost'[i]
  BY <1>3, Zenon DEF CountsMatch
<1>5. Cardinality(Refs(psp', alive', i)) = 0 /\ Cardinality(Holders(fcbs', alive', i)) = 0
  BY <1>1, <1>2, <1>4
<1> QED
  BY <1>1, <1>5, NoRefs, NoHolders

\* What a process holds after a step it held before, or had from another
\* process that may give it away, or has just opened.
LEMMA StillPrivate ==
  ASSUME Inv, Types', CountsMatch',
         \A i \in Sfts : sft[i].count # 0 /\ sft'[i].count # 0 => Same(sft'[i], sft[i]),
         \A p \in alive', h \in Handle :
           psp'[p].ps_filetab[h] # NoFile =>
             \/ \E q \in alive, g \in Handle :
                  /\ psp'[p].ps_filetab[h] = psp[q].ps_filetab[g]
                  /\ p = q \/ ~sft[psp[q].ps_filetab[g]].noinherit
             \/ sft'[psp'[p].ps_filetab[h]].psp = p /\ ~sft'[psp'[p].ps_filetab[h]].fcb,
         \A p \in alive', h \in Handle : h >= psp'[p].size => psp'[p].ps_filetab[h] = NoFile,
         \A p \in Segs \ alive' : fcbs'[p] = {},
         \A p \in alive', i \in Sfts : i \in fcbs'[p] =>
           (p \in alive /\ i \in fcbs[p]) \/ (sft'[i].fcb /\ sft'[i].psp = p)
  PROVE  RefInv' /\ NoInherit'
<1>1. ASSUME NEW p \in alive', NEW h \in Handle, psp'[p].ps_filetab[h] # NoFile
      PROVE  /\ ~sft'[psp'[p].ps_filetab[h]].fcb
             /\ sft'[psp'[p].ps_filetab[h]].noinherit => p = sft'[psp'[p].ps_filetab[h]].psp
  <2> DEFINE e == psp'[p].ps_filetab[h]
  <2>1. e \in Sfts
    BY <1>1 DEF Types, Psp
  <2>2. sft'[e].count # 0
    BY <2>1, InUse
  <2>3. CASE \E q \in alive, g \in Handle : e = psp[q].ps_filetab[g] /\ (p = q \/ ~sft[psp[q].ps_filetab[g]].noinherit)
    <3>1. PICK q \in alive, g \in Handle : e = psp[q].ps_filetab[g] /\ (p = q \/ ~sft[e].noinherit)
      BY <2>3
    <3>2. sft[e].count # 0
      BY <2>1, <3>1, Unreferenced
    <3>3. Same(sft'[e], sft[e])
      BY <2>1, <2>2, <3>2
    <3>4. ~sft[e].fcb /\ (sft[e].noinherit => q = sft[e].psp)
      <4>1. psp[q].ps_filetab[g] # NoFile
        BY <1>1, <3>1
      <4>2. ~sft[psp[q].ps_filetab[g]].fcb
        BY <4>1 DEF Inv, RefInv
      <4>3. sft[psp[q].ps_filetab[g]].noinherit => q = sft[psp[q].ps_filetab[g]].psp
        BY <4>1 DEF Inv, NoInherit
      <4> QED
        BY <3>1, <4>2, <4>3
    <3> QED
      BY <3>1, <3>3, <3>4 DEF Same
  <2>4. CASE sft'[e].psp = p /\ ~sft'[e].fcb
    BY <2>4
  <2> QED
    BY <1>1, <2>3, <2>4
<1>2. ASSUME NEW p \in alive', NEW i \in Sfts, i \in fcbs'[p]
      PROVE  sft'[i].fcb /\ sft'[i].psp = p
  <2>1. sft'[i].count # 0
    BY <1>2, InUse
  <2>2. CASE p \in alive /\ i \in fcbs[p]
    <3>1. sft[i].count # 0
      BY <2>2, Unreferenced
    <3>2. sft[i].fcb /\ sft[i].psp = p
      BY <2>2 DEF Inv, RefInv
    <3> QED
      BY <2>1, <3>1, <3>2 DEF Same
  <2> QED
    BY <1>2, <2>2
<1> QED
  BY <1>1, <1>2 DEF RefInv, NoInherit

\* What a call that is about files only does: its effect on the counts is its
\* effect on the references, entries in use are otherwise left alone, and
\* handles and FCBs name what they named or what was opened for them.
Reckons(i) ==
  sft'[i].count - sft[i].count =
      Cardinality(Refs(psp', alive, i)) - Cardinality(Refs(psp, alive, i))
      + (Cardinality(Holders(fcbs', alive, i)) - Cardinality(Holders(fcbs, alive, i)))
      + (lost'[i] - lost[i])
Reckoned == \A i \in Sfts : Reckons(i)
EntriesKept == \A i \in Sfts : sft[i].count # 0 /\ sft'[i].count # 0 => Same(sft'[i], sft[i])
OwnTables ==
  \A p \in alive, h \in Handle :
    psp'[p].ps_filetab[h] # NoFile =>
      \/ \E g \in Handle : psp'[p].ps_filetab[h] = psp[p].ps_filetab[g]
      \/ sft'[psp'[p].ps_filetab[h]].psp = p /\ ~sft'[psp'[p].ps_filetab[h]].fcb
Sized == \A p \in alive, h \in Handle : h >= psp[p].size => psp[p].ps_filetab[h] = NoFile
OwnFcbs ==
  /\ \A p \in Segs \ alive : fcbs'[p] = {}
  /\ \A p \in alive, i \in Sfts : i \in fcbs'[p] => i \in fcbs[p] \/ (sft'[i].fcb /\ sft'[i].psp = p)

Takes == UNCHANGED owner \/ \E b \in Free : owner' = [owner EXCEPT ![b] = cu_psp]

\* A free block is no process's.
LEMMA FreeBlock ==
  ASSUME Inv, NEW b \in Free
  PROVE  b \in Segs /\ owner[b] = None /\ b \notin alive \cup ghosts
<1>1. b \in Segs /\ owner[b] = None
  BY DEF Free
<1>2. alive \subseteq Segs /\ ghosts \subseteq Segs /\ None \notin Segs
  BY HandlesAssumption DEF Inv, TypeOK
<1>3. ASSUME b \in alive PROVE FALSE
  <2>1. owner[b] = b \/ (b \in Stack \ {Root} /\ owner[b] = psp[b].parent)
    BY <1>3 DEF Inv, MemInv
  <2>2. b \in Stack \ {Root} => psp[b].parent \in Stack
    BY DEF Inv, StackInv
  <2>3. Stack \subseteq Segs
    BY <1>2 DEF Stack
  <2> QED
    BY <1>1, <1>2, <2>1, <2>2, <2>3
<1>4. ASSUME b \in ghosts PROVE FALSE
  <2>1. owner[b] = b
    BY <1>4 DEF Inv, MemInv
  <2> QED
    BY <1>1, <1>2, <2>1
<1> QED
  BY <1>1, <1>3, <1>4

LEMMA FileCall ==
  ASSUME Inv, pc = "user", Types', UNCHANGED <<cu_psp, under, x, alive, kept, ghosts>>, Takes,
         pc' \in {"user", "abort"}, pc' = "abort" => under = None,
         \A p \in Segs : psp'[p].parent = psp[p].parent,
         Reckoned, EntriesKept, OwnTables, Sized', OwnFcbs
  PROVE  Inv'
<1>1. TypeOK'
  BY SameTypes
<1>2. x = NoExec
  BY DEF Inv, ExecInv
<1>a. Stack' = Stack /\ Top' = Top /\ Stack \subseteq Segs /\ Stack \subseteq alive
      /\ \A p \in Segs : psp'[p].parent = psp[p].parent
  BY Running DEF Stack, Top
<1>3. StackInv'
  <2>1. StackInv /\ Root \in Segs
    BY HandlesAssumption DEF Inv
  <2> QED
    BY <2>1, <1>a DEF StackInv
<1>4. MemInv'
  <2>1. MemInv /\ owner \in [Segs -> Segs \cup {None}] /\ alive \subseteq Segs /\ ghosts \subseteq Segs
        /\ cu_psp \in alive
    BY Running DEF Inv, TypeOK
  <2>2. CASE UNCHANGED owner
    BY <2>1, <2>2, <1>a DEF MemInv
  <2>3. CASE \E b \in Free : owner' = [owner EXCEPT ![b] = cu_psp]
    <3>1. PICK b \in Free : owner' = [owner EXCEPT ![b] = cu_psp]
      BY <2>3
    <3>2. b \in Segs /\ b \notin alive \cup ghosts
      BY FreeBlock
    <3> QED
      BY <2>1, <3>1, <3>2, <1>a DEF MemInv
  <2> QED
    BY <2>2, <2>3 DEF Takes
<1>5. ExecInv'
  BY <1>2 DEF ExecInv, ExecPcs
<1>6. CountsMatch'
  <2>1. ASSUME NEW i \in Sfts
        PROVE  sft'[i].count = Cardinality(Refs(psp', alive', i)) + Cardinality(Holders(fcbs', alive', i))
                                         + ExecRef(i)' + lost'[i]
    <3>1. ExecRef(i) = 0 /\ ExecRef(i)' = 0
      BY <1>2, Sizes DEF ExecRef, NoExec
    <3> DEFINE r == Cardinality(Refs(psp, alive, i))
               r1 == Cardinality(Refs(psp', alive, i))
               f == Cardinality(Holders(fcbs, alive, i))
               f1 == Cardinality(Holders(fcbs', alive, i))
    <3>2. lost'[i] \in Nat /\ sft'[i].count \in Nat
      BY DEF Types, Entry
    <3>3. r1 \in Nat /\ f1 \in Nat /\ alive' = alive
      BY Running, RefsCount, HoldersCount
    <3>4. sft'[i].count - sft[i].count = r1 - r + (f1 - f) + (lost'[i] - lost[i])
      BY DEF Reckoned, Reckons
    <3>5. /\ sft[i].count = r + f + ExecRef(i) + lost[i] /\ r \in Nat /\ f \in Nat
          /\ sft[i].count \in Nat /\ lost[i] \in Nat
      BY Counts
    <3>6. sft'[i].count = r1 + f1 + ExecRef(i)' + lost'[i]
      <4> HIDE DEF r, r1, f, f1
      <4> QED
        BY <3>1, <3>2, <3>3, <3>4, <3>5
    <3> QED
      BY <3>3, <3>6, Zenon
  <2> QED
    BY <2>1, CountsNext
<1>7. RefInv' /\ NoInherit'
  BY <1>6, StillPrivate DEF EntriesKept, OwnTables, Sized, OwnFcbs
<1> QED
  BY <1>1, <1>3, <1>4, <1>5, <1>6, <1>7 DEF Inv

\* What setting a handle of the running program changes.
LEMMA HandleMoved ==
  ASSUME Inv, NEW h \in Handle, h < Me.size, NEW v \in Sfts \cup {NoFile}, psp' = SetHandle(psp, cu_psp, h, v)
  PROVE  /\ psp' \in [Segs -> Psp] /\ Fits(psp')
         /\ \A p \in Segs : psp'[p].parent = psp[p].parent
         /\ \A p \in alive, g \in Handle : \/ psp'[p].ps_filetab[g] = psp[p].ps_filetab[g]
                                           \/ p = cu_psp /\ g = h /\ psp'[p].ps_filetab[g] = v
         /\ UNCHANGED alive => Sized'
         /\ \A i \in Sfts : Cardinality(Refs(psp', alive, i)) - Cardinality(Refs(psp, alive, i))
                            = Is(v, i) - Is(Me.ps_filetab[h], i)
<1>1. psp \in [Segs -> Psp] /\ Fits(psp) /\ cu_psp \in Segs /\ cu_psp \in alive /\ alive \subseteq Segs
  BY SameTypes, Running DEF Inv, Types
<1>2. /\ psp' \in [Segs -> Psp] /\ Fits(psp')
      /\ \A q \in Segs : /\ psp'[q].parent = psp[q].parent /\ psp'[q].size = psp[q].size
                         /\ q # cu_psp => psp'[q] = psp[q]
      /\ \A g \in Handle : psp'[cu_psp].ps_filetab[g] = IF g = h THEN v ELSE psp[cu_psp].ps_filetab[g]
  <2> DEFINE Q == SetHandle(psp, cu_psp, h, v)
  <2>1. /\ Q \in [Segs -> Psp] /\ Fits(Q)
        /\ \A q \in Segs : Q[q].parent = psp[q].parent /\ Q[q].size = psp[q].size /\ (q # cu_psp => Q[q] = psp[q])
        /\ \A g \in Handle : Q[cu_psp].ps_filetab[g] = IF g = h THEN v ELSE psp[cu_psp].ps_filetab[g]
    BY <1>1, HandleSet
  <2>2. psp' = Q
    OBVIOUS
  <2> HIDE DEF Q
  <2> QED
    BY <2>1, <2>2
<1>3. ASSUME NEW p \in alive, NEW g \in Handle, g >= psp'[p].size
      PROVE  psp'[p].ps_filetab[g] = NoFile
  <2>1. psp'[p].size = psp[p].size /\ psp[p].size \in Nat /\ g \in Nat /\ h \in Nat
    <3>1. p \in Segs /\ psp[p] \in Psp
      BY <1>1
    <3>2. psp'[p].size = psp[p].size
      BY <3>1, <1>2, Zenon
    <3> QED
      BY <3>1, <3>2, Sizes DEF Psp, Handle
  <2>2. psp[p].ps_filetab[g] = NoFile
    BY <1>3, <2>1 DEF Inv, RefInv
  <2>3. p = cu_psp => g # h
    BY <1>3, <2>1 DEF Me
  <2>4. CASE p = cu_psp
    BY <1>2, <2>2, <2>3, <2>4, Zenon
  <2>5. CASE p # cu_psp
    BY <1>1, <1>2, <2>2, <2>5, Zenon
  <2> QED
    BY <2>4, <2>5
<1>4. ASSUME NEW i \in Sfts
      PROVE  Cardinality(Refs(psp', alive, i)) - Cardinality(Refs(psp, alive, i)) = Is(v, i) - Is(Me.ps_filetab[h], i)
  <2>1. Cardinality(Refs(psp', alive, i)) = Cardinality(Refs(psp, alive, i))
            - Is(psp[cu_psp].ps_filetab[h], i) + Is(psp'[cu_psp].ps_filetab[h], i)
    <3>1. \A q \in alive \ {cu_psp} : psp[q].ps_filetab = psp'[q].ps_filetab
      BY <1>1, <1>2, Zenon
    <3>2. \A g \in Handle \ {h} : psp'[cu_psp].ps_filetab[g] = psp[cu_psp].ps_filetab[g]
      BY <1>2
    <3> DEFINE P == psp
               Q == psp'
               c == cu_psp
               A == alive
    <3>3. A \subseteq Segs /\ c \in A
      BY <1>1
    <3>4. OthersKeep(P, Q, A, c) /\ AllBut(P[c].ps_filetab, Q[c].ps_filetab, h)
      BY <3>1, <3>2 DEF OthersKeep, KeepTables, AllBut
    <3> HIDE DEF P, Q, c, A
    <3>5. Cardinality(Refs(Q, A, i)) = Cardinality(Refs(P, A, i)) - Is(P[c].ps_filetab[h], i) + Is(Q[c].ps_filetab[h], i)
      BY <3>3, <3>4, RefsSet
    <3> QED
      BY <3>5 DEF P, Q, c, A
  <2>2. psp'[cu_psp].ps_filetab[h] = v /\ Me.ps_filetab[h] = psp[cu_psp].ps_filetab[h]
    BY <1>2 DEF Me
  <2>3. Cardinality(Refs(psp', alive, i)) = Cardinality(Refs(psp, alive, i)) - Is(Me.ps_filetab[h], i) + Is(v, i)
    BY <2>1, <2>2, Zenon
  <2>4. Cardinality(Refs(psp, alive, i)) \in Nat /\ Is(Me.ps_filetab[h], i) \in Nat /\ Is(v, i) \in Nat
    BY <1>1, RefsCount DEF Is
  <2> QED
    BY <2>3, <2>4
<1>5. ASSUME NEW p \in alive, NEW g \in Handle
      PROVE  \/ psp'[p].ps_filetab[g] = psp[p].ps_filetab[g]
             \/ p = cu_psp /\ g = h /\ psp'[p].ps_filetab[g] = v
  BY <1>1, <1>2, Zenon
<1>6. UNCHANGED alive => Sized'
  BY <1>3, Zenon DEF Sized
<1> QED
  BY <1>2, <1>4, <1>5, <1>6, Zenon

LEMMA ForgottenOne ==
  ASSUME NEW l \in [Sfts -> Nat], NEW i \in Sfts
  PROVE  /\ More(l, i, 1) \in [Sfts -> Nat]
         /\ \A k \in Sfts : More(l, i, 1)[k] = IF k = i THEN l[k] + 1 ELSE l[k]
  BY DEF More

-----------------------------------------------------------------------------
(* The calls about handles and FCBs.                                       *)

\* How a transfer ends decides what comes next.
LEMMA Outcome ==
  ASSUME Inv, NEW out \in Outs
  PROVE  After(out) \in {"user", "abort"} /\ (After(out) = "abort" => under = None)
  BY DEF After, Outs

\* A table in which only entries without references changed.
LEMMA FreshOnly ==
  ASSUME Inv, NEW i \in Sfts, sft[i].count = 0, \A k \in Sfts \ {i} : sft'[k] = sft[k]
  PROVE  EntriesKept
  BY DEF EntriesKept, Same

LEMMA SameFcbs ==
  ASSUME Inv, UNCHANGED fcbs
  PROVE  OwnFcbs
  BY DEF OwnFcbs, Inv, RefInv

LEMMA SameTables ==
  ASSUME Inv, UNCHANGED <<psp, alive>>
  PROVE  OwnTables /\ Sized'
  BY DEF OwnTables, Sized, Inv, RefInv

LEMMA DosOpenStep ==
  ASSUME Inv, DosOpen
  PROVE  Inv'
<1>1. Types
  BY SameTypes DEF Inv
<1> DEFINE i == get_free_sft
           g == get_free_hndl
<1>2. PICK kind \in Kinds, noinherit \in BOOLEAN, out \in Outs :
        /\ sft' = DosOpenSft(kind, FALSE, noinherit, out)
        /\ IF out = "ok" THEN psp' = SetHandle(psp, cu_psp, g, i) /\ UNCHANGED lost
           ELSE lost' = More(lost, i, sft'[i].count) /\ UNCHANGED psp
        /\ pc' = After(out)
  BY DEF DosOpen, SetHandle, More, Forget
<1>3. /\ FreeSfts # {} /\ FreeHandles # {} /\ pc = "user"
      /\ UNCHANGED <<owner, cu_psp, under, x, alive, kept, ghosts, fcbs>>
  BY DEF DosOpen, procs, Call
<1>4. /\ i \in Sfts /\ sft[i].count = 0
      /\ g \in Handle /\ g < Me.ps_maxfiles /\ Me.ps_filetab[g] = NoFile
  BY <1>3, FreeEntry, FreeHandle
<1>5. /\ sft' \in [Sfts -> Entry] /\ \A k \in Sfts \ {i} : sft'[k] = sft[k]
      /\ \/ out = "fail" /\ sft' = sft
         \/ sft'[i].count = 1 /\ sft'[i].psp = cu_psp /\ ~sft'[i].fcb
      /\ out = "ok" => sft'[i].count = 1
  <2>1. kind \in {"file", "device"} /\ FALSE \in BOOLEAN
    BY HandlesAssumption
  <2>2. IsOpened(sft', i, FALSE, out)
    BY <1>2, <1>3, <2>1, Opened, Zenon
  <2> QED
    BY <2>2 DEF IsOpened
<1> HIDE DEF i, g
<1>6. /\ pc' \in {"user", "abort"} /\ (pc' = "abort" => under = None)
      /\ EntriesKept /\ OwnFcbs
  BY <1>2, <1>3, <1>4, <1>5, Outcome, FreshOnly, SameFcbs
<1>7. CASE out = "ok"
  <2>1. psp' = SetHandle(psp, cu_psp, g, i) /\ UNCHANGED lost
    BY <1>2, <1>7
  <2>2. g < Me.size
    <3>1. Me.ps_maxfiles \in Int /\ Me.size \in Int /\ g \in Int
      BY <1>4, Running, Sizes DEF Psp, Handle
    <3> QED
      BY <3>1, <1>4, Running
  <2>3. /\ psp' \in [Segs -> Psp] /\ Fits(psp')
        /\ \A p \in Segs : psp'[p].parent = psp[p].parent
        /\ \A p \in alive, h \in Handle : \/ psp'[p].ps_filetab[h] = psp[p].ps_filetab[h]
                                          \/ p = cu_psp /\ h = g /\ psp'[p].ps_filetab[h] = i
        /\ Sized'
        /\ \A k \in Sfts : Cardinality(Refs(psp', alive, k)) - Cardinality(Refs(psp, alive, k))
                            = Is(i, k) - Is(Me.ps_filetab[g], k)
    BY <1>3, <1>4, <2>1, <2>2, HandleMoved
  <2>4. Types'
    BY <1>1, <1>3, <1>5, <1>6, <2>1, <2>3 DEF Types
  <2>5. Reckoned
    <3> SUFFICES ASSUME NEW k \in Sfts PROVE Reckons(k)
      BY DEF Reckoned
    <3>1. Is(Me.ps_filetab[g], k) = 0
      BY <1>4, Sizes DEF Is
    <3>2. sft'[k].count - sft[k].count = Is(i, k)
      BY <1>1, <1>4, <1>5, <1>7 DEF Is, Types, Entry
    <3>3. /\ Cardinality(Holders(fcbs', alive, k)) - Cardinality(Holders(fcbs, alive, k)) = 0
          /\ lost'[k] - lost[k] = 0
      BY <1>3, <2>1, Counts
    <3>4. Cardinality(Refs(psp', alive, k)) - Cardinality(Refs(psp, alive, k)) = Is(i, k)
      BY <2>3, <3>1 DEF Is
    <3> QED
      BY <3>2, <3>3, <3>4 DEF Reckons, Is
  <2>6. OwnTables
    BY <1>4, <1>5, <1>7, <2>3, Sizes DEF OwnTables
  <2> QED
    BY <1>3, <1>6, <2>3, <2>4, <2>5, <2>6, FileCall DEF Takes
<1>8. CASE out # "ok"
  <2> DEFINE n == sft'[i].count
  <2>1. lost' = More(lost, i, n) /\ UNCHANGED psp
    BY <1>2, <1>8
  <2>2. n \in Nat
    BY <1>4, <1>5 DEF Entry
  <2>3. \A k \in Sfts : sft'[k].count - sft[k].count = IF k = i THEN n ELSE 0
    BY <1>1, <1>4, <1>5, <2>2 DEF Types, Entry
  <2> HIDE DEF n
  <2>4. lost' \in [Sfts -> Nat] /\ \A k \in Sfts : lost'[k] = IF k = i THEN lost[k] + n ELSE lost[k]
    <3>1. lost \in [Sfts -> Nat]
      BY <1>1 DEF Types
    <3>2. i \in Sfts /\ lost' = More(lost, i, n)
      BY <1>4, <2>1
    <3> QED
      BY ONLY <3>1, <3>2, <2>2, Forgotten
  <2>5. Types'
    BY <1>1, <1>3, <1>5, <1>6, <2>1, <2>4 DEF Types
  <2>6. Reckoned
    BY <1>1, <1>3, <2>1, <2>2, <2>3, <2>4, Counts DEF Reckoned, Reckons, Types
  <2> QED
    BY <1>3, <1>6, <2>1, <2>5, <2>6, FileCall, SameTables DEF Takes
<1> QED
  BY <1>7, <1>8

LEMMA CountedKeeps ==
  ASSUME NEW i, NEW n, Counted(sft', sft, i, n)
  PROVE  EntriesKept
  BY DEF Counted, EntriesKept

\* A handle of the running program lies within its table.
LEMMA InTable ==
  ASSUME Inv, NEW h \in Handle, h < Me.ps_maxfiles
  PROVE  h < Me.size
<1>1. Me.ps_maxfiles \in Int /\ Me.size \in Int /\ h \in Int
  BY Running, Sizes DEF Psp, Handle
<1> QED
  BY <1>1, Running

LEMMA DosCloseStep ==
  ASSUME Inv, DosClose
  PROVE  Inv'
<1>1. Types
  BY SameTypes DEF Inv
<1>2. PICK h \in Handle, out \in Outs :
        /\ IsOpen(h)
        /\ psp' = SetHandle(psp, cu_psp, h, NoFile)
        /\ sft' = DosCloseSft(sft, Me.ps_filetab[h], out)
        /\ lost' = More(lost, Me.ps_filetab[h], IF out = "ok" THEN 0 ELSE 1)
        /\ pc' = After(out)
  BY DEF DosClose, SetHandle, More, Forget
<1>3. pc = "user" /\ UNCHANGED <<owner, cu_psp, under, x, alive, kept, ghosts, fcbs>>
  BY DEF DosClose, procs, Call
<1> DEFINE i == Me.ps_filetab[h]
<1>4. i \in Sfts /\ sft[i].count > 0 /\ h < Me.size
  BY <1>2, OpenHandle, InTable
<1>5. i = Me.ps_filetab[h]
  OBVIOUS
<1> DEFINE n == IF out = "ok" THEN -1 ELSE 0
           m == IF out = "ok" THEN 0 ELSE 1
<1>6. Counted(sft', sft, i, n)
  BY <1>1, <1>2, <1>4, Closed DEF Types
<1>7. /\ psp' \in [Segs -> Psp] /\ Fits(psp')
      /\ \A p \in Segs : psp'[p].parent = psp[p].parent
      /\ \A p \in alive, g \in Handle : \/ psp'[p].ps_filetab[g] = psp[p].ps_filetab[g]
                                        \/ p = cu_psp /\ g = h /\ psp'[p].ps_filetab[g] = NoFile
      /\ Sized'
      /\ \A k \in Sfts : Cardinality(Refs(psp', alive, k)) - Cardinality(Refs(psp, alive, k))
                          = Is(NoFile, k) - Is(Me.ps_filetab[h], k)
  BY <1>2, <1>3, <1>4, HandleMoved
<1>8. n \in Int /\ m \in Nat /\ n - m = -1
  OBVIOUS
<1>9. lost' = More(lost, i, m)
  BY <1>2
<1> HIDE DEF i, n, m
<1>10. lost' \in [Sfts -> Nat] /\ \A k \in Sfts : lost'[k] = IF k = i THEN lost[k] + m ELSE lost[k]
  <2>1. lost \in [Sfts -> Nat]
    BY <1>1 DEF Types
  <2> QED
    BY ONLY <2>1, <1>4, <1>8, <1>9, Forgotten
<1>11. pc' \in {"user", "abort"} /\ (pc' = "abort" => under = None)
  BY <1>2, Outcome
<1>12. Types'
  BY <1>1, <1>3, <1>6, <1>7, <1>10, <1>11 DEF Types, Counted
<1>13. Reckoned
  <2> SUFFICES ASSUME NEW k \in Sfts PROVE Reckons(k)
    BY DEF Reckoned
  <2>1. Cardinality(Refs(psp', alive, k)) - Cardinality(Refs(psp, alive, k)) = - Is(i, k)
    BY <1>5, <1>7, Sizes DEF Is
  <2>2. sft'[k].count - sft[k].count = IF k = i THEN n ELSE 0
    BY <1>6, <1>8, Counts DEF Counted
  <2>3. /\ Cardinality(Holders(fcbs', alive, k)) - Cardinality(Holders(fcbs, alive, k)) = 0
        /\ lost'[k] - lost[k] = IF k = i THEN m ELSE 0
    BY <1>3, <1>8, <1>10, Counts
  <2> QED
    BY <1>8, <2>1, <2>2, <2>3 DEF Reckons, Is
<1>14. OwnTables
  BY <1>7 DEF OwnTables
<1> QED
  BY <1>3, <1>6, <1>7, <1>11, <1>12, <1>13, <1>14, CountedKeeps, SameFcbs, FileCall DEF Takes

LEMMA DosDupStep ==
  ASSUME Inv, DosDup
  PROVE  Inv'
<1>1. Types
  BY SameTypes DEF Inv
<1> DEFINE g == get_free_hndl
<1>2. PICK h \in Handle :
        /\ IsOpen(h)
        /\ psp' = SetHandle(psp, cu_psp, g, Me.ps_filetab[h])
        /\ sft' = Add(sft, Me.ps_filetab[h], 1)
  BY DEF DosDup, SetHandle
<1>3. pc = "user" /\ UNCHANGED <<owner, cu_psp, under, pc, x, alive, kept, ghosts, fcbs, lost>>
  BY DEF DosDup, procs, Call
<1> DEFINE i == Me.ps_filetab[h]
<1>4. i \in Sfts /\ sft[i].count > 0 /\ g \in Handle /\ g < Me.size /\ Me.ps_filetab[g] = NoFile
  BY <1>2, OpenHandle, FreeHandle, InTable DEF DosDup
<1>5. i = Me.ps_filetab[h]
  OBVIOUS
<1>6. Counted(sft', sft, i, 1)
  <2>1. sft[i].count + 1 \in Nat
    BY <1>1, <1>4 DEF Types, Entry
  <2> QED
    BY <1>1, <1>2, <1>4, <2>1, Added DEF Types
<1>7. /\ psp' \in [Segs -> Psp] /\ Fits(psp')
      /\ \A p \in Segs : psp'[p].parent = psp[p].parent
      /\ \A p \in alive, f \in Handle : \/ psp'[p].ps_filetab[f] = psp[p].ps_filetab[f]
                                        \/ p = cu_psp /\ f = g /\ psp'[p].ps_filetab[f] = i
      /\ Sized'
      /\ \A k \in Sfts : Cardinality(Refs(psp', alive, k)) - Cardinality(Refs(psp, alive, k))
                          = Is(i, k) - Is(Me.ps_filetab[g], k)
  BY <1>2, <1>3, <1>4, HandleMoved
<1> HIDE DEF i, g
<1>8. Types'
  BY <1>1, <1>3, <1>6, <1>7 DEF Types, Counted
<1>9. Reckoned
  <2> SUFFICES ASSUME NEW k \in Sfts PROVE Reckons(k)
    BY DEF Reckoned
  <2>1. Cardinality(Refs(psp', alive, k)) - Cardinality(Refs(psp, alive, k)) = Is(i, k)
    BY <1>4, <1>7, Sizes DEF Is
  <2>2. sft'[k].count - sft[k].count = Is(i, k)
    BY <1>6, Counts DEF Counted, Is
  <2>3. /\ Cardinality(Holders(fcbs', alive, k)) - Cardinality(Holders(fcbs, alive, k)) = 0
        /\ lost'[k] - lost[k] = 0
    BY <1>3, Counts
  <2> QED
    BY <2>1, <2>2, <2>3 DEF Reckons, Is
<1>10. OwnTables
  BY <1>5, <1>7 DEF OwnTables, Me
<1> QED
  BY <1>3, <1>6, <1>7, <1>8, <1>9, <1>10, CountedKeeps, SameFcbs, FileCall DEF Takes

LEMMA DosForceDupStep ==
  ASSUME Inv, DosForceDup
  PROVE  Inv'
<1>1. Types
  BY SameTypes DEF Inv
<1>2. PICK old \in Handle, new \in 0..Me.size-1 :
        LET i == Me.ps_filetab[old]
            j == Me.ps_filetab[new] IN
        /\ IsOpen(old)
        /\ \/ /\ j = NoFile
              /\ psp' = SetHandle(psp, cu_psp, new, i)
              /\ sft' = Add(sft, i, 1)
              /\ UNCHANGED <<lost, pc>>
           \/ /\ IsOpen(new)
              /\ \E out \in Outs :
                   IF out = "ok"
                   THEN /\ psp' = SetHandle(psp, cu_psp, new, IF new = old THEN NoFile ELSE i)
                        /\ sft' = Tidy([[sft EXCEPT ![j].count = @ - 1] EXCEPT ![i].count = @ + 1])
                        /\ lost' = More(lost, i, IF new = old THEN 1 ELSE 0)
                        /\ UNCHANGED pc
                   ELSE /\ psp' = SetHandle(psp, cu_psp, new, NoFile)
                        /\ lost' = More(lost, j, 1)
                        /\ pc' = After(out)
                        /\ UNCHANGED sft
  BY DEF DosForceDup, SetHandle, More, Forget
<1>3. pc = "user" /\ UNCHANGED <<owner, cu_psp, under, x, alive, kept, ghosts, fcbs>>
  BY DEF DosForceDup, procs, Call
<1> DEFINE i == Me.ps_filetab[old]
           j == Me.ps_filetab[new]
<1>4. i \in Sfts /\ sft[i].count > 0 /\ new \in Handle /\ new < Me.size
  <2>1. new \in Handle /\ new < Me.size
    BY Running, Sizes DEF Psp, Handle
  <2> QED
    BY <1>2, <2>1, OpenHandle
<1>5. i = Me.ps_filetab[old] /\ j = Me.ps_filetab[new]
  OBVIOUS
<1>6. \A k \in Sfts : sft[k].count \in Nat /\ lost[k] \in Nat
  BY Counts
<1>7. ASSUME NEW v \in Sfts \cup {NoFile}, psp' = SetHandle(psp, cu_psp, new, v)
      PROVE  /\ psp' \in [Segs -> Psp] /\ Fits(psp')
             /\ \A p \in Segs : psp'[p].parent = psp[p].parent
             /\ \A p \in alive, f \in Handle : \/ psp'[p].ps_filetab[f] = psp[p].ps_filetab[f]
                                               \/ p = cu_psp /\ f = new /\ psp'[p].ps_filetab[f] = v
             /\ Sized'
             /\ \A k \in Sfts : Cardinality(Refs(psp', alive, k)) - Cardinality(Refs(psp, alive, k))
                                 = Is(v, k) - Is(j, k)
  BY <1>3, <1>4, <1>7, HandleMoved
<1>8. \A k \in Sfts : Cardinality(Holders(fcbs', alive, k)) - Cardinality(Holders(fcbs, alive, k)) = 0
  BY <1>3, Counts
<1>9. ASSUME NEW v \in Sfts \cup {NoFile}, psp' = SetHandle(psp, cu_psp, new, v), v = i \/ v = NoFile,
             NEW n \in [Sfts -> Int], NEW m \in [Sfts -> Int],
             sft' \in [Sfts -> Entry], lost' \in [Sfts -> Nat],
             \A k \in Sfts : sft'[k].count - sft[k].count = n[k] /\ lost'[k] - lost[k] = m[k]
                             /\ n[k] - m[k] = Is(v, k) - Is(j, k),
             EntriesKept, pc' \in {"user", "abort"}, pc' = "abort" => under = None
      PROVE  Inv'
  <2> HIDE DEF i, j
  <2>1. Types'
    BY <1>1, <1>3, <1>7, <1>9 DEF Types
  <2>2. Reckoned
    <3> SUFFICES ASSUME NEW k \in Sfts PROVE Reckons(k)
      BY DEF Reckoned
    <3>1. Cardinality(Refs(psp', alive, k)) - Cardinality(Refs(psp, alive, k)) = Is(v, k) - Is(j, k)
      BY <1>7, <1>9
    <3> QED
      BY <1>8, <1>9, <3>1 DEF Reckons, Is
  <2>3. OwnTables
    BY <1>5, <1>7, <1>9 DEF OwnTables, Me
  <2> QED
    BY <1>3, <1>7, <1>9, <2>1, <2>2, <2>3, SameFcbs, FileCall DEF Takes
<1> HIDE DEF i, j
<1>10. CASE j = NoFile /\ psp' = SetHandle(psp, cu_psp, new, i) /\ sft' = Add(sft, i, 1) /\ UNCHANGED <<lost, pc>>
  <2>1. sft[i].count + 1 \in Nat
    BY <1>4, <1>6
  <2>2. Counted(sft', sft, i, 1)
    BY <1>1, <1>4, <1>10, <2>1, Added DEF Types
  <2> DEFINE n == [k \in Sfts |-> Is(i, k)]
             m == [k \in Sfts |-> 0]
  <2>3. \A k \in Sfts : sft'[k].count - sft[k].count = n[k] /\ lost'[k] - lost[k] = m[k]
                        /\ n[k] - m[k] = Is(i, k) - Is(j, k)
    BY <1>6, <1>10, <2>2, Sizes DEF Counted, Is
  <2>4. n \in [Sfts -> Int] /\ m \in [Sfts -> Int]
    BY DEF Is
  <2> HIDE DEF n, m
  <2>5. sft' \in [Sfts -> Entry] /\ lost' \in [Sfts -> Nat] /\ pc' = "user" /\ EntriesKept
    BY <1>1, <1>3, <1>10, <2>2, CountedKeeps DEF Counted, Types
  <2> QED
    BY <1>4, <1>9, <1>10, <2>3, <2>4, <2>5
<1>11. ASSUME IsOpen(new), NEW out \in Outs, out = "ok",
              psp' = SetHandle(psp, cu_psp, new, IF new = old THEN NoFile ELSE i),
              sft' = Tidy([[sft EXCEPT ![j].count = @ - 1] EXCEPT ![i].count = @ + 1]),
              lost' = More(lost, i, IF new = old THEN 1 ELSE 0), UNCHANGED pc
       PROVE  Inv'
  <2>1. j \in Sfts /\ sft[j].count > 0
    BY <1>4, <1>5, <1>11, OpenHandle
  <2> DEFINE s == [sft EXCEPT ![j].count = @ - 1]
             t == [s EXCEPT ![i].count = @ + 1]
  <2>2. s \in [Sfts -> Entry] /\ \A k \in Sfts : s[k].count = sft[k].count - Is(j, k) /\ Same(s[k], sft[k])
    BY <1>1, <1>6, <2>1 DEF Types, Entry, Is, Same
  <2> HIDE DEF s
  <2>3. t \in [Sfts -> Entry] /\ \A k \in Sfts : t[k].count = s[k].count + Is(i, k) /\ Same(t[k], s[k])
    BY <1>4, <2>2 DEF Entry, Is, Same
  <2>4. sft' = Tidy(t)
    BY <1>11 DEF s
  <2> HIDE DEF t
  <2>5. sft' \in [Sfts -> Entry] /\ \A k \in Sfts : /\ sft'[k].count = t[k].count
                                                    /\ t[k].count # 0 => sft'[k] = t[k]
    BY <2>3, <2>4, Tidied
  <2>6. EntriesKept
    BY <2>2, <2>3, <2>5 DEF EntriesKept, Same
  <2> DEFINE v == IF new = old THEN NoFile ELSE i
             d == IF new = old THEN 1 ELSE 0
             n == [k \in Sfts |-> Is(i, k) - Is(j, k)]
             m == [k \in Sfts |-> IF k = i THEN d ELSE 0]
  <2>7. v \in Sfts \cup {NoFile} /\ (v = i \/ v = NoFile) /\ d \in Nat
        /\ n \in [Sfts -> Int] /\ m \in [Sfts -> Int]
    BY <1>4 DEF Is
  <2>8. lost' \in [Sfts -> Nat] /\ \A k \in Sfts : lost'[k] = IF k = i THEN lost[k] + d ELSE lost[k]
    <3>1. lost' = More(lost, i, d)
      BY <1>11
    <3> HIDE DEF d
    <3> QED
      <4>1. lost \in [Sfts -> Nat]
        BY <1>1 DEF Types
      <4> QED
        BY ONLY <4>1, <1>4, <2>7, <3>1, Forgotten
  <2>9. ASSUME NEW k \in Sfts
        PROVE  sft'[k].count - sft[k].count = n[k] /\ lost'[k] - lost[k] = m[k]
               /\ n[k] - m[k] = Is(v, k) - Is(j, k)
    <3>1. new = old => i = j
      BY <1>5
    <3>2. Is(i, k) \in 0..1 /\ Is(j, k) \in 0..1 /\ Is(NoFile, k) = 0 /\ (k = i <=> Is(i, k) = 1)
      BY Sizes DEF Is
    <3>3. sft'[k].count - sft[k].count = n[k]
      BY <1>6, <2>2, <2>3, <2>5, <3>2
    <3>4. lost'[k] - lost[k] = m[k]
      BY <1>6, <2>8
    <3>5. n[k] - m[k] = Is(v, k) - Is(j, k)
      BY <3>1, <3>2
    <3> QED
      BY <3>3, <3>4, <3>5
  <2>10. psp' = SetHandle(psp, cu_psp, new, v) /\ pc' = "user"
    BY <1>3, <1>11
  <2> HIDE DEF v, n, m
  <2> QED
    BY <1>9, <2>5, <2>6, <2>7, <2>8, <2>9, <2>10
<1>12. ASSUME IsOpen(new), NEW out \in Outs,
              psp' = SetHandle(psp, cu_psp, new, NoFile), lost' = More(lost, j, 1), pc' = After(out),
              UNCHANGED sft
       PROVE  Inv'
  <2>1. j \in Sfts
    BY <1>4, <1>5, <1>12, OpenHandle
  <2> DEFINE n == [k \in Sfts |-> 0]
             m == [k \in Sfts |-> Is(j, k)]
  <2>2. lost' \in [Sfts -> Nat] /\ \A k \in Sfts : lost'[k] = IF k = j THEN lost[k] + 1 ELSE lost[k]
    <3>1. lost \in [Sfts -> Nat]
      BY <1>1 DEF Types
    <3> QED
      BY ONLY <3>1, <1>12, <2>1, ForgottenOne
  <2>3. \A k \in Sfts : sft'[k].count - sft[k].count = n[k] /\ lost'[k] - lost[k] = m[k]
                        /\ n[k] - m[k] = Is(NoFile, k) - Is(j, k)
    BY <1>6, <1>12, <2>2, Sizes DEF Is
  <2>4. n \in [Sfts -> Int] /\ m \in [Sfts -> Int]
    BY DEF Is
  <2> HIDE DEF n, m
  <2>5. sft' \in [Sfts -> Entry] /\ EntriesKept /\ pc' \in {"user", "abort"} /\ (pc' = "abort" => under = None)
    BY <1>1, <1>12, Outcome DEF Types, EntriesKept, Same
  <2> QED
    BY <1>9, <1>12, <2>2, <2>3, <2>4, <2>5
<1> QED
  BY <1>2, <1>5, <1>10, <1>11, <1>12

\* What a process has beyond the part of its table in use.
LEMMA HiddenCells ==
  ASSUME Inv, NEW p \in alive, NEW i \in Sfts
  PROVE  /\ To(p, Hidden(p), i) \in Nat
         /\ Cardinality(Cells(psp[p].ps_filetab, Handle, i)) =
              Cardinality(Cells(psp[p].ps_filetab, {h \in Handle : h < psp[p].ps_maxfiles}, i))
              + To(p, Hidden(p), i)
<1> DEFINE t == psp[p].ps_filetab
           Low == {h \in Handle : h < psp[p].ps_maxfiles}
<1>1. psp[p] \in Psp
  BY SameTypes, Running DEF Inv, Types
<1>2. Cells(t, Handle \ Low, i) = Cells(t, Hidden(p), i)
  <2>1. \A h \in Handle : t[h] = i => h < psp[p].size
    <3> SUFFICES ASSUME NEW h \in Handle, t[h] = i, ~(h < psp[p].size) PROVE FALSE
      OBVIOUS
    <3>1. h >= psp[p].size
      BY <1>1, Sizes DEF Psp, Handle
    <3> QED
      BY <3>1, Sizes DEF Inv, RefInv
  <2>2. \A h \in Handle : h \in Handle \ Low <=> h >= psp[p].ps_maxfiles
    BY <1>1, Sizes DEF Psp, Handle
  <2>3. \A h \in Handle : t[h] = i => h \in Has(p)
    BY <1>1, <2>1, Sizes DEF Has, Psp, Handle
  <2>4. Hidden(p) \subseteq Handle
    BY <1>1, Sizes DEF Hidden, Has, Psp, Handle
  <2> QED
    BY <2>2, <2>3, <2>4 DEF Cells, Hidden
<1>3. To(p, Hidden(p), i) = Cardinality(Cells(t, Hidden(p), i))
  BY DEF To, Cells
<1>4. Cardinality(Cells(t, Handle, i)) = Cardinality(Cells(t, Low, i)) + Cardinality(Cells(t, Handle \ Low, i))
  BY CellsSplit
<1>5. Cardinality(Cells(t, Handle \ Low, i)) \in Nat
  BY CellsCount
<1> QED
  BY <1>2, <1>3, <1>4, <1>5, Zenon

LEMMA SetJFTSizeStep ==
  ASSUME Inv, SetJFTSize
  PROVE  Inv'
<1>1. Types
  BY SameTypes DEF Inv
<1>2. PICK n \in 0..MaxFiles :
       \/ /\ n <= Me.ps_maxfiles
          /\ psp' = [psp EXCEPT ![cu_psp].ps_maxfiles = n]
          /\ UNCHANGED <<owner, lost>>
       \/ /\ n > Me.ps_maxfiles
          /\ \E b \in Free : owner' = [owner EXCEPT ![b] = cu_psp]
          /\ psp' = [psp EXCEPT ![cu_psp].ps_filetab = [h \in Handle |-> IF h < Me.ps_maxfiles
                                                                         THEN @[h] ELSE NoFile],
                                ![cu_psp].size = n, ![cu_psp].ps_maxfiles = n]
          /\ lost' = [i \in Sfts |-> lost[i] + To(cu_psp, Hidden(cu_psp), i)]
  BY DEF SetJFTSize
<1>3. pc = "user" /\ UNCHANGED <<cu_psp, under, sft, pc, x, alive, kept, ghosts, fcbs>>
  BY DEF SetJFTSize, procs, Call
<1>4. /\ cu_psp \in alive /\ cu_psp \in Segs /\ psp \in [Segs -> Psp] /\ Fits(psp) /\ alive \subseteq Segs
      /\ n \in Nat /\ n <= MaxFiles /\ MaxFiles \in Nat /\ Me = psp[cu_psp]
  BY <1>1, Running, Sizes DEF Types, Me
<1>5. EntriesKept
  BY <1>3 DEF EntriesKept, Same
<1>6. CASE n <= Me.ps_maxfiles /\ psp' = [psp EXCEPT ![cu_psp].ps_maxfiles = n] /\ UNCHANGED <<owner, lost>>
  <2> DEFINE r == [psp[cu_psp] EXCEPT !.ps_maxfiles = n]
  <2>1. /\ r \in Psp /\ r.parent = psp[cu_psp].parent /\ r.size = psp[cu_psp].size
        /\ r.ps_filetab = psp[cu_psp].ps_filetab /\ r.ps_maxfiles = n
    BY <1>4 DEF Psp
  <2>2. psp' = [psp EXCEPT ![cu_psp] = r]
    BY <1>6
  <2>3. n <= psp[cu_psp].size
    BY <1>4, <1>6 DEF Fits, Psp
  <2> HIDE DEF r
  <2>4. /\ psp' \in [Segs -> Psp]
        /\ \A p \in Segs : psp'[p].parent = psp[p].parent /\ psp'[p].size = psp[p].size
                           /\ psp'[p].ps_filetab = psp[p].ps_filetab
    BY <1>4, <2>1, <2>2
  <2>5. Fits(psp')
    BY <1>4, <2>1, <2>2, <2>3 DEF Fits, Psp
  <2>6. Types'
    BY <1>1, <1>3, <1>6, <2>4, <2>5 DEF Types
  <2>7. Reckoned
    <3> SUFFICES ASSUME NEW k \in Sfts PROVE Reckons(k)
      BY DEF Reckoned
    <3>1. Refs(psp', alive, k) = Refs(psp, alive, k)
      BY <1>4, <2>4 DEF Refs
    <3> QED
      BY <1>3, <1>6, <3>1, Counts DEF Reckons
  <2>8. OwnTables /\ Sized'
    BY <1>3, <1>4, <2>4 DEF OwnTables, Sized, Inv, RefInv
  <2> QED
    BY <1>3, <1>5, <1>6, <2>4, <2>6, <2>7, <2>8, SameFcbs, FileCall DEF Takes
<1>7. ASSUME n > Me.ps_maxfiles, NEW b \in Free, owner' = [owner EXCEPT ![b] = cu_psp],
             psp' = [psp EXCEPT ![cu_psp].ps_filetab = [h \in Handle |-> IF h < Me.ps_maxfiles
                                                                         THEN @[h] ELSE NoFile],
                                ![cu_psp].size = n, ![cu_psp].ps_maxfiles = n],
             lost' = [i \in Sfts |-> lost[i] + To(cu_psp, Hidden(cu_psp), i)]
      PROVE  Inv'
  <2> DEFINE t == psp[cu_psp].ps_filetab
             u == [h \in Handle |-> IF h < Me.ps_maxfiles THEN t[h] ELSE NoFile]
             r == [psp[cu_psp] EXCEPT !.ps_filetab = [h \in Handle |-> IF h < Me.ps_maxfiles THEN @[h] ELSE NoFile],
                                      !.size = n, !.ps_maxfiles = n]
             Low == {h \in Handle : h < Me.ps_maxfiles}
  <2>1. psp' = [psp EXCEPT ![cu_psp] = r]
    BY <1>4, <1>7
  <2>2. u \in [Handle -> Sfts \cup {NoFile}]
    BY <1>4 DEF Psp
  <2>3. r \in Psp
    <3> HIDE DEF t
    <3>1. psp[cu_psp] \in Psp /\ n \in 0..MaxFiles
      BY <1>4
    <3>2. psp[cu_psp].ps_filetab = t
      BY DEF t
    <3> QED
      BY <2>2, <3>1, <3>2 DEF Psp
  <2>4. r.parent = psp[cu_psp].parent /\ r.ps_filetab = u /\ r.size = n /\ r.ps_maxfiles = n
    BY <1>4 DEF Psp
  <2>5. \A h \in Handle : u[h] = IF h < Me.ps_maxfiles THEN t[h] ELSE NoFile
    OBVIOUS
  <2> HIDE DEF u, r
  <2>6. /\ psp' \in [Segs -> Psp] /\ \A p \in Segs : psp'[p].parent = psp[p].parent
        /\ psp'[cu_psp] = r /\ \A p \in Segs \ {cu_psp} : psp'[p] = psp[p]
    BY <1>4, <2>1, <2>3, <2>4
  <2>7. Fits(psp')
    BY <1>4, <2>4, <2>6 DEF Fits, Psp
  <2>8. lost' \in [Sfts -> Nat] /\ \A k \in Sfts : lost'[k] = lost[k] + To(cu_psp, Hidden(cu_psp), k)
    <3>1. \A k \in Sfts : To(cu_psp, Hidden(cu_psp), k) \in Nat
      BY <1>4, HiddenCells
    <3>2. lost \in [Sfts -> Nat]
      BY <1>1 DEF Types
    <3>3. lost' = [k \in Sfts |-> lost[k] + To(cu_psp, Hidden(cu_psp), k)]
      BY <1>7, Zenon
    <3> QED
      BY <3>1, <3>2, <3>3
  <2>9. owner' \in [Segs -> Segs \cup {None}] /\ Takes
    BY <1>1, <1>4, <1>7 DEF Types, Takes
  <2>10. Types'
    BY <1>1, <1>3, <2>6, <2>7, <2>8, <2>9 DEF Types
  <2>11. Reckoned
    <3> SUFFICES ASSUME NEW k \in Sfts PROVE Reckons(k)
      BY DEF Reckoned
    <3>1. OthersKeep(psp, psp', alive, cu_psp)
      BY <1>4, <2>6 DEF OthersKeep, KeepTables
    <3>2. Cardinality(Refs(psp', alive, k)) - Cardinality(Refs(psp, alive, k))
            = Cardinality(Cells(psp'[cu_psp].ps_filetab, Handle, k)) - Cardinality(Cells(t, Handle, k))
      BY <1>4, <3>1, RefsTable
    <3>3. Cells(psp'[cu_psp].ps_filetab, Handle, k) = Cells(t, Low, k)
      BY <2>4, <2>5, <2>6, Sizes DEF Cells
    <3>4. /\ To(cu_psp, Hidden(cu_psp), k) \in Nat
          /\ Cardinality(Cells(t, Handle, k)) = Cardinality(Cells(t, Low, k)) + To(cu_psp, Hidden(cu_psp), k)
      BY <1>4, HiddenCells
    <3>5. Cardinality(Cells(t, Low, k)) \in Nat
      BY CellsCount
    <3>6. Cardinality(Refs(psp', alive, k)) - Cardinality(Refs(psp, alive, k)) = - To(cu_psp, Hidden(cu_psp), k)
      <4> HIDE DEF t, Low
      <4> QED
        BY <3>2, <3>3, <3>4, <3>5
    <3>7. /\ Cardinality(Holders(fcbs', alive, k)) - Cardinality(Holders(fcbs, alive, k)) = 0
          /\ sft'[k].count - sft[k].count = 0 /\ lost'[k] - lost[k] = To(cu_psp, Hidden(cu_psp), k)
      BY <1>3, <2>8, <3>4, Counts
    <3> QED
      BY <3>4, <3>6, <3>7 DEF Reckons
  <2>12. OwnTables
    BY <1>4, <2>4, <2>5, <2>6 DEF OwnTables
  <2>13. Sized'
    <3> SUFFICES ASSUME NEW p \in alive, NEW h \in Handle, h >= psp'[p].size PROVE psp'[p].ps_filetab[h] = NoFile
      BY <1>3 DEF Sized
    <3>1. CASE p = cu_psp
      <4>1. ~(h < Me.ps_maxfiles)
        <5>1. h >= n /\ h \in Int
          BY <2>4, <2>6, <3>1, Sizes DEF Handle
        <5>2. Me.ps_maxfiles \in Int
          BY Running DEF Psp
        <5>3. n > Me.ps_maxfiles
          BY <1>7, Zenon
        <5> QED
          BY <1>4, <5>1, <5>2, <5>3
      <4> QED
        BY <2>4, <2>5, <2>6, <3>1, <4>1
    <3>2. CASE p # cu_psp
      BY <1>4, <2>6, <3>2 DEF Inv, RefInv
    <3> QED
      BY <3>1, <3>2
  <2> QED
    BY <1>3, <1>5, <2>6, <2>9, <2>10, <2>11, <2>12, <2>13, SameFcbs, FileCall
<1> QED
  BY <1>2, <1>6, <1>7

LEMMA FcbOpenStep ==
  ASSUME Inv, FcbOpen
  PROVE  Inv'
<1>1. Types
  BY SameTypes DEF Inv
<1> DEFINE i == get_free_sft
<1>2. PICK kind \in Kinds, out \in Outs :
        /\ sft' = DosOpenSft(kind, TRUE, FALSE, out)
        /\ IF out = "ok" THEN fcbs' = [fcbs EXCEPT ![cu_psp] = @ \cup {i}] /\ UNCHANGED lost
           ELSE lost' = More(lost, i, sft'[i].count) /\ UNCHANGED fcbs
        /\ pc' = After(out)
  BY DEF FcbOpen, More, Forget
<1>3. FreeSfts # {} /\ pc = "user" /\ UNCHANGED <<owner, cu_psp, under, psp, x, alive, kept, ghosts>>
  BY DEF FcbOpen, procs, Call
<1>4. i \in Sfts /\ sft[i].count = 0
  BY <1>3, FreeEntry
<1>5. /\ sft' \in [Sfts -> Entry] /\ \A k \in Sfts \ {i} : sft'[k] = sft[k]
      /\ \/ out = "fail" /\ sft' = sft
         \/ sft'[i].count = 1 /\ sft'[i].psp = cu_psp /\ sft'[i].fcb
      /\ out = "ok" => sft'[i].count = 1
  <2>1. kind \in {"file", "device"} /\ TRUE \in BOOLEAN /\ FALSE \in BOOLEAN
    BY HandlesAssumption
  <2>2. IsOpened(sft', i, TRUE, out)
    BY <1>2, <1>3, <2>1, Opened, Zenon
  <2> QED
    BY <2>2 DEF IsOpened
<1> HIDE DEF i
<1>6. /\ pc' \in {"user", "abort"} /\ (pc' = "abort" => under = None)
      /\ EntriesKept /\ OwnTables /\ Sized'
  BY <1>2, <1>3, <1>4, <1>5, Outcome, FreshOnly, SameTables
<1>7. CASE out = "ok"
  <2>1. fcbs' = [fcbs EXCEPT ![cu_psp] = @ \cup {i}] /\ UNCHANGED lost
    BY <1>2, <1>7
  <2>2. /\ fcbs' \in [Segs -> SUBSET Sfts] /\ \A p \in Segs \ {cu_psp} : fcbs'[p] = fcbs[p]
        /\ fcbs'[cu_psp] = fcbs[cu_psp] \cup {i}
    BY <1>1, <1>4, <2>1 DEF Types
  <2>3. Types'
    BY <1>1, <1>3, <1>5, <1>6, <2>1, <2>2 DEF Types
  <2>4. Reckoned
    <3> SUFFICES ASSUME NEW k \in Sfts PROVE Reckons(k)
      BY DEF Reckoned
    <3>1. OthersHold(fcbs, fcbs', alive, cu_psp)
      BY <2>2, Running DEF OthersHold
    <3>2. Cardinality(Holders(fcbs', alive, k)) =
            Cardinality(Holders(fcbs, alive, k)) - In(k, fcbs[cu_psp]) + In(k, fcbs'[cu_psp])
      BY <3>1, HoldersSet, Running
    <3>3. In(k, fcbs'[cu_psp]) - In(k, fcbs[cu_psp]) = Is(i, k) /\ In(k, fcbs'[cu_psp]) \in Nat /\ In(k, fcbs[cu_psp]) \in Nat
      <4>1. i \notin fcbs[cu_psp]
        BY <1>4, Unreferenced, Running
      <4> QED
        BY <2>2, <4>1 DEF In, Is
    <3>4. Cardinality(Holders(fcbs', alive, k)) - Cardinality(Holders(fcbs, alive, k)) = Is(i, k)
      BY <3>2, <3>3, Counts
    <3>5. sft'[k].count - sft[k].count = Is(i, k)
      BY <1>1, <1>4, <1>5, <1>7 DEF Is, Types, Entry
    <3>6. /\ Cardinality(Refs(psp', alive, k)) - Cardinality(Refs(psp, alive, k)) = 0
          /\ lost'[k] - lost[k] = 0
      BY <1>3, <2>1, Counts
    <3> QED
      BY <3>4, <3>5, <3>6 DEF Reckons, Is
  <2>5. OwnFcbs
    BY <1>5, <1>7, <2>2, Running DEF OwnFcbs, Inv, RefInv
  <2> QED
    BY <1>3, <1>6, <2>3, <2>4, <2>5, FileCall DEF Takes
<1>8. CASE out # "ok"
  <2> DEFINE n == sft'[i].count
  <2>1. lost' = More(lost, i, n) /\ UNCHANGED fcbs
    BY <1>2, <1>8
  <2>2. n \in Nat
    BY <1>4, <1>5 DEF Entry
  <2>3. \A k \in Sfts : sft'[k].count - sft[k].count = IF k = i THEN n ELSE 0
    BY <1>1, <1>4, <1>5, <2>2 DEF Types, Entry
  <2> HIDE DEF n
  <2>4. lost' \in [Sfts -> Nat] /\ \A k \in Sfts : lost'[k] = IF k = i THEN lost[k] + n ELSE lost[k]
    <3>1. lost \in [Sfts -> Nat]
      BY <1>1 DEF Types
    <3>2. i \in Sfts /\ lost' = More(lost, i, n)
      BY <1>4, <2>1
    <3> QED
      BY ONLY <3>1, <3>2, <2>2, Forgotten
  <2>5. Types'
    BY <1>1, <1>3, <1>5, <1>6, <2>1, <2>4 DEF Types
  <2>6. Reckoned
    BY <1>1, <1>3, <2>1, <2>2, <2>3, <2>4, Counts DEF Reckoned, Reckons, Types
  <2> QED
    BY <1>3, <1>6, <2>1, <2>5, <2>6, SameFcbs, FileCall DEF Takes
<1> QED
  BY <1>7, <1>8

LEMMA FcbCloseStep ==
  ASSUME Inv, FcbClose
  PROVE  Inv'
<1>1. Types
  BY SameTypes DEF Inv
<1>2. PICK i \in fcbs[cu_psp], out \in Outs :
        /\ sft' = DosCloseSft(sft, i, out)
        /\ fcbs' = [fcbs EXCEPT ![cu_psp] = IF out = "ok" THEN @ \ {i} ELSE @]
        /\ pc' = After(out)
  BY DEF FcbClose
<1>3. pc = "user" /\ UNCHANGED <<owner, cu_psp, under, psp, x, alive, kept, ghosts, lost>>
  BY DEF FcbClose, procs, Call
<1>4. i \in Sfts /\ sft[i].count > 0
  <2>1. i \in Sfts /\ sft[i].count \in Nat
    BY <1>1, Running DEF Types, Entry
  <2> QED
    BY <2>1, Running, Unreferenced
<1> DEFINE n == IF out = "ok" THEN -1 ELSE 0
<1>5. Counted(sft', sft, i, n)
  BY <1>1, <1>2, <1>4, Closed DEF Types
<1>6. /\ pc' \in {"user", "abort"} /\ (pc' = "abort" => under = None)
      /\ EntriesKept /\ OwnTables /\ Sized'
  BY <1>2, <1>3, <1>5, Outcome, CountedKeeps, SameTables
<1>7. /\ fcbs' \in [Segs -> SUBSET Sfts] /\ \A p \in Segs \ {cu_psp} : fcbs'[p] = fcbs[p]
      /\ fcbs'[cu_psp] = IF out = "ok" THEN fcbs[cu_psp] \ {i} ELSE fcbs[cu_psp]
  BY <1>1, <1>2 DEF Types
<1>8. Types'
  BY <1>1, <1>3, <1>5, <1>6, <1>7 DEF Types, Counted
<1>9. Reckoned
  <2> SUFFICES ASSUME NEW k \in Sfts PROVE Reckons(k)
    BY DEF Reckoned
  <2>1. OthersHold(fcbs, fcbs', alive, cu_psp)
    BY <1>7, Running DEF OthersHold
  <2>2. Cardinality(Holders(fcbs', alive, k)) =
          Cardinality(Holders(fcbs, alive, k)) - In(k, fcbs[cu_psp]) + In(k, fcbs'[cu_psp])
    BY <2>1, HoldersSet, Running
  <2>3. /\ In(k, fcbs'[cu_psp]) - In(k, fcbs[cu_psp]) = IF k = i THEN n ELSE 0
        /\ In(k, fcbs'[cu_psp]) \in Nat /\ In(k, fcbs[cu_psp]) \in Nat
    BY <1>2, <1>7 DEF In
  <2>4. Cardinality(Holders(fcbs', alive, k)) - Cardinality(Holders(fcbs, alive, k)) = IF k = i THEN n ELSE 0
    BY <2>2, <2>3, Counts
  <2>5. sft'[k].count - sft[k].count = IF k = i THEN n ELSE 0
    BY <1>5, Counts DEF Counted
  <2>6. /\ Cardinality(Refs(psp', alive, k)) - Cardinality(Refs(psp, alive, k)) = 0
        /\ lost'[k] - lost[k] = 0
    BY <1>3, Counts
  <2> QED
    BY <2>4, <2>5, <2>6 DEF Reckons
<1>10. OwnFcbs
  BY <1>7, Running DEF OwnFcbs, Inv, RefInv
<1> QED
  BY <1>3, <1>6, <1>8, <1>9, <1>10, FileCall DEF Takes

LEMMA FcbGetFileSizeStep ==
  ASSUME Inv, FcbGetFileSize
  PROVE  Inv'
<1>1. Types
  BY SameTypes DEF Inv
<1> DEFINE i == get_free_sft
<1>2. PICK out \in Outs :
        /\ sft' = DosOpenSft("file", FALSE, FALSE, "ok")
        /\ lost' = More(lost, i, 1)
        /\ pc' = After(out)
  BY DEF FcbGetFileSize, More, Forget
<1>3. FreeSfts # {} /\ pc = "user" /\ UNCHANGED <<owner, cu_psp, under, psp, x, alive, kept, ghosts, fcbs>>
  BY DEF FcbGetFileSize, procs, Call
<1>4. i \in Sfts /\ sft[i].count = 0
  BY <1>3, FreeEntry
<1>5. sft' \in [Sfts -> Entry] /\ sft'[i].count = 1 /\ \A k \in Sfts \ {i} : sft'[k] = sft[k]
  <2>1. IsOpened(sft', i, FALSE, "ok")
    BY <1>2, <1>3, Opened, Zenon
  <2> QED
    BY <2>1 DEF IsOpened
<1> HIDE DEF i
<1>6. /\ pc' \in {"user", "abort"} /\ (pc' = "abort" => under = None)
      /\ EntriesKept /\ OwnTables /\ Sized' /\ OwnFcbs
  BY <1>2, <1>3, <1>4, <1>5, Outcome, FreshOnly, SameTables, SameFcbs
<1>7. lost' \in [Sfts -> Nat] /\ \A k \in Sfts : lost'[k] = IF k = i THEN lost[k] + 1 ELSE lost[k]
  <2>1. lost \in [Sfts -> Nat] /\ lost' = More(lost, i, 1)
    BY <1>1, <1>2 DEF Types
  <2> QED
    BY <1>4, <2>1, ForgottenOne
<1>8. Types'
  BY <1>1, <1>3, <1>5, <1>6, <1>7 DEF Types
<1>9. \A k \in Sfts : sft'[k].count - sft[k].count = IF k = i THEN 1 ELSE 0
  BY <1>1, <1>4, <1>5 DEF Types, Entry
<1>10. Reckoned
  BY <1>1, <1>3, <1>7, <1>9, Counts DEF Reckoned, Reckons, Types
<1> QED
  BY <1>3, <1>6, <1>8, <1>10, FileCall DEF Takes

LEMMA GetBlockStep ==
  ASSUME Inv, GetBlock
  PROVE  Inv'
<1>1. Types
  BY SameTypes DEF Inv
<1>2. /\ pc = "user" /\ Takes
      /\ UNCHANGED <<cu_psp, under, psp, pc, x, alive, kept, ghosts, sft, fcbs, lost>>
  BY DEF GetBlock, procs, files, Call, Takes
<1>3. Types'
  <2>1. owner' \in [Segs -> Segs \cup {None}]
    BY <1>1, <1>2 DEF Types, Takes
  <2> QED
    BY <1>1, <1>2, <2>1 DEF Types
<1>4. Reckoned
  BY <1>2, Counts DEF Reckoned, Reckons
<1>5. EntriesKept
  BY <1>2 DEF EntriesKept, Same
<1> QED
  BY <1>2, <1>3, <1>4, <1>5, SameTables, SameFcbs, FileCall

-----------------------------------------------------------------------------
(* EXEC.                                                                   *)

\* Blocks change hands as EXEC allocates and frees them.
BlocksKept ==
  /\ \A b \in alive \cup ghosts : owner'[b] = owner[b]
  /\ \A b \in Segs : owner'[b] \in {None, owner[b], cu_psp}

\* The counts follow the references of EXEC and those it loses.
ExecReckons ==
  \A i \in Sfts : sft'[i].count - sft[i].count = lost'[i] - lost[i] + (ExecRef(i)' - ExecRef(i))

LEMMA ExecCall ==
  ASSUME Inv, Types', UNCHANGED <<cu_psp, under, psp, alive, kept, ghosts, fcbs>>,
         BlocksKept, ExecInv', ExecReckons, EntriesKept
  PROVE  Inv'
<1>1. TypeOK'
  BY SameTypes
<1>2. StackInv'
  BY DEF Inv, StackInv, Stack, Top
<1>3. MemInv'
  <2>1. MemInv /\ cu_psp \in alive /\ alive \subseteq Segs /\ ghosts \subseteq Segs
    BY Running DEF Inv, TypeOK
  <2>2. Stack' = Stack
    BY DEF Stack
  <2> QED
    BY <2>1, <2>2 DEF MemInv, BlocksKept
<1>4. CountsMatch'
  <2>1. ASSUME NEW i \in Sfts
        PROVE  sft'[i].count = Cardinality(Refs(psp', alive', i)) + Cardinality(Holders(fcbs', alive', i))
                                         + ExecRef(i)' + lost'[i]
    <3> DEFINE r == Cardinality(Refs(psp, alive, i))
               f == Cardinality(Holders(fcbs, alive, i))
    <3>1. lost'[i] \in Nat /\ sft'[i].count \in Nat /\ ExecRef(i)' \in 0..1
      BY DEF Types, Entry, ExecRef
    <3>2. /\ sft[i].count = r + f + ExecRef(i) + lost[i] /\ r \in Nat /\ f \in Nat
          /\ sft[i].count \in Nat /\ lost[i] \in Nat /\ ExecRef(i) \in 0..1
      BY Counts
    <3>3. sft'[i].count - sft[i].count = lost'[i] - lost[i] + (ExecRef(i)' - ExecRef(i))
      BY DEF ExecReckons
    <3> HIDE DEF r, f
    <3>4. sft'[i].count = r + f + ExecRef(i)' + lost'[i]
      BY <3>1, <3>2, <3>3
    <3> QED
      BY <3>4, Zenon DEF r, f
  <2> QED
    BY <2>1, CountsNext
<1>5. OwnTables /\ Sized' /\ OwnFcbs
  BY SameTables, SameFcbs
<1>6. RefInv' /\ NoInherit'
  BY <1>4, <1>5, StillPrivate DEF EntriesKept, OwnTables, Sized, OwnFcbs
<1> QED
  BY <1>1, <1>2, <1>3, <1>4, <1>6 DEF Inv

\* The reference EXEC holds.
LEMMA ExecHolds ==
  ASSUME Inv
  PROVE  /\ pc \in {"user", "abort"} => \A i \in Sfts : ExecRef(i) = 0
         /\ pc \in ExecPcs => /\ x.fd \in Sfts /\ sft[x.fd].count \in 0..1
                              /\ \A i \in Sfts : ExecRef(i) = IF i = x.fd THEN sft[i].count ELSE 0
         /\ pc \in ExecPcs => x \in Exec /\ pc \in {"user", "abort"} \cup ExecPcs /\ under = None /\ pc # "user"
<1>1. ASSUME pc \in {"user", "abort"}, NEW i \in Sfts
      PROVE  ExecRef(i) = 0
  BY <1>1, Sizes DEF Inv, ExecInv, ExecRef, NoExec
<1>2. ASSUME pc \in ExecPcs
      PROVE  /\ x.fd \in Sfts /\ sft[x.fd].count \in 0..1 /\ pc # "user"
             /\ \A i \in Sfts : ExecRef(i) = IF i = x.fd THEN sft[i].count ELSE 0
  <2>1. pc # "user"
    BY <1>2 DEF ExecPcs
  <2> QED
    BY <1>2, <2>1 DEF Inv, ExecInv, ExecRef
<1> QED
  BY <1>1, <1>2, SameTypes DEF Inv, ExecInv, Types

\* The program is over and EXEC with it: its file stays open.
LEMMA ExecAbandoned ==
  ASSUME Inv, pc \in {"header", "read", "close"}, Abandon,
         UNCHANGED <<owner, cu_psp, under, psp, sft, alive, kept, ghosts, fcbs>>
  PROVE  Inv'
<1>1. Types /\ NoExec \in Exec
  BY SameTypes, Nothing DEF Inv
<1>2. /\ x.fd \in Sfts /\ sft[x.fd].count = 1 /\ under = None
      /\ \A i \in Sfts : ExecRef(i) = IF i = x.fd THEN sft[i].count ELSE 0
  BY ExecHolds DEF ExecPcs, Inv, ExecInv
<1>3. lost' = More(lost, x.fd, 1) /\ pc' = "abort" /\ x' = NoExec
  BY DEF Abandon, Forget, More
<1>4. lost' \in [Sfts -> Nat] /\ \A k \in Sfts : lost'[k] = IF k = x.fd THEN lost[k] + 1 ELSE lost[k]
  <2>1. lost \in [Sfts -> Nat]
    BY <1>1 DEF Types
  <2> QED
    BY <1>2, <1>3, <2>1, ForgottenOne
<1>5. Types'
  BY <1>1, <1>3, <1>4 DEF Types
<1>6. ExecInv'
  BY <1>2, <1>3 DEF ExecInv, ExecPcs
<1>7. \A i \in Sfts : ExecRef(i)' = 0
  BY <1>3, Sizes DEF ExecRef, NoExec
<1>8. ExecReckons
  <2>1. ASSUME NEW k \in Sfts
        PROVE  sft'[k].count - sft[k].count = lost'[k] - lost[k] + (ExecRef(k)' - ExecRef(k))
    <3>1. sft'[k].count - sft[k].count = 0 /\ lost[k] \in Nat
      BY Counts
    <3>2. lost'[k] - lost[k] = IF k = x.fd THEN 1 ELSE 0
      BY <1>4, <3>1
    <3>3. ExecRef(k) = (IF k = x.fd THEN 1 ELSE 0) /\ ExecRef(k)' = 0
      BY <1>2, <1>7
    <3> QED
      BY <3>1, <3>2, <3>3
  <2> QED
    BY <2>1 DEF ExecReckons
<1>9. BlocksKept /\ EntriesKept
  BY DEF BlocksKept, EntriesKept, Same
<1> QED
  BY <1>5, <1>6, <1>8, <1>9, ExecCall

LEMMA ExecOpenStep ==
  ASSUME Inv, ExecOpen
  PROVE  Inv'
<1>1. Types
  BY SameTypes DEF Inv
<1> DEFINE i == get_free_sft
<1>2. PICK mode \in {"run", "load", "overlay"}, out \in Outs \ {"fail"} :
       /\ sft' = DosOpenSft("file", FALSE, FALSE, out)
       /\ IF out = "ok" THEN /\ x' = [NoExec EXCEPT !.fd = i, !.mode = mode, !.found = <<owner, Held>>]
                             /\ pc' = "header"
                             /\ UNCHANGED lost
          ELSE lost' = More(lost, i, 1) /\ pc' = "abort" /\ UNCHANGED x
  BY DEF ExecOpen, Forget, More
<1>3. /\ FreeSfts # {} /\ pc = "user" /\ under = None
      /\ UNCHANGED <<owner, cu_psp, under, psp, alive, kept, ghosts, fcbs>>
  BY DEF ExecOpen, procs, Call
<1>4. i \in Sfts /\ sft[i].count = 0
  BY <1>3, FreeEntry
<1>5. sft' \in [Sfts -> Entry] /\ sft'[i].count = 1 /\ \A k \in Sfts \ {i} : sft'[k] = sft[k]
  <2>1. IsOpened(sft', i, FALSE, out)
    BY <1>2, <1>3, Opened, Zenon
  <2> QED
    BY <1>2, <2>1 DEF IsOpened
<1> HIDE DEF i
<1>6. BlocksKept /\ EntriesKept
  BY <1>3, <1>4, <1>5, FreshOnly DEF BlocksKept
<1>7. \A k \in Sfts : sft'[k].count - sft[k].count = IF k = i THEN 1 ELSE 0
  BY <1>1, <1>4, <1>5 DEF Types, Entry
<1>8. \A k \in Sfts : ExecRef(k) = 0
  BY <1>3, ExecHolds
<1>9. CASE out = "ok"
  <2>1. x' = [NoExec EXCEPT !.fd = i, !.mode = mode, !.found = <<owner, Held>>] /\ pc' = "header" /\ UNCHANGED lost
    BY <1>2, <1>9
  <2>2. <<owner, Held>> \in [Segs -> Segs \cup {None}] \X [Sfts -> Int]
    BY <1>1, Counts DEF Types, Held
  <2>3. x' = [fd |-> i, format |-> "com", mode |-> mode, env |-> None, mem |-> None, found |-> <<owner, Held>>]
    BY <2>1 DEF NoExec
  <2>4. x' \in Exec /\ x'.fd = i /\ x'.env = None /\ x'.mem = None
    BY <1>4, <2>2, <2>3 DEF Exec
  <2>5. Types'
    BY <1>1, <1>3, <1>5, <2>1, <2>4 DEF Types, ExecPcs
  <2>6. ExecInv'
    BY <1>3, <1>4, <1>5, <2>1, <2>4 DEF ExecInv, ExecPcs
  <2>7. \A k \in Sfts : ExecRef(k)' = IF k = i THEN 1 ELSE 0
    BY <1>5, <2>1, <2>4 DEF ExecRef
  <2>8. ExecReckons
    BY <1>7, <1>8, <2>1, <2>7, Counts DEF ExecReckons
  <2> QED
    BY <1>3, <1>6, <2>5, <2>6, <2>8, ExecCall
<1>10. CASE out # "ok"
  <2>1. lost' = More(lost, i, 1) /\ pc' = "abort" /\ UNCHANGED x
    BY <1>2, <1>10
  <2>2. lost' \in [Sfts -> Nat] /\ \A k \in Sfts : lost'[k] = IF k = i THEN lost[k] + 1 ELSE lost[k]
    <3>1. lost \in [Sfts -> Nat]
      BY <1>1 DEF Types
    <3> QED
      BY <1>4, <2>1, <3>1, ForgottenOne
  <2>3. Types'
    BY <1>1, <1>3, <1>5, <2>1, <2>2 DEF Types
  <2>4. x = NoExec
    BY <1>3 DEF Inv, ExecInv
  <2>5. ExecInv'
    BY <1>3, <2>1, <2>4 DEF ExecInv, ExecPcs
  <2>6. \A k \in Sfts : ExecRef(k)' = 0
    BY <2>1, <2>4, Sizes DEF ExecRef, NoExec
  <2>7. ExecReckons
    BY <1>7, <1>8, <2>2, <2>6, Counts DEF ExecReckons
  <2> QED
    BY <1>3, <1>6, <2>3, <2>5, <2>7, ExecCall
<1> QED
  BY <1>9, <1>10

\* EXEC goes on to its next transfer or allocation.
LEMMA ExecGoesOn ==
  ASSUME Inv, pc \in ExecPcs, pc' \in ExecPcs, x' \in Exec, x'.fd = x.fd,
         owner' \in [Segs -> Segs \cup {None}],
         UNCHANGED <<cu_psp, under, psp, sft, lost, alive, kept, ghosts, fcbs>>, BlocksKept, ExecInv'
  PROVE  Inv'
<1>1. Types
  BY SameTypes DEF Inv
<1>2. Types'
  BY <1>1 DEF Types
<1>3. ASSUME NEW i \in Sfts
      PROVE  ExecRef(i)' = ExecRef(i)
  BY DEF ExecRef, ExecPcs
<1>4. ExecReckons
  BY <1>3, Counts DEF ExecReckons
<1>5. EntriesKept
  BY DEF EntriesKept, Same
<1> QED
  BY <1>2, <1>4, <1>5, ExecCall

\* Blocks nobody else uses are freed.
LEMMA Freed ==
  ASSUME Inv, NEW S, S \cap (alive \cup ghosts) = {}, owner' = Gone(S)
  PROVE  owner' \in [Segs -> Segs \cup {None}] /\ BlocksKept
<1>1. owner \in [Segs -> Segs \cup {None}] /\ alive \subseteq Segs /\ ghosts \subseteq Segs
  BY DEF Inv, TypeOK
<1> QED
  BY <1>1 DEF Gone, BlocksKept

LEMMA ExecHeaderStep ==
  ASSUME Inv, ExecHeader
  PROVE  Inv'
<1>1. /\ pc = "header" /\ pc \in ExecPcs
      /\ UNCHANGED <<owner, cu_psp, under, psp, sft, alive, kept, ghosts, fcbs>>
  BY DEF ExecHeader, procs, ExecPcs
<1>2. /\ x \in Exec /\ x.fd \in Sfts /\ sft[x.fd].count = 1 /\ under = None
      /\ x.mode = "overlay" => x.env = None /\ x.mem = None
  BY <1>1, ExecHolds DEF Inv, ExecInv, ExecPcs
<1>3. owner' \in [Segs -> Segs \cup {None}] /\ BlocksKept
  BY <1>1 DEF Inv, TypeOK, BlocksKept
<1>4. ASSUME NEW format \in {"com", "exe"}, x' = [x EXCEPT !.format = format],
             pc' = IF x.mode = "overlay" THEN "read" ELSE "env", UNCHANGED lost
      PROVE  Inv'
  <2>1. x' \in Exec /\ x'.fd = x.fd /\ x'.mode = x.mode /\ x'.env = x.env /\ x'.mem = x.mem
    BY <1>2, <1>4 DEF Exec
  <2>2. pc' \in ExecPcs
    BY <1>4 DEF ExecPcs
  <2>3. ExecInv'
    BY <1>1, <1>2, <1>4, <2>1 DEF ExecInv, ExecPcs
  <2> QED
    BY <1>1, <1>3, <1>4, <2>1, <2>2, <2>3, ExecGoesOn
<1>5. CASE GiveUp /\ UNCHANGED lost
  <2>1. pc' = "giveup" /\ pc' \in ExecPcs /\ UNCHANGED <<x, lost>>
    BY <1>5 DEF GiveUp, ExecPcs
  <2>2. ExecInv'
    BY <1>1, <1>2, <2>1 DEF ExecInv, ExecPcs
  <2> QED
    BY <1>1, <1>2, <1>3, <2>1, <2>2, ExecGoesOn
<1>6. CASE Abandon
  BY <1>1, <1>6, ExecAbandoned
<1> QED
  BY <1>4, <1>5, <1>6 DEF ExecHeader

LEMMA ExecEnvStep ==
  ASSUME Inv, ExecEnv
  PROVE  Inv'
<1>1. /\ pc = "env" /\ pc \in ExecPcs
      /\ UNCHANGED <<cu_psp, under, psp, sft, lost, alive, kept, ghosts, fcbs>>
  BY DEF ExecEnv, procs, files, ExecPcs
<1>2. /\ x \in Exec /\ x.fd \in Sfts /\ sft[x.fd].count = 1 /\ under = None /\ x.mode # "overlay"
      /\ owner \in [Segs -> Segs \cup {None}] /\ cu_psp \in alive /\ alive \subseteq Segs /\ ghosts \subseteq Segs
  BY <1>1, ExecHolds, Running DEF Inv, ExecInv, ExecPcs, TypeOK
<1>3. ASSUME NEW b \in Free, owner' = [owner EXCEPT ![b] = cu_psp], x' = [x EXCEPT !.env = b], pc' = "mem"
      PROVE  Inv'
  <2>1. b \in Segs /\ b \notin alive \cup ghosts
    BY FreeBlock
  <2>2. x' \in Exec /\ x'.fd = x.fd /\ x'.mode = x.mode /\ x'.env = b
    BY <1>2, <1>3, <2>1 DEF Exec
  <2>3. owner' \in [Segs -> Segs \cup {None}] /\ BlocksKept /\ owner'[b] = cu_psp
    BY <1>2, <1>3, <2>1 DEF BlocksKept
  <2>4. ExecInv' /\ pc' \in ExecPcs
    BY <1>1, <1>2, <1>3, <2>1, <2>2, <2>3 DEF ExecInv, ExecPcs, Taken
  <2> QED
    BY <1>1, <2>2, <2>3, <2>4, ExecGoesOn
<1>4. CASE GiveUp /\ UNCHANGED owner
  <2>1. pc' = "giveup" /\ pc' \in ExecPcs /\ UNCHANGED <<x, owner>>
    BY <1>4 DEF GiveUp, ExecPcs
  <2>2. ExecInv' /\ BlocksKept
    BY <1>1, <1>2, <2>1 DEF ExecInv, ExecPcs, BlocksKept
  <2> QED
    BY <1>1, <1>2, <2>1, <2>2, ExecGoesOn
<1> QED
  BY <1>3, <1>4 DEF ExecEnv

LEMMA ExecMemStep ==
  ASSUME Inv, ExecMem
  PROVE  Inv'
<1>1. /\ pc = "mem" /\ pc \in ExecPcs
      /\ UNCHANGED <<cu_psp, under, psp, sft, lost, alive, kept, ghosts, fcbs>>
  BY DEF ExecMem, procs, files, ExecPcs
<1>2. /\ x \in Exec /\ x.fd \in Sfts /\ sft[x.fd].count = 1 /\ under = None /\ x.mode # "overlay"
      /\ owner \in [Segs -> Segs \cup {None}] /\ cu_psp \in alive /\ alive \subseteq Segs /\ ghosts \subseteq Segs
      /\ Taken(x.env)
  BY <1>1, ExecHolds, Running DEF Inv, ExecInv, ExecPcs, TypeOK
<1>3. ASSUME NEW b \in Free, owner' = [owner EXCEPT ![b] = cu_psp], x' = [x EXCEPT !.mem = b], pc' = "read"
      PROVE  Inv'
  <2>1. b \in Segs /\ b \notin alive \cup ghosts /\ owner[b] = None /\ cu_psp # None
    BY FreeBlock, <1>2, HandlesAssumption
  <2>2. x' \in Exec /\ x'.fd = x.fd /\ x'.mode = x.mode /\ x'.env = x.env /\ x'.mem = b
    BY <1>2, <1>3, <2>1 DEF Exec
  <2>3. owner' \in [Segs -> Segs \cup {None}] /\ BlocksKept /\ owner'[b] = cu_psp
    BY <1>2, <1>3, <2>1 DEF BlocksKept
  <2>4. x.env # b /\ owner'[x.env] = cu_psp
    BY <1>2, <1>3, <2>1 DEF Taken
  <2>5. ExecInv' /\ pc' \in ExecPcs
    BY <1>1, <1>2, <1>3, <2>1, <2>2, <2>3, <2>4 DEF ExecInv, ExecPcs, Taken
  <2> QED
    BY <1>1, <2>2, <2>3, <2>5, ExecGoesOn
<1>4. CASE owner' = Gone({x.env}) /\ GiveUp
  <2>1. pc' = "giveup" /\ pc' \in ExecPcs /\ UNCHANGED x
    BY <1>4 DEF GiveUp, ExecPcs
  <2>2. owner' \in [Segs -> Segs \cup {None}] /\ BlocksKept
    BY <1>2, <1>4, Freed DEF Taken
  <2>3. ExecInv'
    BY <1>1, <1>2, <2>1 DEF ExecInv, ExecPcs
  <2> QED
    BY <1>1, <1>2, <2>1, <2>2, <2>3, ExecGoesOn
<1> QED
  BY <1>3, <1>4 DEF ExecMem

LEMMA ExecReadStep ==
  ASSUME Inv, ExecRead
  PROVE  Inv'
<1>1. /\ pc = "read" /\ pc \in ExecPcs
      /\ UNCHANGED <<cu_psp, under, psp, sft, alive, kept, ghosts, fcbs>>
  BY DEF ExecRead, procs, ExecPcs
<1>2. /\ x \in Exec /\ x.fd \in Sfts /\ sft[x.fd].count = 1 /\ under = None
      /\ owner \in [Segs -> Segs \cup {None}] /\ None \notin alive \cup ghosts
      /\ x.mode = "overlay" => x.env = None /\ x.mem = None
      /\ x.mode # "overlay" => Taken(x.env) /\ Taken(x.mem) /\ x.mem # x.env
  BY <1>1, ExecHolds, HandlesAssumption DEF Inv, ExecInv, ExecPcs, TypeOK
<1>3. CASE pc' = "close" /\ UNCHANGED <<owner, lost, x>>
  <2>1. ExecInv' /\ pc' \in ExecPcs /\ BlocksKept
    BY <1>1, <1>2, <1>3 DEF ExecInv, ExecPcs, BlocksKept, Taken
  <2> QED
    BY <1>1, <1>2, <1>3, <2>1, ExecGoesOn
<1>4. CASE owner' = Gone({x.env, x.mem}) /\ GiveUp /\ UNCHANGED lost
  <2>1. pc' = "giveup" /\ pc' \in ExecPcs /\ UNCHANGED <<x, lost>>
    BY <1>4 DEF GiveUp, ExecPcs
  <2>2. {x.env, x.mem} \cap (alive \cup ghosts) = {}
    BY <1>2 DEF Taken
  <2>3. owner' \in [Segs -> Segs \cup {None}] /\ BlocksKept
    BY <1>4, <2>2, Freed
  <2>4. ExecInv'
    BY <1>1, <1>2, <2>1 DEF ExecInv, ExecPcs
  <2> QED
    BY <1>1, <1>2, <2>1, <2>3, <2>4, ExecGoesOn
<1>5. CASE Abandon /\ UNCHANGED owner
  BY <1>1, <1>5, ExecAbandoned
<1> QED
  BY <1>3, <1>4, <1>5 DEF ExecRead

LEMMA ExecCloseStep ==
  ASSUME Inv, ExecClose
  PROVE  Inv'
<1>1. Types
  BY SameTypes DEF Inv
<1>2. /\ pc = "close" /\ pc \in ExecPcs
      /\ UNCHANGED <<owner, cu_psp, under, psp, alive, kept, ghosts, fcbs>>
  BY DEF ExecClose, procs, ExecPcs
<1>3. PICK out \in Outcomes :
       /\ sft' = DosCloseSft(sft, x.fd, out)
       /\ IF out = "abort" THEN Abandon
          ELSE /\ pc' = IF x.mode = "overlay" THEN "finish" ELSE "start"
               /\ UNCHANGED <<x, lost>>
  BY DEF ExecClose
<1>4. /\ x \in Exec /\ x.fd \in Sfts /\ sft[x.fd].count = 1 /\ under = None
      /\ x.mode = "overlay" => x.env = None /\ x.mem = None
      /\ x.mode # "overlay" => Taken(x.env) /\ Taken(x.mem) /\ x.mem # x.env
  BY <1>2, ExecHolds DEF Inv, ExecInv, ExecPcs
<1>5. CASE out = "abort"
  <2>1. UNCHANGED sft /\ Abandon
    BY <1>3, <1>5 DEF DosCloseSft
  <2> QED
    BY <1>2, <2>1, ExecAbandoned
<1>6. CASE out # "abort"
  <2>1. pc' \in ExecPcs \cap {"finish", "start"} /\ UNCHANGED <<x, lost>> /\ (pc' = "start" => x.mode # "overlay")
    BY <1>3, <1>6 DEF ExecPcs
  <2> DEFINE n == IF out = "ok" THEN -1 ELSE 0
  <2>2. Counted(sft', sft, x.fd, n)
    BY <1>1, <1>3, <1>4, Closed DEF Types
  <2>3. EntriesKept
    BY <2>2, CountedKeeps
  <2>4. sft' \in [Sfts -> Entry] /\ \A k \in Sfts : sft'[k].count = IF k = x.fd THEN sft[k].count + n ELSE sft[k].count
    BY <2>2 DEF Counted
  <2>5. Types'
    BY <1>1, <1>2, <2>1, <2>4 DEF Types
  <2>6. n \in {-1, 0} /\ sft'[x.fd].count \in 0..1
    BY <1>4, <2>4
  <2> HIDE DEF n
  <2>7. ExecInv'
    BY <1>2, <1>4, <2>1, <2>6 DEF ExecInv, ExecPcs, Taken
  <2>8. ASSUME NEW k \in Sfts
        PROVE  sft'[k].count - sft[k].count = lost'[k] - lost[k] + (ExecRef(k)' - ExecRef(k))
    <3>1. ExecRef(k) = IF k = x.fd THEN sft[k].count ELSE 0
      BY <1>2, ExecHolds
    <3>2. ExecRef(k)' = IF k = x.fd THEN sft'[k].count ELSE 0
      BY <1>4, <2>1, <2>6 DEF ExecRef
    <3> QED
      BY <1>4, <2>1, <2>4, <2>6, <3>1, <3>2, Counts
  <2>9. ExecReckons /\ BlocksKept
    BY <1>2, <2>8 DEF ExecReckons, BlocksKept
  <2> QED
    BY <1>2, <2>3, <2>5, <2>7, <2>9, ExecCall
<1> QED
  BY <1>5, <1>6

LEMMA ExecFinishStep ==
  ASSUME Inv, ExecFinish
  PROVE  Inv'
<1>1. Types /\ NoExec \in Exec
  BY SameTypes, Nothing DEF Inv
<1>2. /\ pc \in ExecPcs /\ x' = NoExec
      /\ UNCHANGED <<owner, cu_psp, under, psp, alive, kept, ghosts, fcbs>>
  BY DEF ExecFinish, procs, ExecPcs
<1>3. /\ x.fd \in Sfts /\ sft[x.fd].count \in 0..1 /\ under = None
      /\ \A k \in Sfts : ExecRef(k) = IF k = x.fd THEN sft[k].count ELSE 0
  BY <1>2, ExecHolds
<1>4. \A k \in Sfts : ExecRef(k)' = 0
  BY <1>2, Sizes DEF ExecRef, NoExec
<1>5. BlocksKept
  BY <1>2 DEF BlocksKept
<1>6. CASE sft[x.fd].count = 0 /\ pc' = "user" /\ UNCHANGED <<sft, lost>>
  <2>1. Types' /\ ExecInv' /\ EntriesKept
    BY <1>1, <1>2, <1>3, <1>6 DEF Types, ExecInv, ExecPcs, EntriesKept, Same
  <2>2. ExecReckons
    BY <1>3, <1>4, <1>6, Counts DEF ExecReckons
  <2> QED
    BY <1>2, <1>5, <2>1, <2>2, ExecCall
<1>7. ASSUME NEW out \in Outcomes, sft[x.fd].count > 0, sft' = DosCloseSft(sft, x.fd, out),
             Forget(x.fd, IF out = "ok" THEN 0 ELSE 1), pc' = After(out)
      PROVE  Inv'
  <2> DEFINE n == IF out = "ok" THEN -1 ELSE 0
             m == IF out = "ok" THEN 0 ELSE 1
  <2>1. Counted(sft', sft, x.fd, n)
    BY <1>1, <1>3, <1>7, Closed DEF Types
  <2>2. EntriesKept /\ pc' \in {"user", "abort"}
    BY <1>7, <2>1, CountedKeeps DEF After
  <2>3. sft' \in [Sfts -> Entry] /\ \A k \in Sfts : sft'[k].count = IF k = x.fd THEN sft[k].count + n ELSE sft[k].count
    BY <2>1 DEF Counted
  <2>4. n \in Int /\ m \in Nat /\ m = n + 1 /\ sft[x.fd].count = 1
    BY <1>3, <1>7
  <2>5. lost' = More(lost, x.fd, m)
    BY <1>7 DEF Forget, More
  <2> HIDE DEF n, m
  <2>6. lost' \in [Sfts -> Nat] /\ \A k \in Sfts : lost'[k] = IF k = x.fd THEN lost[k] + m ELSE lost[k]
    <3> DEFINE i == x.fd
               l == lost
    <3>1. l \in [Sfts -> Nat] /\ i \in Sfts
      BY <1>1, <1>3 DEF Types
    <3>2. lost' = More(l, i, m)
      BY <2>5
    <3> HIDE DEF i, l
    <3>3. lost' \in [Sfts -> Nat] /\ \A k \in Sfts : lost'[k] = IF k = i THEN l[k] + m ELSE l[k]
      BY <2>4, <3>1, <3>2, Forgotten
    <3> QED
      BY <3>3 DEF i, l
  <2>7. Types'
    BY <1>1, <1>2, <2>2, <2>3, <2>6 DEF Types
  <2>8. ExecInv'
    BY <1>2, <1>3, <2>2 DEF ExecInv, ExecPcs
  <2>9. ASSUME NEW k \in Sfts
        PROVE  sft'[k].count - sft[k].count = lost'[k] - lost[k] + (ExecRef(k)' - ExecRef(k))
    <3>1. ExecRef(k) = (IF k = x.fd THEN 1 ELSE 0) /\ ExecRef(k)' = 0
      BY <1>3, <1>4, <2>4
    <3>2. lost[k] \in Nat /\ sft[k].count \in Nat
      BY Counts
    <3> QED
      BY <2>3, <2>4, <2>6, <3>1, <3>2
  <2>10. ExecReckons
    BY <2>9 DEF ExecReckons
  <2> QED
    BY <1>2, <1>5, <2>2, <2>7, <2>8, <2>10, ExecCall
<1> QED
  BY <1>6, <1>7 DEF ExecFinish

\* The PSP of a new process: its handles are some of its parent's, each
\* counted once more.
NewTable(b) ==
  /\ psp' \in [Segs -> Psp] /\ Fits(psp')
  /\ \A q \in Segs \ {b} : psp'[q] = psp[q]
  /\ psp'[b].parent = cu_psp
  /\ \A h \in Handle : psp'[b].ps_filetab[h] # NoFile =>
       /\ ~(h >= psp'[b].size)
       /\ psp'[b].ps_filetab[h] = Me.ps_filetab[h] /\ ~sft[Me.ps_filetab[h]].noinherit
  /\ sft' \in [Sfts -> Entry]
  /\ \A i \in Sfts : /\ Same(sft'[i], sft[i])
                     /\ sft'[i].count = sft[i].count + Cardinality(Cells(psp'[b].ps_filetab, Handle, i))
                     /\ To(cu_psp, Inherited, i) = Cardinality(Cells(psp'[b].ps_filetab, Handle, i))

LEMMA Child ==
  ASSUME Inv, NEW b \in Segs, child_psp(b)
  PROVE  NewTable(b)
<1>1. Types
  BY SameTypes DEF Inv
<1>2. /\ cu_psp \in Segs /\ Me \in Psp /\ Me.ps_filetab \in [Handle -> Sfts \cup {NoFile}]
  BY Running DEF Psp
<1>3. StdFiles \in Nat /\ MaxFiles \in Nat /\ StdFiles <= MaxFiles /\ 0..StdFiles-1 \subseteq Handle
  BY Sizes DEF Handle
<1>4. \A h \in Inherited : /\ h \in Handle /\ h < StdFiles /\ Me.ps_filetab[h] \in Sfts
                           /\ ~sft[Me.ps_filetab[h]].noinherit
  BY <1>3, OpenHandle DEF Inherited
<1> DEFINE t == [h \in Handle |-> IF h \in Inherited THEN Me.ps_filetab[h] ELSE NoFile]
           r == [parent |-> cu_psp, size |-> StdFiles, ps_maxfiles |-> StdFiles, ps_filetab |-> t]
           S == Inherited
<1>5. t \in [Handle -> Sfts \cup {NoFile}]
  BY <1>2
<1>6. r \in Psp /\ r.parent = cu_psp /\ r.size = StdFiles /\ r.ps_maxfiles = StdFiles /\ r.ps_filetab = t
  <2> HIDE DEF t
  <2> QED
    BY <1>2, <1>3, <1>5 DEF Psp
<1>7. psp' = [psp EXCEPT ![b] = r] /\ sft' = [i \in Sfts |-> [sft[i] EXCEPT !.count = @ + To(cu_psp, S, i)]]
  BY DEF child_psp
<1>8. ASSUME NEW h \in Handle, t[h] # NoFile
      PROVE  /\ ~(h >= StdFiles) /\ t[h] = Me.ps_filetab[h] /\ ~sft[Me.ps_filetab[h]].noinherit
  <2>1. h \in Inherited
    BY <1>8
  <2>2. h \in Int
    BY Sizes DEF Handle
  <2> QED
    BY <1>3, <1>4, <2>1, <2>2
<1>9. ASSUME NEW i \in Sfts
      PROVE  To(cu_psp, S, i) = Cardinality(Cells(t, Handle, i)) /\ Cardinality(Cells(t, Handle, i)) \in Nat
  <2>1. Cells(t, Handle, i) = {h \in S : psp[cu_psp].ps_filetab[h] = i}
    BY <1>4, Sizes DEF Cells, Me
  <2> QED
    BY <2>1, CellsCount, Zenon DEF To
<1> HIDE DEF t, r, S
<1>10. \A i \in Sfts : sft[i] \in Entry
  BY <1>1 DEF Types
<1>11. /\ sft' \in [Sfts -> Entry]
       /\ \A i \in Sfts : /\ Same(sft'[i], sft[i])
                          /\ sft'[i].count = sft[i].count + Cardinality(Cells(t, Handle, i))
  BY <1>7, <1>9, <1>10 DEF Entry, Same
<1>12. psp' \in [Segs -> Psp] /\ psp'[b] = r /\ \A q \in Segs \ {b} : psp'[q] = psp[q]
  BY <1>1, <1>6, <1>7 DEF Types
<1>13. Fits(psp')
  BY <1>1, <1>3, <1>6, <1>12 DEF Types, Fits
<1>14. psp'[b].ps_filetab = t /\ psp'[b].size = StdFiles /\ psp'[b].parent = cu_psp
  BY <1>6, <1>12
<1> QED
  BY <1>8, <1>9, <1>11, <1>12, <1>13, <1>14, Zenon DEF NewTable, S

\* A process in a block nobody else uses becomes the running one.
LEMMA NewProcess ==
  ASSUME Inv, Types', NEW b \in Segs, b \notin alive \cup ghosts, NewTable(b), under = None,
         cu_psp' = b, alive' = alive \cup {b}, UNCHANGED <<under, kept, ghosts, fcbs>>,
         \A i \in Sfts : ExecRef(i)' + lost'[i] = ExecRef(i) + lost[i],
         MemInv', ExecInv'
  PROVE  Inv'
<1>1. TypeOK'
  BY SameTypes
<1>2. /\ cu_psp \in alive /\ alive \subseteq Segs /\ kept \subseteq alive /\ psp'[b].parent = cu_psp
      /\ \A q \in alive : psp'[q] = psp[q]
      /\ \A p \in Segs \ alive : fcbs[p] = {}
  BY Running DEF Inv, TypeOK, NewTable, RefInv
<1>3. StackInv'
  <2>1. Stack' = Stack \cup {b} /\ Top' = b /\ Top = cu_psp /\ Stack \subseteq alive /\ b \notin Stack
    BY <1>2 DEF Stack, Top
  <2>2. StackInv
    BY DEF Inv
  <2>3. Root \in Stack' /\ psp'[Root].parent = Root /\ Top' \in Stack'
    BY <1>2, <2>1, <2>2 DEF StackInv
  <2>4. \A p \in Stack' \ {Root} : psp'[p].parent \in Stack' /\ psp'[p].parent # Top'
    BY <1>2, <2>1, <2>2 DEF StackInv
  <2>5. ASSUME NEW p \in Stack' \ {Root}, NEW q \in Stack' \ {Root}, psp'[p].parent = psp'[q].parent
        PROVE  p = q
    BY <1>2, <2>1, <2>2, <2>5 DEF StackInv
  <2> QED
    BY <2>3, <2>4, <2>5 DEF StackInv
<1>4. CountsMatch'
  <2>1. ASSUME NEW i \in Sfts
        PROVE  sft'[i].count = Cardinality(Refs(psp', alive', i)) + Cardinality(Holders(fcbs', alive', i))
                                         + ExecRef(i)' + lost'[i]
    <3> DEFINE r == Cardinality(Refs(psp, alive, i))
               r1 == Cardinality(Refs(psp', alive', i))
               f == Cardinality(Holders(fcbs, alive, i))
               c == Cardinality(Cells(psp'[b].ps_filetab, Handle, i))
    <3>1. r1 = r + c
      <4> DEFINE P == psp
                 Q == psp'
                 A == alive
      <4>1. A \subseteq Segs /\ b \in Segs \ A /\ KeepTables(P, Q, A)
        BY <1>2 DEF KeepTables
      <4>2. r1 = Cardinality(Refs(Q, A \cup {b}, i))
        OBVIOUS
      <4> HIDE DEF P, Q, A, r1
      <4>3. r1 = Cardinality(Refs(P, A, i)) + Cardinality(Cells(Q[b].ps_filetab, Handle, i))
        BY <4>1, <4>2, RefsAdd
      <4> QED
        BY <4>3 DEF P, Q, A
    <3>2. Holders(fcbs', alive', i) = Holders(fcbs, alive, i)
      BY <1>2 DEF Holders
    <3>3. sft'[i].count = sft[i].count + c /\ c \in Nat
      BY CellsCount DEF NewTable
    <3>4. /\ sft[i].count = r + f + ExecRef(i) + lost[i] /\ r \in Nat /\ f \in Nat
          /\ sft[i].count \in Nat /\ lost[i] \in Nat /\ ExecRef(i) \in 0..1
      BY Counts
    <3>5. lost'[i] \in Nat /\ ExecRef(i)' \in Nat /\ ExecRef(i)' + lost'[i] = ExecRef(i) + lost[i]
      BY DEF Types, ExecRef
    <3> HIDE DEF r, r1, f, c
    <3>6. sft'[i].count = r1 + f + ExecRef(i)' + lost'[i]
      BY <3>1, <3>3, <3>4, <3>5
    <3> QED
      BY <3>2, <3>6, Zenon DEF r1, f
  <2> QED
    BY <2>1, CountsNext
<1>5. RefInv' /\ NoInherit'
  <2>1. \A i \in Sfts : sft[i].count # 0 /\ sft'[i].count # 0 => Same(sft'[i], sft[i])
    BY DEF NewTable
  <2>2. ASSUME NEW p \in alive', NEW h \in Handle, psp'[p].ps_filetab[h] # NoFile
        PROVE  \E q \in alive, g \in Handle :
                  /\ psp'[p].ps_filetab[h] = psp[q].ps_filetab[g]
                  /\ p = q \/ ~sft[psp[q].ps_filetab[g]].noinherit
    <3>1. CASE p \in alive
      BY <1>2, <3>1
    <3>2. CASE p = b
      <4>1. psp'[p].ps_filetab[h] = psp[cu_psp].ps_filetab[h] /\ ~sft[psp[cu_psp].ps_filetab[h]].noinherit
        BY <2>2, <3>2 DEF NewTable, Me
      <4> QED
        BY <1>2, <4>1
    <3> QED
      BY <3>1, <3>2
  <2>3. \A p \in alive', h \in Handle : h >= psp'[p].size => psp'[p].ps_filetab[h] = NoFile
    BY <1>2 DEF Inv, RefInv, NewTable
  <2>4. \A p \in Segs \ alive' : fcbs'[p] = {}
    BY <1>2
  <2>5. \A p \in alive', i \in Sfts : i \in fcbs'[p] => p \in alive /\ i \in fcbs[p]
    BY <1>2
  <2> QED
    BY <1>4, <2>1, <2>2, <2>3, <2>4, <2>5, StillPrivate
<1> QED
  BY <1>1, <1>3, <1>4, <1>5 DEF Inv

LEMMA CreatePspStep ==
  ASSUME Inv, CreatePsp
  PROVE  Inv'
<1>1. Types
  BY SameTypes DEF Inv
<1>2. PICK b \in Segs \ (alive \cup ghosts) : /\ owner[b] = cu_psp /\ child_psp(b)
                                              /\ cu_psp' = b /\ alive' = alive \cup {b}
  BY DEF CreatePsp
<1>3. pc = "user" /\ under = None /\ UNCHANGED <<owner, under, pc, x, kept, ghosts, fcbs, lost>>
  BY DEF CreatePsp, Call
<1>4. NewTable(b)
  BY <1>2, Child
<1>5. /\ sft' \in [Sfts -> Entry] /\ psp' \in [Segs -> Psp] /\ Fits(psp')
      /\ psp'[b].parent = cu_psp /\ \A q \in Segs \ {b} : psp'[q] = psp[q]
  BY <1>4 DEF NewTable
<1>6. Types'
  BY <1>1, <1>2, <1>3, <1>5 DEF Types
<1>7. ExecInv' /\ \A i \in Sfts : ExecRef(i)' = 0 /\ ExecRef(i) = 0
  BY <1>3, Sizes DEF Inv, ExecInv, ExecPcs, ExecRef, NoExec
<1>8. MemInv'
  <2>1. MemInv /\ cu_psp \in alive /\ alive \subseteq Segs /\ kept \subseteq alive /\ Root \in Stack
    BY Running DEF Inv, TypeOK, StackInv
  <2>2. Stack' = Stack \cup {b} /\ b # Root /\ Stack \subseteq alive
    BY <1>2, <1>3, <2>1 DEF Stack
  <2> QED
    BY <1>2, <1>3, <1>5, <2>1, <2>2 DEF MemInv
<1> QED
  BY <1>2, <1>3, <1>4, <1>6, <1>7, <1>8, NewProcess

\* No handle names the file EXEC is reading: the child does not inherit it.
LEMMA LoadedFile ==
  ASSUME Inv, pc \in ExecPcs, NEW b, NewTable(b)
  PROVE  To(cu_psp, Inherited, x.fd) = 0 /\ sft'[x.fd].count = sft[x.fd].count
<1> DEFINE j == x.fd
           r == Cardinality(Refs(psp, alive, j))
           f == Cardinality(Holders(fcbs, alive, j))
<1>1. j \in Sfts /\ ExecRef(j) = sft[j].count
  BY ExecHolds
<1>2. /\ sft[j].count = r + f + ExecRef(j) + lost[j] /\ r \in Nat /\ f \in Nat /\ lost[j] \in Nat
      /\ sft[j].count \in Nat
  BY <1>1, Counts
<1>3. r = 0
  <2> DEFINE n == sft[j].count
             l == lost[j]
  <2>1. n = r + f + n + l /\ r \in Nat /\ f \in Nat /\ l \in Nat /\ n \in Nat
    BY <1>1, <1>2, Zenon
  <2> HIDE DEF r, f, n, l
  <2> QED
    BY <2>1
<1>4. \A h \in Handle : Me.ps_filetab[h] # j
  BY <1>3, Running, NoRefs DEF Me
<1>5. Cells(psp'[b].ps_filetab, Handle, j) = {}
  BY <1>1, <1>4, Sizes DEF NewTable, Cells
<1>6. Cardinality(Cells(psp'[b].ps_filetab, Handle, j)) = 0
  BY <1>5, FS_EmptySet
<1>7. /\ To(cu_psp, Inherited, j) = Cardinality(Cells(psp'[b].ps_filetab, Handle, j))
      /\ sft'[j].count = sft[j].count + Cardinality(Cells(psp'[b].ps_filetab, Handle, j))
  BY <1>1, Zenon DEF NewTable
<1>8. To(cu_psp, Inherited, j) = 0 /\ sft'[j].count = sft[j].count + 0
  BY <1>6, <1>7, Zenon
<1> QED
  BY <1>2, <1>8

\* The program EXEC loaded becomes a process, and the running one.
LEMMA ExecStarted ==
  ASSUME Inv, pc = "start", child_psp(x.mem), owner' = [owner EXCEPT ![x.mem] = x.mem, ![x.env] = x.mem],
         cu_psp' = x.mem, alive' = alive \cup {x.mem},
         \/ Forget(x.fd, sft[x.fd].count) /\ pc' = "user" /\ x' = NoExec
         \/ pc' = "finish" /\ UNCHANGED <<x, lost>>,
         UNCHANGED <<under, kept, ghosts, fcbs>>
  PROVE  Inv'
<1>1. Types /\ NoExec \in Exec
  BY SameTypes, Nothing DEF Inv
<1>2. pc \in ExecPcs
  BY DEF ExecPcs
<1>3. /\ x \in Exec /\ x.fd \in Sfts /\ sft[x.fd].count \in 0..1 /\ under = None /\ x.mode # "overlay"
      /\ Taken(x.mem) /\ Taken(x.env) /\ x.mem # x.env
      /\ \A i \in Sfts : ExecRef(i) = IF i = x.fd THEN sft[i].count ELSE 0
  BY <1>2, ExecHolds DEF Inv, ExecInv
<1> DEFINE b == x.mem
           e == x.env
           j == x.fd
           n == sft[j].count
<1>4. /\ b \in Segs /\ b \notin alive \cup ghosts /\ e \in Segs /\ e \notin alive \cup ghosts /\ b # e
      /\ j \in Sfts /\ n \in 0..1
  BY <1>3 DEF Taken
<1>5. NewTable(b) /\ cu_psp' = b /\ alive' = alive \cup {b} /\ owner' = [owner EXCEPT ![b] = b, ![e] = b]
  BY <1>4, Child
<1>6. /\ sft' \in [Sfts -> Entry] /\ psp' \in [Segs -> Psp] /\ Fits(psp')
      /\ psp'[b].parent = cu_psp /\ \A q \in Segs \ {b} : psp'[q] = psp[q]
  BY <1>5 DEF NewTable
<1>7. sft'[j].count = n
  BY <1>2, <1>5, LoadedFile
<1>8. MemInv'
  <2>1. MemInv /\ cu_psp \in alive /\ alive \subseteq Segs /\ kept \subseteq alive /\ Root \in Stack
        /\ owner \in [Segs -> Segs \cup {None}] /\ ghosts \subseteq Segs
    BY Running DEF Inv, TypeOK, StackInv
  <2>2. Stack' = Stack \cup {b} /\ b # Root /\ Stack \subseteq alive
    BY <1>4, <1>5, <2>1 DEF Stack
  <2>3. /\ \A c \in alive \cup ghosts : owner'[c] = owner[c]
        /\ \A c \in Segs : owner'[c] = owner[c] \/ owner'[c] = b
        /\ owner'[b] = b
    BY <1>4, <1>5, <2>1
  <2> HIDE DEF b, e, j, n
  <2> QED
    BY <1>4, <1>5, <1>6, <2>1, <2>2, <2>3 DEF MemInv
<1>9. CASE Forget(x.fd, sft[x.fd].count) /\ pc' = "user" /\ x' = NoExec
  <2>1. lost' = More(lost, j, n) /\ lost \in [Sfts -> Nat] /\ n \in Nat
    BY <1>1, <1>4, <1>9 DEF Forget, More, Types
  <2>2. \A i \in Sfts : ExecRef(i) = IF i = j THEN n ELSE 0
    BY <1>3
  <2>3. \A i \in Sfts : ExecRef(i)' = 0
    BY <1>9, Sizes DEF ExecRef, NoExec
  <2> HIDE DEF b, e, j, n
  <2>4. lost' \in [Sfts -> Nat] /\ \A k \in Sfts : lost'[k] = IF k = j THEN lost[k] + n ELSE lost[k]
    <3> DEFINE l == lost
    <3>1. l \in [Sfts -> Nat] /\ lost' = More(l, j, n)
      BY <2>1
    <3> HIDE DEF l
    <3>2. lost' \in [Sfts -> Nat] /\ \A k \in Sfts : lost'[k] = IF k = j THEN l[k] + n ELSE l[k]
      BY <1>4, <2>1, <3>1, Forgotten
    <3> QED
      BY <3>2 DEF l
  <2>5. \A i \in Sfts : ExecRef(i)' + lost'[i] = ExecRef(i) + lost[i]
    BY <2>1, <2>2, <2>3, <2>4
  <2>6. owner' \in [Segs -> Segs \cup {None}]
    BY <1>1, <1>4, <1>5 DEF Types
  <2>7. Types' /\ ExecInv'
    BY <1>1, <1>3, <1>4, <1>5, <1>6, <1>9, <2>4, <2>6 DEF Types, ExecInv, ExecPcs
  <2> QED
    BY <1>3, <1>4, <1>5, <1>8, <2>5, <2>7, NewProcess
<1>10. CASE pc' = "finish" /\ UNCHANGED <<x, lost>>
  <2>1. \A i \in Sfts : ExecRef(i)' = IF i = j THEN sft'[j].count ELSE 0
    BY <1>4, <1>7, <1>10 DEF ExecRef
  <2>2. \A i \in Sfts : ExecRef(i) = IF i = j THEN n ELSE 0
    BY <1>3
  <2>3. \A i \in Sfts : ExecRef(i)' + lost'[i] = ExecRef(i) + lost[i]
    BY <1>7, <1>10, <2>1, <2>2
  <2>4. x'.fd \in Sfts /\ sft'[x'.fd].count \in 0..1 /\ x'.mode # "overlay" /\ x' \in Exec
    BY <1>3, <1>4, <1>7, <1>10
  <2> HIDE DEF b, e, j, n
  <2>5. owner' \in [Segs -> Segs \cup {None}]
    BY <1>1, <1>4, <1>5 DEF Types
  <2>6. Types' /\ ExecInv'
    BY <1>1, <1>3, <1>4, <1>5, <1>6, <1>10, <2>4, <2>5 DEF Types, ExecInv, ExecPcs
  <2> QED
    BY <1>3, <1>4, <1>5, <1>8, <2>3, <2>6, NewProcess
<1> QED
  BY <1>9, <1>10

\* The program is refused after its PSP was made.
LEMMA ExecTooSmall ==
  ASSUME Inv, pc = "start", child_psp(x.mem), owner' = [owner EXCEPT ![x.mem] = x.mem, ![x.env] = x.mem],
         ghosts' = ghosts \cup {x.mem}, lost' = [i \in Sfts |-> lost[i] + To(cu_psp, Inherited, i)],
         pc' = "small", UNCHANGED <<cu_psp, under, x, alive, kept, fcbs>>
  PROVE  Inv'
<1>1. Types
  BY SameTypes DEF Inv
<1>2. pc \in ExecPcs
  BY DEF ExecPcs
<1>3. /\ x \in Exec /\ x.fd \in Sfts /\ sft[x.fd].count \in 0..1 /\ under = None /\ x.mode # "overlay"
      /\ Taken(x.mem) /\ Taken(x.env) /\ x.mem # x.env
      /\ \A i \in Sfts : ExecRef(i) = IF i = x.fd THEN sft[i].count ELSE 0
  BY <1>2, ExecHolds DEF Inv, ExecInv
<1> DEFINE b == x.mem
           e == x.env
           j == x.fd
<1>4. /\ b \in Segs /\ b \notin alive \cup ghosts /\ e \in Segs /\ e \notin alive \cup ghosts /\ b # e
  BY <1>3 DEF Taken
<1>5. NewTable(b) /\ owner' = [owner EXCEPT ![b] = b, ![e] = b] /\ ghosts' = ghosts \cup {b}
  BY <1>4, Child
<1>6. /\ sft' \in [Sfts -> Entry] /\ psp' \in [Segs -> Psp] /\ Fits(psp')
      /\ \A q \in Segs \ {b} : psp'[q] = psp[q]
  BY <1>5 DEF NewTable
<1>7. \A i \in Sfts : To(cu_psp, Inherited, i) \in Nat /\ sft'[i].count = sft[i].count + To(cu_psp, Inherited, i)
  BY <1>5, CellsCount DEF NewTable
<1>8. \A q \in alive : psp'[q] = psp[q]
  BY <1>4, <1>6, Running
<1>9. \A i \in Sfts : Same(sft'[i], sft[i])
  BY <1>5 DEF NewTable
<1> HIDE DEF b, e
<1>10. lost' \in [Sfts -> Nat] /\ \A i \in Sfts : lost'[i] = lost[i] + To(cu_psp, Inherited, i)
  BY <1>1, <1>7 DEF Types
<1>11. Types'
  <2>1. owner' \in [Segs -> Segs \cup {None}]
    <3>1. owner \in [Segs -> Segs \cup {None}]
      BY <1>1 DEF Types
    <3>2. owner' = [owner EXCEPT ![b] = b, ![e] = b]
      BY <1>5
    <3> QED
      BY ONLY <3>1, <3>2, <1>4
  <2>2. ghosts' \subseteq Segs
    BY <1>1, <1>4, <1>5 DEF Types
  <2> QED
    BY <1>1, <1>6, <1>10, <2>1, <2>2 DEF Types, ExecPcs
<1>12. ASSUME NEW i \in Sfts
       PROVE  sft'[i].count = Cardinality(Refs(psp', alive', i)) + Cardinality(Holders(fcbs', alive', i))
                              + ExecRef(i)' + lost'[i]
  <2> DEFINE r == Cardinality(Refs(psp, alive, i))
             f == Cardinality(Holders(fcbs, alive, i))
             c == To(cu_psp, Inherited, i)
  <2>1. Refs(psp', alive', i) = Refs(psp, alive, i) /\ Holders(fcbs', alive', i) = Holders(fcbs, alive, i)
    BY <1>8 DEF Refs, Holders
  <2>2. /\ sft[i].count = r + f + ExecRef(i) + lost[i] /\ r \in Nat /\ f \in Nat
        /\ sft[i].count \in Nat /\ lost[i] \in Nat /\ ExecRef(i) \in 0..1
    BY Counts
  <2>3. c \in Nat /\ sft'[i].count = sft[i].count + c /\ lost'[i] = lost[i] + c
    BY <1>7, <1>10
  <2>4. ExecRef(i)' = ExecRef(i)
    <3>1. CASE i # x.fd
      BY <3>1 DEF ExecRef
    <3>2. CASE i = x.fd
      <4>1. c = 0
        BY <1>2, <1>5, <3>2, LoadedFile
      <4> QED
        BY <1>2, <2>2, <2>3, <4>1 DEF ExecRef, ExecPcs
    <3> QED
      BY <3>1, <3>2
  <2> HIDE DEF r, f, c
  <2>5. sft'[i].count = r + f + ExecRef(i)' + lost'[i]
    BY <2>2, <2>3, <2>4
  <2> QED
    BY <2>1, <2>5, Zenon DEF r, f
<1>13. CountsMatch'
  BY <1>12, CountsNext
<1>14. RefInv' /\ NoInherit'
  <2>1. \A i \in Sfts : sft[i].count # 0 /\ sft'[i].count # 0 => Same(sft'[i], sft[i])
    BY <1>9
  <2>2. OwnTables /\ Sized' /\ OwnFcbs
    BY <1>8, SameFcbs DEF OwnTables, Sized, Inv, RefInv
  <2> QED
    BY <1>11, <1>13, <2>1, <2>2, StillPrivate DEF OwnTables, Sized, OwnFcbs
<1>15. StackInv'
  BY <1>8, Running, HandlesAssumption DEF Inv, StackInv, Stack, Top
<1>16. MemInv'
  <2>1. MemInv /\ cu_psp \in alive /\ alive \subseteq Segs /\ kept \subseteq alive
        /\ owner \in [Segs -> Segs \cup {None}] /\ ghosts \subseteq Segs
    BY Running DEF Inv, TypeOK
  <2>2. Stack' = Stack /\ Stack \subseteq alive
    BY DEF Stack
  <2>3. /\ \A c \in alive \cup ghosts : owner'[c] = owner[c]
        /\ \A c \in Segs : owner'[c] = owner[c] \/ owner'[c] = b
        /\ owner'[b] = b
    BY <1>4, <1>5, <2>1
  <2> QED
    BY <1>4, <1>5, <1>8, <2>1, <2>2, <2>3 DEF MemInv
<1>17. ExecInv'
  <2>1. sft'[x.fd].count \in 0..1
    BY <1>2, <1>3, <1>5, LoadedFile
  <2> QED
    BY <1>3, <2>1 DEF ExecInv, ExecPcs
<1> QED
  BY <1>11, <1>13, <1>14, <1>15, <1>16, <1>17, SameTypes DEF Inv

LEMMA ExecStartStep ==
  ASSUME Inv, ExecStart
  PROVE  Inv'
<1>1. /\ pc = "start" /\ child_psp(x.mem) /\ owner' = [owner EXCEPT ![x.mem] = x.mem, ![x.env] = x.mem]
      /\ UNCHANGED <<under, kept, fcbs>>
  BY DEF ExecStart
<1>2. CASE /\ cu_psp' = x.mem /\ alive' = alive \cup {x.mem} /\ UNCHANGED ghosts
           /\ IF x.mode = "run" THEN Forget(x.fd, sft[x.fd].count) /\ pc' = "user" /\ x' = NoExec
              ELSE pc' = "finish" /\ UNCHANGED <<x, lost>>
  BY <1>1, <1>2, ExecStarted
<1>3. CASE /\ ghosts' = ghosts \cup {x.mem} /\ lost' = [i \in Sfts |-> lost[i] + To(cu_psp, Inherited, i)]
           /\ pc' = "small" /\ UNCHANGED <<x, cu_psp, alive>>
  BY <1>1, <1>3, ExecTooSmall
<1> QED
  BY <1>2, <1>3 DEF ExecStart

-----------------------------------------------------------------------------
(* The running program changes: resident programs, and the end of a process. *)

LEMMA Switch ==
  ASSUME Inv, UNCHANGED <<owner, psp, sft, x, alive, ghosts, fcbs, lost>>,
         pc' = pc \/ (pc' = "user" /\ x = NoExec), cu_psp' \in Segs, under' \in Segs \cup {None}, kept' \subseteq alive,
         StackInv', MemInv', ExecInv'
  PROVE  Inv'
<1>1. TypeOK'
  <2>1. Types
    BY SameTypes DEF Inv
  <2>2. Types'
    BY <2>1 DEF Types, StackInv, Stack
  <2> QED
    BY <2>2, SameTypes
<1>2. RefInv'
  BY DEF Inv, RefInv
<1>3. NoInherit'
  BY DEF Inv, NoInherit
<1>4. CountsMatch'
  <2>1. ASSUME NEW i \in Sfts
        PROVE  sft'[i].count = Cardinality(Refs(psp', alive', i)) + Cardinality(Holders(fcbs', alive', i))
                                         + ExecRef(i)' + lost'[i]
    <3>1. ExecRef(i)' = ExecRef(i)
      BY Sizes DEF ExecRef, NoExec
    <3>2. sft[i].count = Cardinality(Refs(psp, alive, i)) + Cardinality(Holders(fcbs, alive, i))
                         + ExecRef(i) + lost[i]
      BY Counts, Zenon
    <3> QED
      BY <3>1, <3>2
  <2> QED
    BY <2>1, CountsNext
<1> QED
  BY <1>1, <1>2, <1>3, <1>4 DEF Inv

LEMMA PopUpStep ==
  ASSUME Inv, PopUp
  PROVE  Inv'
<1>1. /\ pc = "user" /\ under = None /\ cu_psp' \in kept /\ under' = cu_psp
      /\ UNCHANGED <<owner, psp, sft, pc, x, alive, kept, ghosts, fcbs, lost>>
  BY DEF PopUp, procs, files, Call
<1>2. cu_psp \in Segs /\ cu_psp' \in Segs /\ kept \subseteq alive /\ cu_psp # None
  BY <1>1, HandlesAssumption DEF Inv, TypeOK
<1>3. StackInv' /\ MemInv' /\ ExecInv'
  <2>1. Stack' = Stack /\ Top' = Top
    BY <1>1, <1>2 DEF Stack, Top
  <2>2. ExecInv'
    BY <1>1 DEF Inv, ExecInv, ExecPcs
  <2> QED
    BY <1>1, <2>1, <2>2 DEF Inv, StackInv, MemInv
<1> QED
  BY <1>1, <1>2, <1>3, Switch

LEMMA PopDownStep ==
  ASSUME Inv, PopDown
  PROVE  Inv'
<1>1. /\ pc = "user" /\ under # None /\ cu_psp' = under /\ under' = None
      /\ UNCHANGED <<owner, psp, sft, pc, x, alive, kept, ghosts, fcbs, lost>>
  BY DEF PopDown, procs, files
<1>2. cu_psp' \in Segs /\ kept \subseteq alive
  BY <1>1 DEF Inv, TypeOK
<1>3. StackInv' /\ MemInv' /\ ExecInv'
  <2>1. Stack' = Stack /\ Top' = Top
    BY <1>1, <1>2 DEF Stack, Top
  <2>2. ExecInv'
    BY <1>1 DEF Inv, ExecInv, ExecPcs
  <2> QED
    BY <1>1, <2>1, <2>2 DEF Inv, StackInv, MemInv
<1> QED
  BY <1>1, <1>2, <1>3, Switch

\* The processes below the top of the stack, when the top goes.
LEMMA ParentRuns ==
  ASSUME Inv, under = None, cu_psp \in Stack \ {Root}, under' = None, cu_psp' = Me.parent,
         Stack' = Stack \ {cu_psp}, \A p \in Stack' : psp'[p].parent = psp[p].parent
  PROVE  StackInv' /\ cu_psp' \in Stack'
<1>1. StackInv /\ Top = cu_psp /\ Top' = Me.parent
  BY DEF Inv, Top
<1>2. Me.parent \in Stack' /\ Me.parent = psp[cu_psp].parent
  BY <1>1 DEF StackInv, Me
<1>3. Root \in Stack' /\ psp'[Root].parent = Root
  BY <1>1 DEF StackInv
<1>4. \A p \in Stack' \ {Root} : psp'[p].parent \in Stack' /\ psp'[p].parent # Me.parent
  <2>1. ASSUME NEW p \in Stack' \ {Root}
        PROVE  psp'[p].parent \in Stack' /\ psp'[p].parent # Me.parent
    <3>1. p \in Stack \ {Root} /\ p # cu_psp /\ psp'[p].parent = psp[p].parent
      OBVIOUS
    <3> QED
      BY <1>1, <1>2, <3>1 DEF StackInv
  <2> QED
    BY <2>1
<1>5. \A p, q \in Stack' \ {Root} : psp'[p].parent = psp'[q].parent => p = q
  BY <1>1 DEF StackInv
<1> QED
  BY <1>1, <1>2, <1>3, <1>4, <1>5 DEF StackInv

LEMMA KeepStep ==
  ASSUME Inv, Keep
  PROVE  Inv'
<1>1. /\ pc = "user" /\ under = None /\ cu_psp # Root /\ owner[cu_psp] = cu_psp
      /\ kept' = kept \cup {cu_psp} /\ cu_psp' = Me.parent
      /\ UNCHANGED <<owner, under, psp, sft, pc, x, alive, ghosts, fcbs, lost>>
  BY DEF Keep, files
<1>2. kept \subseteq alive /\ alive \subseteq Segs /\ cu_psp \in alive /\ cu_psp \in Stack
  BY <1>1, Running DEF Inv, TypeOK, StackInv, Top
<1>3. Stack' = Stack \ {cu_psp}
  BY <1>1, <1>2 DEF Stack
<1>4. StackInv' /\ cu_psp' \in Stack'
  BY <1>1, <1>2, <1>3, ParentRuns
<1>5. kept' \subseteq alive /\ cu_psp' \in Segs /\ under' \in Segs \cup {None}
  BY <1>1, <1>2, <1>3, <1>4 DEF Stack
<1>6. MemInv' /\ ExecInv'
  <2>1. ExecInv'
    BY <1>1 DEF Inv, ExecInv, ExecPcs
  <2> QED
    BY <1>1, <1>3, <2>1 DEF Inv, MemInv
<1> QED
  BY <1>1, <1>4, <1>5, <1>6, Switch

LEMMA StutterStep ==
  ASSUME Inv, UNCHANGED vars
  PROVE  Inv'
<1>1. UNCHANGED <<owner, cu_psp, under, psp, sft, pc, x, alive, kept, ghosts, fcbs, lost>>
  BY DEF vars, procs, files
<1>2. StackInv' /\ MemInv' /\ ExecInv'
  BY <1>1 DEF Inv, StackInv, MemInv, ExecInv, Stack, Top, Taken
<1>3. cu_psp \in Segs /\ under \in Segs \cup {None} /\ kept \subseteq alive
  BY DEF Inv, TypeOK
<1> QED
  BY <1>1, <1>2, <1>3, Switch

\* What return_user does to the files of a process: the handles in `gone' and
\* the FCBs in `closed' are closed.
Ended(gone, s, closed) ==
  /\ gone \subseteq Has(cu_psp)
  /\ s = Tidy([i \in Sfts |-> [sft[i] EXCEPT !.count = @ - To(cu_psp, gone, i)]])
  /\ closed \subseteq FcbCloseAll(s)
  /\ sft' = Tidy([i \in Sfts |-> [s[i] EXCEPT !.count = @ - In(i, closed)]])
  /\ lost' = [i \in Sfts |-> lost[i] + To(cu_psp, Has(cu_psp) \ gone, i)
                             + In(i, fcbs[cu_psp] \ closed) - In(i, closed \ fcbs[cu_psp])]
  /\ fcbs' = [fcbs EXCEPT ![cu_psp] = {}]
  /\ psp' = [psp EXCEPT ![cu_psp] = NoPsp]
  /\ owner' = Gone({b \in Segs : owner[b] = cu_psp})
  /\ alive' = alive \ {cu_psp}

LEMMA CleanedUp ==
  ASSUME Cleanup
  PROVE  \E gone, s, closed : Ended(gone, s, closed)
<1> DEFINE S(gone) == Tidy([i \in Sfts |-> [sft[i] EXCEPT !.count = @ - To(cu_psp, gone, i)]])
           G(bad) == Has(cu_psp) \ (Hidden(cu_psp) \cup bad)
<1>1. PICK bad \in IF "fail" \in Outcomes THEN SUBSET (Has(cu_psp) \ Hidden(cu_psp)) ELSE {{}} :
        \E stuck \in IF "fail" \in Outcomes THEN SUBSET FcbCloseAll(S(G(bad))) ELSE {{}} :
          LET closed == FcbCloseAll(S(G(bad))) \ stuck
              One(b) == IF b THEN 1 ELSE 0 IN
          /\ sft' = Tidy([i \in Sfts |-> [S(G(bad))[i] EXCEPT !.count = @ - One(i \in closed)]])
          /\ lost' = [i \in Sfts |-> lost[i] + To(cu_psp, Has(cu_psp) \ G(bad), i)
                                     + One(i \in fcbs[cu_psp] \ closed) - One(i \in closed \ fcbs[cu_psp])]
          /\ fcbs' = [fcbs EXCEPT ![cu_psp] = {}]
          /\ psp' = [psp EXCEPT ![cu_psp] = NoPsp]
          /\ owner' = FreeProcessMem(cu_psp)
          /\ alive' = alive \ {cu_psp}
  BY Zenon DEF Cleanup
<1>2. PICK stuck \in IF "fail" \in Outcomes THEN SUBSET FcbCloseAll(S(G(bad))) ELSE {{}} :
          LET closed == FcbCloseAll(S(G(bad))) \ stuck
              One(b) == IF b THEN 1 ELSE 0 IN
          /\ sft' = Tidy([i \in Sfts |-> [S(G(bad))[i] EXCEPT !.count = @ - One(i \in closed)]])
          /\ lost' = [i \in Sfts |-> lost[i] + To(cu_psp, Has(cu_psp) \ G(bad), i)
                                     + One(i \in fcbs[cu_psp] \ closed) - One(i \in closed \ fcbs[cu_psp])]
          /\ fcbs' = [fcbs EXCEPT ![cu_psp] = {}]
          /\ psp' = [psp EXCEPT ![cu_psp] = NoPsp]
          /\ owner' = FreeProcessMem(cu_psp)
          /\ alive' = alive \ {cu_psp}
  BY <1>1, Zenon
<1> DEFINE closed == FcbCloseAll(S(G(bad))) \ stuck
<1>3. G(bad) \subseteq Has(cu_psp) /\ closed \subseteq FcbCloseAll(S(G(bad)))
  OBVIOUS
<1>4. Ended(G(bad), S(G(bad)), closed)
  BY <1>2, <1>3, Zenon DEF Ended, In, FreeProcessMem
<1> QED
  BY <1>4, Zenon

\* The references of a process that ends are in the handles it has.
LEMMA OwnRefs ==
  ASSUME Inv, NEW gone, gone \subseteq Has(cu_psp), NEW i \in Sfts
  PROVE  /\ Cardinality(Refs(psp, alive, i)) = Cardinality(Refs(psp, alive \ {cu_psp}, i))
                + To(cu_psp, gone, i) + To(cu_psp, Has(cu_psp) \ gone, i)
         /\ Cardinality(Refs(psp, alive \ {cu_psp}, i)) \in Nat
         /\ To(cu_psp, gone, i) \in Nat /\ To(cu_psp, Has(cu_psp) \ gone, i) \in Nat
<1> DEFINE c == cu_psp
           t == psp[c].ps_filetab
           A == alive
           H == Has(c)
<1>1. c \in A /\ A \subseteq Segs /\ psp[c].size \in 0..MaxFiles
  BY Running DEF Me, Psp
<1>2. H \subseteq Handle
  BY <1>1, Sizes DEF Has, Handle
<1>3. Cells(t, Handle, i) = Cells(t, H, i)
  <2>1. ASSUME NEW h \in Handle, t[h] = i
        PROVE  h \in H
    <3>1. t[h] # NoFile
      BY <2>1, Sizes
    <3>2. ~(h >= psp[c].size)
      BY <1>1, <3>1 DEF Inv, RefInv
    <3>3. h \in 0..psp[c].size-1
      BY <1>1, <3>2, Sizes DEF Handle
    <3> QED
      BY <3>1, <3>3 DEF Has
  <2> QED
    BY <1>2, <2>1 DEF Cells
<1>4. To(c, gone, i) = Cardinality(Cells(t, gone, i)) /\ To(c, H \ gone, i) = Cardinality(Cells(t, H \ gone, i))
  BY DEF To, Cells
<1>5. Cardinality(Refs(psp, A, i)) = Cardinality(Refs(psp, A \ {c}, i)) + Cardinality(Cells(t, Handle, i))
  <2> DEFINE P == psp
  <2> HIDE DEF c, A, P
  <2>1. Cardinality(Refs(P, A, i)) = Cardinality(Refs(P, A \ {c}, i)) + Cardinality(Cells(P[c].ps_filetab, Handle, i))
    BY <1>1, RefsSplit
  <2> QED
    BY <2>1 DEF P
<1> HIDE DEF c, t, A, H
<1>6. gone \subseteq H
  BY DEF H, c
<1>7. Cardinality(Cells(t, H, i)) = Cardinality(Cells(t, gone, i)) + Cardinality(Cells(t, H \ gone, i))
  BY <1>2, <1>6, CellsSplit
<1>8. Cardinality(Cells(t, gone, i)) \in Nat /\ Cardinality(Cells(t, H \ gone, i)) \in Nat
  BY <1>2, <1>6, CellsCount
<1>9. Cardinality(Refs(psp, A \ {c}, i)) \in Nat
  BY <1>1, RefsCount
<1>10. /\ Cardinality(Refs(psp, A, i)) = Cardinality(Refs(psp, A \ {c}, i)) + To(c, gone, i) + To(c, H \ gone, i)
       /\ Cardinality(Refs(psp, A \ {c}, i)) \in Nat /\ To(c, gone, i) \in Nat /\ To(c, H \ gone, i) \in Nat
  BY <1>3, <1>4, <1>5, <1>7, <1>8, <1>9
<1> QED
  BY <1>10, Zenon DEF c, A, H

\* FcbCloseAll closes no entry that is not in use: it stops there.
LEMMA ClosedInUse ==
  ASSUME NEW s \in [Sfts -> Entry], NEW i \in FcbCloseAll(s)
  PROVE  i \in Sfts /\ s[i].count >= 1 /\ s[i].fcb /\ s[i].psp = cu_psp
<1> DEFINE Z == {k \in Sfts : s[k].count = 0} \cup {NSft}
<1>1. Z \subseteq Nat /\ Z # {}
  BY Sizes
<1>2. \A k \in Z : Min(Z) =< k /\ Min(Z) \in Nat
  BY <1>1, MinIn
<1>3. i \in Sfts /\ i < Min(Z) /\ s[i].fcb /\ s[i].psp = cu_psp
  BY DEF FcbCloseAll
<1>4. i \notin Z
  <2> HIDE DEF Z
  <2> QED
    BY <1>2, <1>3, Sizes
<1> QED
  BY <1>3, <1>4 DEF Entry

\* A process ends: its files, its FCBs and its memory.
LEMMA EndedStep ==
  ASSUME Inv, pc \in {"user", "abort"}, under = None, Me.parent # cu_psp,
         NEW gone, NEW s, NEW closed, Ended(gone, s, closed),
         cu_psp' = Me.parent, pc' = "user", UNCHANGED <<under, x, kept, ghosts>>
  PROVE  Inv'
<1> DEFINE c == cu_psp
           mine == fcbs[c]
           A == alive \ {c}
           g(i) == To(c, gone, i)
           k(i) == To(c, Has(c) \ gone, i)
           r(i) == Cardinality(Refs(psp, A, i))
           f(i) == Cardinality(Holders(fcbs, A, i))
<1>1. Types /\ NoPsp \in Psp
  BY SameTypes, Nothing DEF Inv
<1>2. /\ x = NoExec /\ \A i \in Sfts : ExecRef(i) = 0
      /\ c \in alive /\ alive \subseteq Segs /\ kept \subseteq alive /\ A \subseteq Segs
  BY ExecHolds, Running DEF Inv, ExecInv, TypeOK
<1>3. c \in Stack \ {Root} /\ Stack \subseteq alive /\ c \notin kept
  BY DEF Inv, StackInv, Top, Stack, Me
<1>4. /\ psp' = [psp EXCEPT ![c] = NoPsp] /\ fcbs' = [fcbs EXCEPT ![c] = {}] /\ alive' = A
      /\ owner' = [b \in Segs |-> IF owner[b] = c THEN None ELSE owner[b]]
      /\ gone \subseteq Has(c) /\ closed \subseteq FcbCloseAll(s)
  BY DEF Ended, Gone
\* The counts of an entry, before the step.
<1>5. ASSUME NEW i \in Sfts
      PROVE  /\ sft[i].count = r(i) + g(i) + k(i) + f(i) + In(i, mine) + lost[i]
             /\ r(i) \in Nat /\ g(i) \in Nat /\ k(i) \in Nat /\ f(i) \in Nat /\ lost[i] \in Nat
             /\ In(i, mine) \in 0..1 /\ sft[i].count \in Nat
  <2>1. /\ Cardinality(Refs(psp, alive, i)) = r(i) + g(i) + k(i)
        /\ r(i) \in Nat /\ g(i) \in Nat /\ k(i) \in Nat
    BY <1>4, OwnRefs
  <2>2. Cardinality(Holders(fcbs, alive, i)) = f(i) + In(i, mine)
    BY <1>2, HoldersSplit
  <2>3. f(i) \in Nat /\ In(i, mine) \in 0..1
    BY <1>2, HoldersCount DEF In
  <2>4. /\ sft[i].count = Cardinality(Refs(psp, alive, i)) + Cardinality(Holders(fcbs, alive, i))
                            + ExecRef(i) + lost[i]
        /\ sft[i].count \in Nat /\ lost[i] \in Nat
    BY Counts, Zenon
  <2>5. ExecRef(i) = 0
    BY <1>2
  <2> HIDE DEF c, A, g, k, r, f, mine
  <2> QED
    BY <2>1, <2>2, <2>3, <2>4, <2>5
<1> HIDE DEF g, k, r, f
<1>6. /\ s \in [Sfts -> Entry]
      /\ \A i \in Sfts : s[i].count = sft[i].count - g(i) /\ (s[i].count # 0 => Same(s[i], sft[i]))
  <2> DEFINE u == [i \in Sfts |-> [sft[i] EXCEPT !.count = @ - g(i)]]
  <2>1. s = Tidy(u)
    BY DEF Ended, g
  <2>2. u \in [Sfts -> Entry] /\ \A i \in Sfts : u[i].count = sft[i].count - g(i) /\ Same(u[i], sft[i])
    <3>1. ASSUME NEW i \in Sfts
          PROVE  /\ [sft[i] EXCEPT !.count = @ - g(i)] \in Entry
                 /\ [sft[i] EXCEPT !.count = @ - g(i)].count = sft[i].count - g(i)
                 /\ Same([sft[i] EXCEPT !.count = @ - g(i)], sft[i])
      <4>1. sft[i].count - g(i) \in Nat /\ sft[i] \in Entry
        BY <1>1, <1>5 DEF Types
      <4> QED
        BY <4>1 DEF Entry, Same
    <3> QED
      BY <3>1
  <2> HIDE DEF u
  <2>3. /\ Tidy(u) \in [Sfts -> Entry]
        /\ \A i \in Sfts : Tidy(u)[i].count = u[i].count /\ (u[i].count # 0 => Tidy(u)[i] = u[i])
    BY <2>2, Tidied
  <2> QED
    BY <2>1, <2>2, <2>3
\* An entry FcbCloseAll closes is a reference of this process, or one lost.
<1>7. ASSUME NEW i \in closed
      PROVE  /\ i \in Sfts /\ s[i].count >= 1
             /\ r(i) = 0 /\ g(i) = 0 /\ k(i) = 0 /\ f(i) = 0 /\ (i \notin mine => lost[i] >= 1)
  <2>1. i \in Sfts /\ s[i].count >= 1 /\ s[i].fcb /\ s[i].psp = c
    BY <1>4, <1>6, ClosedInUse
  <2>2. sft[i].fcb /\ sft[i].psp = c
    <3>1. s[i].count # 0
      BY <2>1
    <3>2. Same(s[i], sft[i])
      BY <1>6, <2>1, <3>1
    <3> QED
      BY <2>1, <3>2 DEF Same
  <2>3. \A p \in alive, h \in Handle : psp[p].ps_filetab[h] # i
    BY <2>1, <2>2, Sizes DEF Inv, RefInv
  <2>4. Refs(psp, alive, i) = {}
    BY <2>3 DEF Refs
  <2>5. Cardinality(Refs(psp, alive, i)) = 0
    BY <2>4, FS_EmptySet
  <2>6. Holders(fcbs, A, i) = {}
    BY <2>1, <2>2, <1>2 DEF Inv, RefInv, Holders
  <2>7. f(i) = 0
    BY <2>6, FS_EmptySet DEF f
  <2>8. Cardinality(Refs(psp, alive, i)) = r(i) + g(i) + k(i)
    BY <1>4, <2>1, OwnRefs DEF r, g, k
  <2>9. r(i) = 0 /\ g(i) = 0 /\ k(i) = 0
    <3>1. r(i) \in Nat /\ g(i) \in Nat /\ k(i) \in Nat
      BY <1>5, <2>1, Zenon
    <3>2. 0 = r(i) + g(i) + k(i)
      BY <2>5, <2>8, Zenon
    <3> QED
      BY <3>1, <3>2
  <2>10. i \notin mine => lost[i] >= 1
    BY <1>5, <1>6, <2>1, <2>7, <2>9 DEF In
  <2> QED
    BY <2>1, <2>7, <2>9, <2>10
<1>8. /\ sft' \in [Sfts -> Entry]
      /\ \A i \in Sfts : /\ sft'[i].count = sft[i].count - g(i) - In(i, closed)
                         /\ sft'[i].count # 0 => Same(sft'[i], sft[i])
  <2> DEFINE u == [i \in Sfts |-> [s[i] EXCEPT !.count = @ - In(i, closed)]]
  <2>1. sft' = Tidy(u)
    BY DEF Ended
  <2>2. ASSUME NEW i \in Sfts
        PROVE  /\ u[i] \in Entry /\ u[i].count = s[i].count - In(i, closed) /\ Same(u[i], s[i])
               /\ u[i].count # 0 => s[i].count # 0
    <3>1. s[i].count \in Nat /\ s[i].count - In(i, closed) \in Nat /\ s[i] \in Entry /\ In(i, closed) \in 0..1
      BY <1>6, <1>7 DEF In, Entry
    <3> QED
      BY <3>1 DEF Entry, Same
  <2> HIDE DEF u
  <2>3. u \in [Sfts -> Entry]
    BY <2>2 DEF u
  <2>4. /\ Tidy(u) \in [Sfts -> Entry]
        /\ \A i \in Sfts : Tidy(u)[i].count = u[i].count /\ (u[i].count # 0 => Tidy(u)[i] = u[i])
    BY <2>3, Tidied
  <2>5. ASSUME NEW i \in Sfts
        PROVE  /\ sft'[i].count = sft[i].count - g(i) - In(i, closed)
               /\ sft'[i].count # 0 => Same(sft'[i], sft[i])
    <3>1. sft'[i].count = u[i].count /\ (u[i].count # 0 => sft'[i] = u[i])
      BY <2>1, <2>4
    <3>2. sft'[i].count = sft[i].count - g(i) - In(i, closed)
      BY <1>6, <2>2, <3>1
    <3>3. sft'[i].count # 0 => Same(sft'[i], u[i]) /\ Same(u[i], s[i]) /\ Same(s[i], sft[i])
      BY <1>6, <2>2, <3>1 DEF Same
    <3> QED
      BY <3>2, <3>3 DEF Same
  <2> QED
    BY <2>1, <2>4, <2>5
<1>9. ASSUME NEW i \in Sfts
      PROVE  /\ lost'[i] = lost[i] + k(i) + In(i, mine) - In(i, closed) /\ lost'[i] \in Nat
             /\ sft'[i].count = r(i) + f(i) + lost'[i]
  <2>1. lost'[i] = lost[i] + k(i) + In(i, mine \ closed) - In(i, closed \ mine)
    BY DEF Ended, k
  <2>2. In(i, mine \ closed) - In(i, closed \ mine) = In(i, mine) - In(i, closed)
    BY DEF In
  <2>3. In(i, mine \ closed) \in 0..1 /\ In(i, closed \ mine) \in 0..1 /\ In(i, closed) \in 0..1
    BY DEF In
  <2>4. In(i, closed \ mine) = 1 => lost[i] >= 1
    BY <1>7 DEF In
  <2> HIDE DEF mine
  <2>5. lost'[i] = lost[i] + k(i) + In(i, mine) - In(i, closed) /\ lost'[i] \in Nat
    BY <1>5, <2>1, <2>2, <2>3, <2>4
  <2> QED
    BY <1>5, <1>8, <2>3, <2>5
<1>10. Types'
  <2>1. psp' \in [Segs -> Psp] /\ fcbs' \in [Segs -> SUBSET Sfts] /\ owner' \in [Segs -> Segs \cup {None}]
    BY <1>1, <1>2, <1>4 DEF Types
  <2>2. Fits(psp')
    BY <1>1, <1>2, <1>4 DEF Types, Fits, NoPsp
  <2>3. lost' \in [Sfts -> Nat]
    BY <1>9 DEF Ended
  <2>4. cu_psp' \in Segs /\ kept' \subseteq alive'
    BY <1>2, <1>3, <1>4 DEF Inv, StackInv, Me
  <2> QED
    BY <1>1, <1>2, <1>4, <1>8, <2>1, <2>2, <2>3, <2>4 DEF Types
<1>11. CountsMatch'
  <2>1. ASSUME NEW i \in Sfts
        PROVE  sft'[i].count = Cardinality(Refs(psp', alive', i)) + Cardinality(Holders(fcbs', alive', i))
                               + ExecRef(i)' + lost'[i]
    <3>1. ExecRef(i)' = 0
      BY <1>2, Sizes DEF ExecRef, NoExec
    <3>2. Refs(psp', alive', i) = Refs(psp, A, i) /\ Holders(fcbs', alive', i) = Holders(fcbs, A, i)
      BY <1>1, <1>2, <1>4 DEF Types, Refs, Holders
    <3>3. Cardinality(Refs(psp', alive', i)) = r(i) /\ Cardinality(Holders(fcbs', alive', i)) = f(i)
      BY <3>2 DEF r, f
    <3> QED
      BY <1>5, <1>9, <3>1, <3>3
  <2> QED
    BY <2>1, CountsNext
<1>12. RefInv' /\ NoInherit'
  <2>1. \A i \in Sfts : sft[i].count # 0 /\ sft'[i].count # 0 => Same(sft'[i], sft[i])
    BY <1>8
  <2>2. \A p \in A : psp'[p] = psp[p] /\ fcbs'[p] = fcbs[p]
    BY <1>1, <1>2, <1>4 DEF Types
  <2>3. \A p \in Segs \ alive' : fcbs'[p] = {}
    BY <1>1, <1>2, <1>4 DEF Types, Inv, RefInv
  <2>4. \A p \in alive', h \in Handle : h >= psp'[p].size => psp'[p].ps_filetab[h] = NoFile
    BY <1>4, <2>2 DEF Inv, RefInv
  <2> QED
    BY <1>4, <1>10, <1>11, <2>1, <2>2, <2>3, <2>4, StillPrivate
<1>13. Stack' = Stack \ {c} /\ \A p \in Stack' : psp'[p].parent = psp[p].parent
  <2>1. Stack' = Stack \ {c}
    BY <1>4 DEF Stack
  <2> QED
    BY <1>1, <1>2, <1>3, <1>4, <2>1 DEF Types
<1>14. StackInv'
  BY <1>3, <1>13, ParentRuns
<1>15. MemInv'
  <2>1. MemInv /\ Top = c /\ \A p \in Stack \ {Root} : psp[p].parent # c
    BY DEF Inv, StackInv, Top
  <2>2. \A b \in Segs : owner'[b] # None => owner'[b] = owner[b] /\ owner[b] # c
    BY <1>4
  <2>3. ASSUME NEW p \in alive'
        PROVE  owner'[p] = p \/ (p \in Stack' \ {Root} /\ owner'[p] = psp'[p].parent)
    <3>1. p \in alive /\ p # c /\ p \in Segs
      BY <1>2, <1>4
    <3>2. owner[p] # c /\ (owner[p] = p \/ (p \in Stack \ {Root} /\ owner[p] = psp[p].parent))
      BY <2>1, <3>1 DEF MemInv
    <3>3. owner'[p] = owner[p]
      BY <1>4, <3>1, <3>2
    <3> QED
      BY <1>13, <3>1, <3>2, <3>3
  <2>4. \A q \in ghosts : owner'[q] = q /\ q \notin alive'
    BY <1>1, <1>2, <1>4, <2>1 DEF MemInv, Types
  <2> QED
    BY <1>4, <2>1, <2>2, <2>3, <2>4 DEF MemInv
<1>16. ExecInv'
  BY <1>2 DEF ExecInv, ExecPcs
<1> QED
  BY <1>10, <1>11, <1>12, <1>14, <1>15, <1>16, SameTypes DEF Inv

LEMMA TerminateStep ==
  ASSUME Inv, Terminate
  PROVE  Inv'
<1>1. /\ pc \in {"user", "abort"} /\ under = None /\ cu_psp' = Me.parent /\ pc' = "user"
      /\ UNCHANGED <<under, x, kept, ghosts>>
  BY DEF Terminate
<1>2. CASE Me.parent # cu_psp /\ Cleanup
  <2>1. PICK gone, s, closed : Ended(gone, s, closed)
    BY <1>2, CleanedUp
  <2> QED
    BY <1>1, <1>2, <2>1, EndedStep
<1>3. CASE Me.parent = cu_psp /\ UNCHANGED <<files, psp, owner, alive>>
  <2>1. UNCHANGED <<owner, cu_psp, under, psp, sft, x, alive, kept, ghosts, fcbs, lost>>
    BY <1>1, <1>3 DEF files
  <2>2. x = NoExec /\ cu_psp \in Segs /\ under \in Segs \cup {None} /\ kept \subseteq alive
    BY <1>1 DEF Inv, ExecInv, TypeOK
  <2>3. StackInv' /\ MemInv'
    BY <2>1 DEF Inv, StackInv, MemInv, Stack, Top
  <2>4. ExecInv'
    BY <1>1, <2>1, <2>2 DEF ExecInv, ExecPcs
  <2> QED
    BY <1>1, <2>1, <2>2, <2>3, <2>4, Switch
<1> QED
  BY <1>2, <1>3 DEF Terminate

-----------------------------------------------------------------------------
(* The invariant, and what follows from it.                                *)

LEMMA InvInit == Init => Inv
<1> SUFFICES ASSUME Init PROVE Inv
  OBVIOUS
<1>1. Types /\ TypeOK /\ Root \in Segs /\ Root # None
  BY TypeInit, SameTypes, HandlesAssumption
<1>2. /\ owner = [b \in Segs |-> IF b = Root THEN Root ELSE None]
      /\ cu_psp = Root /\ under = None /\ pc = "user" /\ x = NoExec
      /\ alive = {Root} /\ kept = {} /\ ghosts = {} /\ fcbs = [b \in Segs |-> {}]
      /\ sft = [i \in Sfts |-> NoEntry] /\ lost = [i \in Sfts |-> 0]
  BY DEF Init
<1>3. psp[Root].parent = Root /\ psp[Root].ps_filetab = [h \in Handle |-> NoFile]
  BY <1>1 DEF Init, NoPsp
<1>4. StackInv /\ MemInv /\ ExecInv
  BY <1>1, <1>2, <1>3 DEF StackInv, MemInv, ExecInv, ExecPcs, Stack, Top
<1>5. RefInv /\ NoInherit
  BY <1>1, <1>2, <1>3 DEF RefInv, NoInherit
<1>6. CountsMatch
  <2>1. ASSUME NEW i \in Sfts
        PROVE  sft[i].count = Cardinality(JftRefs(i)) + Cardinality(FcbRefs(i)) + ExecRef(i) + lost[i]
    <3>1. JftRefs(i) = {} /\ FcbRefs(i) = {}
      BY <1>1, <1>2, <1>3, Sizes DEF JftRefs, FcbRefs
    <3>2. ExecRef(i) = 0 /\ lost[i] = 0 /\ sft[i].count = 0
      BY <1>2 DEF ExecRef, NoEntry
    <3>3. Cardinality(JftRefs(i)) = 0 /\ Cardinality(FcbRefs(i)) = 0
      BY <3>1, FS_EmptySet
    <3> QED
      BY <3>2, <3>3
  <2> QED
    BY <2>1 DEF CountsMatch
<1> QED
  BY <1>1, <1>4, <1>5, <1>6 DEF Inv

LEMMA InvStep == Inv /\ [Next]_vars => Inv'
<1> SUFFICES ASSUME Inv, [Next]_vars PROVE Inv'
  OBVIOUS
<1>1. CASE DosOpen
  BY <1>1, DosOpenStep
<1>2. CASE DosClose
  BY <1>2, DosCloseStep
<1>3. CASE DosDup
  BY <1>3, DosDupStep
<1>4. CASE DosForceDup
  BY <1>4, DosForceDupStep
<1>5. CASE SetJFTSize
  BY <1>5, SetJFTSizeStep
<1>6. CASE FcbOpen
  BY <1>6, FcbOpenStep
<1>7. CASE FcbClose
  BY <1>7, FcbCloseStep
<1>8. CASE FcbGetFileSize
  BY <1>8, FcbGetFileSizeStep
<1>9. CASE ExecOpen
  BY <1>9, ExecOpenStep
<1>10. CASE ExecHeader
  BY <1>10, ExecHeaderStep
<1>11. CASE ExecEnv
  BY <1>11, ExecEnvStep
<1>12. CASE ExecMem
  BY <1>12, ExecMemStep
<1>13. CASE ExecRead
  BY <1>13, ExecReadStep
<1>14. CASE ExecClose
  BY <1>14, ExecCloseStep
<1>15. CASE ExecStart
  BY <1>15, ExecStartStep
<1>16. CASE ExecFinish
  BY <1>16, ExecFinishStep
<1>17. CASE GetBlock
  BY <1>17, GetBlockStep
<1>18. CASE CreatePsp
  BY <1>18, CreatePspStep
<1>19. CASE PopUp
  BY <1>19, PopUpStep
<1>20. CASE PopDown
  BY <1>20, PopDownStep
<1>21. CASE Terminate
  BY <1>21, TerminateStep
<1>22. CASE Keep
  BY <1>22, KeepStep
<1>23. CASE UNCHANGED vars
  BY <1>23, StutterStep
<1> QED
  BY <1>1, <1>2, <1>3, <1>4, <1>5, <1>6, <1>7, <1>8, <1>9, <1>10, <1>11, <1>12, <1>13, <1>14, <1>15,
     <1>16, <1>17, <1>18, <1>19, <1>20, <1>21, <1>22, <1>23 DEF Next

LEMMA InvHolds == Spec => []Inv
  BY InvInit, InvStep, PTL DEF Spec

\* Whatever calls and failures there are, all variables keep their types: no
\* count goes below zero (DosCloseSft, return_user), no handle names an entry
\* beyond the table (CloneHandle, SetJFTSize).
THEOREM TypesHold == Spec => []TypeOK
<1>1. Inv => TypeOK
  BY DEF Inv
<1> QED
  BY <1>1, InvHolds, PTL

\* sft_count is the number of references to each entry, at every step of
\* every call, for any number of processes, handles and entries.
THEOREM CountsHold == Spec => []CountsMatch
<1>1. Inv => CountsMatch
  BY DEF Inv
<1> QED
  BY <1>1, InvHolds, PTL

\* A handle on a file opened with O_NOINHERIT is one of its opener
\* (child_psp, DosDup, DosForceDup).
THEOREM PrivateStays == Spec => []NoInherit
<1>1. Inv => NoInherit
  BY DEF Inv
<1> QED
  BY <1>1, InvHolds, PTL

\* The blocks of memory belong to processes there are, through EXEC, INT
\* 21h/55h, termination and staying resident.
THEOREM MemoryHolds == Spec => []MemoryOwned
<1>1. Inv => MemoryOwned
  <2> SUFFICES ASSUME Inv PROVE MemoryOwned
    OBVIOUS
  <2>1. cu_psp \in alive
    BY Running
  <2>2. \A b \in Segs : owner[b] # None => owner[b] \in alive \cup ghosts
    BY DEF Inv, MemInv
  <2>3. \A p \in alive : owner[p] \in alive
    BY DEF Inv, MemInv, StackInv, Stack
  <2>4. pc \in {"mem", "read", "close", "start"} /\ x.mode # "overlay" => owner[x.env] = cu_psp
    BY DEF Inv, ExecInv, Taken
  <2> QED
    BY <2>1, <2>2, <2>3, <2>4 DEF MemoryOwned
<1> QED
  BY <1>1, InvHolds, PTL

-----------------------------------------------------------------------------
(* An EXEC that fails.                                                     *)

UndoPcs == {"header", "env", "mem", "read", "giveup"}

\* What EXEC found is held against the references there are now.
Grown(o, g) ==
  /\ x.found = <<o, g>> /\ o \in [Segs -> Segs \cup {None}] /\ g \in [Sfts -> Int]
  /\ sft[x.fd].count = 1
  /\ Held = [i \in Sfts |-> IF i = x.fd THEN g[i] + 1 ELSE g[i]]

LEMMA Found ==
  ASSUME UndoInv, pc \in UndoPcs
  PROVE  Grown(x.found[1], x.found[2])
  BY Zenon DEF UndoInv, Grown, UndoPcs

\* As long as only blocks change, the files do not.
LEMMA StillGrown ==
  ASSUME NEW o, NEW g, Grown(o, g), UNCHANGED <<sft, lost>>, x'.found = x.found, x'.fd = x.fd
  PROVE  Grown(o, g)'
<1>1. Held' = Held
  BY DEF Held
<1> QED
  BY <1>1 DEF Grown

LEMMA UndoInit == Init => UndoInv
  BY DEF Init, UndoInv

\* The other calls do not get into EXEC.
LEMMA ElseUndo ==
  ASSUME pc' \notin UndoPcs
  PROVE  UndoInv'
  BY DEF UndoPcs, UndoInv

LEMMA UndoOpen ==
  ASSUME Inv, ExecOpen
  PROVE  UndoInv'
<1> DEFINE i == get_free_sft
<1>1. PICK mode \in {"run", "load", "overlay"}, out \in Outs \ {"fail"} :
       /\ sft' = DosOpenSft("file", FALSE, FALSE, out)
       /\ IF out = "ok" THEN /\ x' = [NoExec EXCEPT !.fd = i, !.mode = mode, !.found = <<owner, Held>>]
                             /\ pc' = "header"
                             /\ UNCHANGED lost
          ELSE pc' = "abort"
  BY DEF ExecOpen
<1>2. FreeSfts # {} /\ UNCHANGED owner /\ Types
  BY SameTypes DEF ExecOpen, Inv
<1>3. i \in Sfts /\ sft[i].count = 0
  BY <1>2, FreeEntry
<1>4. sft' \in [Sfts -> Entry] /\ sft'[i].count = 1 /\ \A k \in Sfts \ {i} : sft'[k] = sft[k]
  <2>1. IsOpened(sft', i, FALSE, out)
    BY <1>1, <1>2, Opened, Zenon
  <2> QED
    BY <1>1, <2>1 DEF IsOpened
<1> HIDE DEF i
<1>5. CASE out = "ok"
  <2>1. x' = [fd |-> i, format |-> "com", mode |-> mode, env |-> None, mem |-> None, found |-> <<owner, Held>>]
        /\ pc' = "header" /\ UNCHANGED lost
    BY <1>1, <1>5 DEF NoExec
  <2>2. owner \in [Segs -> Segs \cup {None}] /\ Held \in [Sfts -> Int] /\ \A k \in Sfts : sft[k].count \in Nat /\ lost[k] \in Nat
    BY <1>2, Counts DEF Types, Held
  <2>3. Held' = [k \in Sfts |-> IF k = i THEN Held[k] + 1 ELSE Held[k]]
    <3>1. ASSUME NEW k \in Sfts
          PROVE  sft'[k].count - lost'[k] = IF k = i THEN Held[k] + 1 ELSE Held[k]
      BY <1>3, <1>4, <2>1, <2>2 DEF Held
    <3> QED
      BY <3>1 DEF Held
  <2>4. x'.found = <<owner, Held>> /\ x'.fd = i /\ x'.env = None /\ x'.mem = None
    BY <2>1
  <2> DEFINE o == owner
             g == Held
  <2>5. /\ x'.found = <<o, g>> /\ o \in [Segs -> Segs \cup {None}] /\ g \in [Sfts -> Int]
        /\ Held' = [k \in Sfts |-> IF k = x'.fd THEN g[k] + 1 ELSE g[k]] /\ owner' = o
    BY <1>2, <2>2, <2>3, <2>4
  <2> HIDE DEF o, g
  <2>6. x'.found[1] = o /\ x'.found[2] = g
    BY <2>5
  <2> QED
    BY <1>4, <2>1, <2>4, <2>5, <2>6 DEF UndoInv
<1>6. CASE out # "ok"
  BY <1>1, <1>6, ElseUndo DEF UndoPcs
<1> QED
  BY <1>5, <1>6

LEMMA UndoHeader ==
  ASSUME Inv, UndoInv, ExecHeader
  PROVE  UndoInv'
<1> DEFINE o == x.found[1]
           g == x.found[2]
<1>1. pc = "header" /\ pc \in UndoPcs /\ UNCHANGED <<owner, sft>> /\ x \in Exec
  BY DEF ExecHeader, UndoPcs, Inv, TypeOK, Exec
<1>2. Grown(o, g) /\ owner = o /\ x.env = None /\ x.mem = None
  BY <1>1, Found DEF UndoInv
<1>3. CASE pc' = "abort"
  BY <1>3, ElseUndo DEF UndoPcs
<1>4. CASE pc' # "abort"
  <2>1. /\ UNCHANGED lost /\ x'.found = x.found /\ x'.fd = x.fd /\ x'.env = None /\ x'.mem = None
        /\ pc' = "giveup" \/ pc' = "env" \/ (pc' = "read" /\ x'.mode = "overlay")
    BY <1>1, <1>2, <1>4 DEF ExecHeader, GiveUp, Abandon, Exec
  <2>2. Grown(o, g)'
    BY <1>1, <1>2, <2>1, StillGrown
  <2> QED
    BY <1>1, <1>2, <2>1, <2>2 DEF UndoInv, Grown
<1> QED
  BY <1>3, <1>4

LEMMA UndoEnv ==
  ASSUME Inv, UndoInv, ExecEnv
  PROVE  UndoInv'
<1> DEFINE o == x.found[1]
           g == x.found[2]
<1>1. pc = "env" /\ pc \in UndoPcs /\ UNCHANGED <<cu_psp, sft, lost>> /\ x \in Exec
  BY DEF ExecEnv, UndoPcs, Inv, TypeOK, Exec, files
<1>2. Grown(o, g) /\ owner = o /\ x.mem = None
  BY <1>1, Found DEF UndoInv
<1>3. CASE GiveUp /\ UNCHANGED owner
  <2>1. pc' = "giveup" /\ UNCHANGED x
    BY <1>3 DEF GiveUp
  <2>2. Grown(o, g)'
    BY <1>1, <1>2, <2>1, StillGrown
  <2> QED
    BY <1>2, <1>3, <2>1, <2>2 DEF UndoInv, Grown
<1>4. ASSUME NEW b \in Free, owner' = [owner EXCEPT ![b] = cu_psp], x' = [x EXCEPT !.env = b], pc' = "mem"
      PROVE  UndoInv'
  <2>1. x'.env = b /\ x'.mem = None /\ x'.found = x.found /\ x'.fd = x.fd /\ o[b] = None
    BY <1>1, <1>2, <1>4, FreeBlock DEF Exec
  <2>2. Grown(o, g)'
    BY <1>1, <1>2, <2>1, StillGrown
  <2>3. owner' = [o EXCEPT ![b] = cu_psp']
    BY <1>1, <1>2, <1>4
  <2> QED
    BY <1>4, <2>1, <2>2, <2>3 DEF UndoInv, Grown
<1> QED
  BY <1>3, <1>4 DEF ExecEnv

LEMMA UndoMem ==
  ASSUME Inv, UndoInv, ExecMem
  PROVE  UndoInv'
<1> DEFINE o == x.found[1]
           g == x.found[2]
<1>1. pc = "mem" /\ pc \in UndoPcs /\ UNCHANGED <<cu_psp, sft, lost>> /\ x \in Exec
  BY DEF ExecMem, UndoPcs, Inv, TypeOK, Exec, files
<1>2. Grown(o, g) /\ o[x.env] = None /\ owner = [o EXCEPT ![x.env] = cu_psp] /\ o \in [Segs -> Segs \cup {None}]
  BY <1>1, Found DEF UndoInv, Grown
<1>3. x.env \in Segs /\ x.mode # "overlay" /\ cu_psp # None
  BY <1>1, Running, HandlesAssumption DEF Inv, ExecInv, Taken
<1>4. CASE owner' = Gone({x.env}) /\ GiveUp
  <2>1. pc' = "giveup" /\ UNCHANGED x
    BY <1>4 DEF GiveUp
  <2>2. Grown(o, g)'
    BY <1>1, <1>2, <2>1, StillGrown
  <2>3. owner' = o
    <3> HIDE DEF o
    <3> QED
      BY <1>2, <1>3, <1>4 DEF Gone
  <2> QED
    BY <2>1, <2>2, <2>3 DEF UndoInv, Grown
<1>5. ASSUME NEW b \in Free, owner' = [owner EXCEPT ![b] = cu_psp], x' = [x EXCEPT !.mem = b], pc' = "read"
      PROVE  UndoInv'
  <2>1. x'.env = x.env /\ x'.mem = b /\ x'.found = x.found /\ x'.fd = x.fd /\ x'.mode = x.mode
        /\ b \in Segs /\ owner[b] = None
    BY <1>1, <1>5, FreeBlock DEF Exec
  <2>2. Grown(o, g)'
    BY <1>1, <1>2, <2>1, StillGrown
  <2>3. owner' = [o EXCEPT ![x.env] = cu_psp', ![b] = cu_psp'] /\ o[b] = None
    <3> HIDE DEF o
    <3>1. b # x.env
      BY <1>2, <1>3, <2>1
    <3> QED
      BY <1>1, <1>2, <1>3, <1>5, <2>1, <3>1
  <2> QED
    BY <1>2, <1>3, <1>5, <2>1, <2>2, <2>3 DEF UndoInv, Grown
<1> QED
  BY <1>4, <1>5 DEF ExecMem

LEMMA UndoRead ==
  ASSUME Inv, UndoInv, ExecRead
  PROVE  UndoInv'
<1> DEFINE o == x.found[1]
           g == x.found[2]
<1>1. pc = "read" /\ pc \in UndoPcs /\ UNCHANGED <<cu_psp, sft>>
  BY DEF ExecRead, UndoPcs
<1>2. CASE pc' # "giveup"
  BY <1>2, ElseUndo DEF ExecRead, UndoPcs, Abandon, GiveUp
<1>3. CASE pc' = "giveup"
  <2>1. owner' = Gone({x.env, x.mem}) /\ UNCHANGED <<x, lost>>
    BY <1>3 DEF ExecRead, GiveUp, Abandon
  <2>2. Grown(o, g) /\ o \in [Segs -> Segs \cup {None}]
    BY <1>1, Found DEF Grown
  <2>3. Grown(o, g)'
    BY <1>1, <2>1, <2>2, StillGrown
  <2>4. owner' = o
    <3>1. CASE x.mode = "overlay"
      <4>1. owner = o /\ x.env = None /\ x.mem = None
        BY <1>1, <3>1 DEF UndoInv
      <4> HIDE DEF o
      <4> QED
        BY <2>1, <2>2, <4>1, HandlesAssumption DEF Gone
    <3>2. CASE x.mode # "overlay"
      <4>1. /\ o[x.env] = None /\ o[x.mem] = None
            /\ owner = [o EXCEPT ![x.env] = cu_psp, ![x.mem] = cu_psp]
        BY <1>1, <3>2 DEF UndoInv
      <4> HIDE DEF o
      <4> QED
        BY <2>1, <2>2, <4>1 DEF Gone
    <3> QED
      BY <3>1, <3>2
  <2> QED
    BY <1>3, <2>1, <2>3, <2>4 DEF UndoInv, Grown
<1> QED
  BY <1>2, <1>3

LEMMA UndoStep == Inv /\ UndoInv /\ [Next]_vars => UndoInv'
<1> SUFFICES ASSUME Inv, UndoInv, [Next]_vars PROVE UndoInv'
  OBVIOUS
<1>1. CASE ExecOpen
  BY <1>1, UndoOpen
<1>2. CASE ExecHeader
  BY <1>2, UndoHeader
<1>3. CASE ExecEnv
  BY <1>3, UndoEnv
<1>4. CASE ExecMem
  BY <1>4, UndoMem
<1>5. CASE ExecRead
  BY <1>5, UndoRead
<1>6. CASE UNCHANGED vars
  <2>1. UNCHANGED <<owner, cu_psp, sft, pc, x, lost>>
    BY <1>6 DEF vars, files
  <2> QED
    BY <2>1 DEF UndoInv, Held
<1>7. ASSUME pc' \in UndoPcs, pc = "user", pc' = pc
      PROVE  FALSE
  BY <1>7 DEF UndoPcs
<1>8. CASE DosOpen \/ DosClose \/ FcbOpen \/ FcbClose \/ FcbGetFileSize
  <2>1. \E out : pc' = After(out)
    BY <1>8 DEF DosOpen, DosClose, FcbOpen, FcbClose, FcbGetFileSize
  <2> QED
    BY <2>1, ElseUndo DEF UndoPcs, After
<1>9. CASE DosForceDup
  <2>1. pc = "user" /\ (pc' = pc \/ \E out : pc' = After(out))
    BY <1>9 DEF DosForceDup, Call
  <2> QED
    BY <2>1, ElseUndo DEF UndoPcs, After
<1>10. CASE DosDup \/ SetJFTSize \/ GetBlock \/ CreatePsp \/ PopUp \/ PopDown \/ Keep
  <2>1. pc = "user" /\ pc' = pc
    BY <1>10 DEF DosDup, SetJFTSize, GetBlock, CreatePsp, PopUp, PopDown, Keep, Call
  <2> QED
    BY <2>1, ElseUndo DEF UndoPcs
<1>11. CASE ExecClose \/ ExecStart \/ ExecFinish \/ Terminate
  <2>1. pc' \in {"abort", "user", "finish", "start", "small"}
    BY <1>11 DEF ExecClose, ExecStart, ExecFinish, Terminate, Abandon, After
  <2> QED
    BY <2>1, ElseUndo DEF UndoPcs
<1> QED
  BY <1>1, <1>2, <1>3, <1>4, <1>5, <1>6, <1>8, <1>9, <1>10, <1>11 DEF Next

\* Closing its file undoes the last of what EXEC did.
LEMMA Undone ==
  ASSUME Inv, UndoInv, [Next]_vars, pc = "giveup", pc' = "user"
  PROVE  <<owner', Held'>> = x.found
<1> DEFINE o == x.found[1]
           g == x.found[2]
<1>1. Grown(o, g) /\ owner = o /\ pc \in UndoPcs
  BY Found DEF UndoInv, UndoPcs
<1>2. ExecFinish
  <2>1. pc' # pc
    OBVIOUS
  <2> QED
    BY <2>1 DEF Next, vars, Call, DosOpen, DosClose, DosDup, DosForceDup, SetJFTSize, FcbOpen, FcbClose,
       FcbGetFileSize, ExecOpen, ExecHeader, ExecEnv, ExecMem, ExecRead, ExecClose, ExecStart, GetBlock,
       CreatePsp, PopUp, PopDown, Terminate, Keep
<1>3. sft[x.fd].count = 1 /\ x.fd \in Sfts /\ Types
  BY <1>1, ExecHolds, SameTypes DEF Grown, ExecPcs, Inv
<1>4. PICK out \in Outcomes : sft' = DosCloseSft(sft, x.fd, out) /\ Forget(x.fd, IF out = "ok" THEN 0 ELSE 1)
                              /\ UNCHANGED owner
  BY <1>2, <1>3 DEF ExecFinish
<1>5. Counted(sft', sft, x.fd, IF out = "ok" THEN -1 ELSE 0)
  BY <1>3, <1>4, Closed DEF Types
<1>6. ASSUME NEW k \in Sfts
      PROVE  sft'[k].count - lost'[k] = IF k = x.fd THEN Held[k] - 1 ELSE Held[k]
  <2>1. sft[k].count \in Nat /\ lost[k] \in Nat /\ Held[k] = sft[k].count - lost[k]
    BY Counts DEF Held
  <2>2. sft'[k].count = IF k = x.fd THEN sft[k].count + (IF out = "ok" THEN -1 ELSE 0) ELSE sft[k].count
    BY <1>5 DEF Counted
  <2>3. lost'[k] = IF k = x.fd THEN lost[k] + (IF out = "ok" THEN 0 ELSE 1) ELSE lost[k]
    BY <1>3, <1>4 DEF Forget, Types
  <2> QED
    BY <2>1, <2>2, <2>3
<1>7. ASSUME NEW k \in Sfts
      PROVE  sft'[k].count - lost'[k] = g[k]
  <2>1. Held[k] = (IF k = x.fd THEN g[k] + 1 ELSE g[k]) /\ g[k] \in Int
    BY <1>1 DEF Grown
  <2> QED
    BY <1>6, <2>1
<1>8. Held' = g /\ owner' = o /\ x.found = <<o, g>>
  <2> HIDE DEF g
  <2>1. g \in [Sfts -> Int] /\ Held' = [k \in Sfts |-> sft'[k].count - lost'[k]]
    BY <1>1 DEF Grown, Held
  <2> QED
    BY <1>1, <1>4, <1>7, <2>1 DEF Grown
<1> QED
  BY <1>8

\* An EXEC that gives an error back because the file could not be loaded has
\* freed the blocks it allocated and closed the file it opened, wherever it
\* gave up: no block changed hands and no entry has a reference more.
THEOREM UndoneHolds == Spec => ExecUndone
<1>1. Inv /\ UndoInv /\ [Next]_vars => [pc = "giveup" /\ pc' = "user" => <<owner', Held'>> = x.found]_vars
  BY Undone
<1>2. Spec => []UndoInv
  BY InvHolds, UndoInit, UndoStep, PTL DEF Spec
<1> QED
  BY <1>1, <1>2, InvHolds, PTL DEF Spec, ExecUndone

=============================================================================
