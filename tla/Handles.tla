------------------------------ MODULE Handles ------------------------------
(***************************************************************************)
(* Open files and processes: the system file table (SFT) with its          *)
(* reference counts and the job file tables of processes (kernel/dosfns.c, *)
(* newstuff.c), files opened through FCBs (fcbfns.c), and the life of a    *)
(* process: EXEC with its loaders, INT 21h/55h, termination, staying       *)
(* resident (task.c, inthndlr.c).                                          *)
(*                                                                         *)
(* Calls do not nest, so a call is one step, with the outcome of its disk  *)
(* or device transfer: "ok", "fail", or "abort" (the critical error        *)
(* handler ends the program: the call stops there and `pc' is "abort"      *)
(* until return_user has run).  EXEC is a step per transfer or allocation. *)
(* Calls refused without an effect (no free handle, no free entry, a       *)
(* handle that is not open) are no actions.                                *)
(*                                                                         *)
(* A segment stands for a memory block: which one an allocation takes is   *)
(* the memory manager's affair (module MemMgr) and left open here.  A      *)
(* process is the segment of its PSP.  Networked files are counted by the  *)
(* redirector and are left out, as is SHARE (module Share).                *)
(*                                                                         *)
(* `alive', `kept', `ghosts', `fcbs' and `lost' are auxiliary: the         *)
(* processes there are, those that stay resident, those a failed EXEC made *)
(* and nobody runs, the SFT entries programs hold in FCBs, and the         *)
(* references nobody holds any more; so is x.found, what EXEC found.       *)
(***************************************************************************)
EXTENDS Integers, FiniteSets, FiniteSetsExt, Functions

CONSTANTS Segs, None,  \* segments that may hold a block; no segment
          Root,        \* the first process, its own parent
          NSft,        \* entries of the SFT
          StdFiles,    \* handles of a new process (20 in the code)
          MaxFiles,    \* the largest job file table INT 21h/67h is asked for
          Outcomes,    \* how transfers may end
          Kinds,       \* what programs open: files, character devices
          Fcbs,        \* whether FCBs are used
          MaxLost      \* bound: calls begin only while at most this many
                       \* references are lost

ASSUME HandlesAssumption ==
  /\ IsFiniteSet(Segs) /\ Root \in Segs /\ None \notin Segs
  /\ NSft \in Nat \ {0} /\ StdFiles \in Nat \ {0} /\ MaxFiles \in Nat
  /\ StdFiles <= MaxFiles /\ MaxLost \in Nat
  /\ "ok" \in Outcomes /\ Outcomes \subseteq {"ok", "fail", "abort"}
  /\ Kinds \subseteq {"file", "device"} /\ Fcbs \in BOOLEAN

NoFile == -1                             \* 0xff in a job file table
Sfts == 0..NSft-1
Handle == 0..MaxFiles-1

VARIABLES
  owner,            \* m_psp of each block, None if free
  cu_psp, under,    \* current process; the one a resident program interrupted
  psp,              \* the PSPs: parent, job file table, its size and the part in use
  sft,              \* the system file table
  pc,               \* "user", "abort", or where EXEC is
  x,                \* locals of EXEC
  alive, kept, ghosts, fcbs, lost

procs == <<alive, kept, ghosts>>
files == <<sft, fcbs, lost>>
vars == <<owner, cu_psp, under, psp, pc, x, procs, files>>

NoEntry == [count |-> 0, kind |-> "file", psp |-> None, fcb |-> FALSE, noinherit |-> FALSE]
NoPsp == [parent |-> None, ps_filetab |-> [h \in Handle |-> NoFile], size |-> 0, ps_maxfiles |-> 0]
NoExec == [fd |-> NoFile, format |-> "com", mode |-> "run", env |-> None, mem |-> None,
           found |-> <<>>]

Init ==
  /\ owner = [b \in Segs |-> IF b = Root THEN Root ELSE None]
  /\ cu_psp = Root /\ under = None
  /\ psp = [b \in Segs |-> IF b = Root
              THEN [NoPsp EXCEPT !.parent = Root, !.size = StdFiles, !.ps_maxfiles = StdFiles]
              ELSE NoPsp]
  /\ sft = [i \in Sfts |-> NoEntry]
  /\ pc = "user" /\ x = NoExec
  /\ alive = {Root} /\ kept = {} /\ ghosts = {}
  /\ fcbs = [b \in Segs |-> {}]
  /\ lost = [i \in Sfts |-> 0]

-----------------------------------------------------------------------------
(* Tables.                                                                 *)

Me == psp[cu_psp]
Free == {b \in Segs : owner[b] = None}
Call == pc = "user" /\ SumFunction(lost) <= MaxLost

\* A resident program that popped up answers critical errors itself.
Outs == IF under = None THEN Outcomes ELSE Outcomes \ {"abort"}
After(out) == IF out = "abort" THEN "abort" ELSE "user"

FreeHandles == {h \in 0..Me.ps_maxfiles-1 : Me.ps_filetab[h] = NoFile}
get_free_hndl == Min(FreeHandles)
FreeSfts == {i \in Sfts : sft[i].count = 0}
get_free_sft == Min(FreeSfts)

\* get_sft finds an entry in use behind the handle.
IsOpen(h) == /\ h < Me.ps_maxfiles /\ Me.ps_filetab[h] # NoFile
             /\ sft[Me.ps_filetab[h]].count > 0

\* What an entry holds when nothing references it is cleared before use.
Tidy(s) == [i \in Sfts |-> IF s[i].count = 0 THEN NoEntry ELSE s[i]]
Add(s, i, n) == Tidy([s EXCEPT ![i].count = @ + n])

\* The table after DosOpenSft: the entry is counted before the device or the
\* file system is asked, and a device's refusal leaves it so.
DosOpenSft(kind, fcb, noinherit, out) ==
  IF out = "fail" /\ kind = "file" THEN sft
  ELSE [sft EXCEPT ![get_free_sft] = [count |-> 1, kind |-> kind, psp |-> cu_psp,
                                      fcb |-> fcb, noinherit |-> noinherit]]

\* Mutant: the entry is given up before the close has succeeded.
DosCloseSft_Early(s, i, out) == Add(s, i, -1)

\* The table after DosCloseSft: a close that fails leaves the count.
DosCloseSft(s, i, out) == IF out = "ok" THEN Add(s, i, -1) ELSE s

Forget(i, n) == lost' = [lost EXCEPT ![i] = @ + n]

\* Handles of p beyond the part of its table in use, and all it has.
Has(p) == {h \in 0..psp[p].size-1 : psp[p].ps_filetab[h] # NoFile}
Hidden(p) == {h \in Has(p) : h >= psp[p].ps_maxfiles}
\* Mutant: a file is counted once, however many handles a process has.
To_Once(p, S, i) == IF \E h \in S : psp[p].ps_filetab[h] = i THEN 1 ELSE 0

To(p, S, i) == Cardinality({h \in S : psp[p].ps_filetab[h] = i})

-----------------------------------------------------------------------------
(* Handle calls.                                                           *)

DosOpen ==
  /\ Call /\ FreeHandles # {} /\ FreeSfts # {}
  /\ \E kind \in Kinds, noinherit \in BOOLEAN, out \in Outs :
       LET i == get_free_sft IN
       /\ sft' = DosOpenSft(kind, FALSE, noinherit, out)
       /\ IF out = "ok"
          THEN psp' = [psp EXCEPT ![cu_psp].ps_filetab[get_free_hndl] = i] /\ UNCHANGED lost
          ELSE Forget(i, sft'[i].count) /\ UNCHANGED psp
       /\ pc' = After(out)
  /\ UNCHANGED <<owner, cu_psp, under, x, procs, fcbs>>

\* The handle is given up before anything can go wrong.
DosClose ==
  /\ Call
  /\ \E h \in Handle, out \in Outs :
       LET i == Me.ps_filetab[h] IN
       /\ IsOpen(h)
       /\ psp' = [psp EXCEPT ![cu_psp].ps_filetab[h] = NoFile]
       /\ sft' = DosCloseSft(sft, i, out)
       /\ Forget(i, IF out = "ok" THEN 0 ELSE 1)
       /\ pc' = After(out)
  /\ UNCHANGED <<owner, cu_psp, under, x, procs, fcbs>>

DosDup ==
  /\ Call /\ FreeHandles # {}
  /\ \E h \in Handle :
       /\ IsOpen(h)
       /\ psp' = [psp EXCEPT ![cu_psp].ps_filetab[get_free_hndl] = Me.ps_filetab[h]]
       /\ sft' = Add(sft, Me.ps_filetab[h], 1)
  /\ UNCHANGED <<owner, cu_psp, under, pc, x, procs, fcbs, lost>>

\* The new handle is not compared with the number of handles, nor with the
\* old one; only places within the table are considered here.
DosForceDup ==
  /\ Call
  /\ \E old \in Handle, new \in 0..Me.size-1 :
       LET i == Me.ps_filetab[old]
           j == Me.ps_filetab[new] IN
       /\ IsOpen(old)
       /\ \/ /\ j = NoFile
             /\ psp' = [psp EXCEPT ![cu_psp].ps_filetab[new] = i]
             /\ sft' = Add(sft, i, 1)
             /\ UNCHANGED <<lost, pc>>
          \/ /\ IsOpen(new)
             /\ \E out \in Outs :
                  IF out = "ok"
                  THEN /\ psp' = [psp EXCEPT ![cu_psp].ps_filetab[new] =
                                                 IF new = old THEN NoFile ELSE i]
                       /\ sft' = Tidy([[sft EXCEPT ![j].count = @ - 1]
                                           EXCEPT ![i].count = @ + 1])
                       /\ Forget(i, IF new = old THEN 1 ELSE 0)
                       /\ UNCHANGED pc
                  ELSE /\ psp' = [psp EXCEPT ![cu_psp].ps_filetab[new] = NoFile]
                       /\ Forget(j, 1)
                       /\ pc' = After(out)
                       /\ UNCHANGED sft
  /\ UNCHANGED <<owner, cu_psp, under, x, procs, fcbs>>

\* Shrinking only moves the limit; growing copies what is below it.
SetJFTSize ==
  /\ Call
  /\ \E n \in 0..MaxFiles :
       \/ /\ n <= Me.ps_maxfiles
          /\ psp' = [psp EXCEPT ![cu_psp].ps_maxfiles = n]
          /\ UNCHANGED <<owner, lost>>
       \/ /\ n > Me.ps_maxfiles
          /\ \E b \in Free : owner' = [owner EXCEPT ![b] = cu_psp]
          /\ psp' = [psp EXCEPT ![cu_psp].ps_filetab = [h \in Handle |-> IF h < Me.ps_maxfiles
                                                                         THEN @[h] ELSE NoFile],
                                ![cu_psp].size = n, ![cu_psp].ps_maxfiles = n]
          /\ lost' = [i \in Sfts |-> lost[i] + To(cu_psp, Hidden(cu_psp), i)]
  /\ UNCHANGED <<cu_psp, under, sft, pc, x, procs, fcbs>>

-----------------------------------------------------------------------------
(* FCB calls.                                                              *)

FcbOpen ==
  /\ Call /\ Fcbs /\ FreeSfts # {}
  /\ \E kind \in Kinds, out \in Outs :
       LET i == get_free_sft IN
       /\ sft' = DosOpenSft(kind, TRUE, FALSE, out)
       /\ IF out = "ok" THEN fcbs' = [fcbs EXCEPT ![cu_psp] = @ \cup {i}] /\ UNCHANGED lost
          ELSE Forget(i, sft'[i].count) /\ UNCHANGED fcbs
       /\ pc' = After(out)
  /\ UNCHANGED <<owner, cu_psp, under, psp, x, procs>>

\* The FCB keeps the number of its entry unless the close succeeds.
FcbClose ==
  /\ Call
  /\ \E i \in fcbs[cu_psp], out \in Outs :
       /\ sft' = DosCloseSft(sft, i, out)
       /\ fcbs' = [fcbs EXCEPT ![cu_psp] = IF out = "ok" THEN @ \ {i} ELSE @]
       /\ pc' = After(out)
  /\ UNCHANGED <<owner, cu_psp, under, psp, x, procs, lost>>

\* Opens the file, and leaves it open if the close does not succeed.
FcbGetFileSize ==
  /\ Call /\ Fcbs /\ FreeSfts # {}
  /\ \E out \in Outs \ {"ok"} :
       LET i == get_free_sft IN
       /\ sft' = DosOpenSft("file", FALSE, FALSE, "ok")
       /\ Forget(i, 1)
       /\ pc' = After(out)
  /\ UNCHANGED <<owner, cu_psp, under, psp, x, procs, fcbs>>

-----------------------------------------------------------------------------
(* EXEC.                                                                   *)

\* What references there are to each entry, lost ones aside.
Held == [i \in Sfts |-> sft[i].count - lost[i]]

GiveUp == pc' = "giveup" /\ UNCHANGED x
\* Mutant: the environment is left allocated.
Gone_NotEnv(blocks) == [b \in Segs |-> IF b \in blocks \ {x.env} THEN None ELSE owner[b]]

Gone(blocks) == [b \in Segs |-> IF b \in blocks THEN None ELSE owner[b]]

ExecOpen ==
  /\ Call /\ under = None /\ FreeSfts # {}
  /\ \E mode \in {"run", "load", "overlay"}, out \in Outs \ {"fail"} :
       LET i == get_free_sft IN
       /\ sft' = DosOpenSft("file", FALSE, FALSE, out)
       /\ IF out = "ok" THEN /\ x' = [NoExec EXCEPT !.fd = i, !.mode = mode,
                                             !.found = <<owner, Held>>]
                             /\ pc' = "header"
                             /\ UNCHANGED lost
          ELSE Forget(i, 1) /\ pc' = "abort" /\ UNCHANGED x
  /\ UNCHANGED <<owner, cu_psp, under, psp, procs, fcbs>>

\* The handler of a failed transfer chose to end the program: EXEC is over,
\* its file stays open.
Abandon == Forget(x.fd, 1) /\ pc' = "abort" /\ x' = NoExec

\* Whatever is not an EXE header goes to the COM loader, a header that could
\* not be read included; an empty file does not, nor an EXE that is too big.
ExecHeader ==
  /\ pc = "header"
  /\ \/ /\ \E format \in {"com", "exe"} : x' = [x EXCEPT !.format = format]
        /\ pc' = IF x.mode = "overlay" THEN "read" ELSE "env"
        /\ UNCHANGED lost
     \/ GiveUp /\ UNCHANGED lost
     \/ "abort" \in Outcomes /\ Abandon
  /\ UNCHANGED <<owner, cu_psp, under, psp, sft, procs, fcbs>>

ExecEnv ==
  /\ pc = "env"
  /\ \/ \E b \in Free : /\ owner' = [owner EXCEPT ![b] = cu_psp]
                        /\ x' = [x EXCEPT !.env = b] /\ pc' = "mem"
     \/ GiveUp /\ UNCHANGED owner
  /\ UNCHANGED <<cu_psp, under, psp, procs, files>>

ExecMem ==
  /\ pc = "mem"
  /\ \/ \E b \in Free : /\ owner' = [owner EXCEPT ![b] = cu_psp]
                        /\ x' = [x EXCEPT !.mem = b] /\ pc' = "read"
     \/ owner' = Gone({x.env}) /\ GiveUp
  /\ UNCHANGED <<cu_psp, under, psp, procs, files>>

\* The image is read without a look at the result; seeking to an EXE's image
\* and reading its relocation table may fail.
ExecRead ==
  /\ pc = "read"
  /\ \/ pc' = "close" /\ UNCHANGED <<owner, lost, x>>
     \/ /\ x.format = "exe"
        /\ owner' = Gone({x.env, x.mem})
        /\ GiveUp /\ UNCHANGED lost
     \/ "abort" \in Outcomes /\ Abandon /\ UNCHANGED owner
  /\ UNCHANGED <<cu_psp, under, psp, sft, procs, fcbs>>

ExecClose ==
  /\ pc = "close"
  /\ \E out \in Outcomes :
       /\ sft' = DosCloseSft(sft, x.fd, out)
       /\ IF out = "abort" THEN Abandon
          ELSE /\ pc' = IF x.mode = "overlay" THEN "finish" ELSE "start"
               /\ UNCHANGED <<x, lost>>
  /\ UNCHANGED <<owner, cu_psp, under, psp, procs, fcbs>>

\* Mutant: O_NOINHERIT is not looked at.
Inherited_All == {h \in 0..StdFiles-1 : IsOpen(h)}

\* child_psp: handles below 20 are inherited unless opened with O_NOINHERIT.
Inherited == {h \in 0..StdFiles-1 : IsOpen(h) /\ ~sft[Me.ps_filetab[h]].noinherit}
child_psp(b) ==
  /\ psp' = [psp EXCEPT ![b] =
               [parent |-> cu_psp, size |-> StdFiles, ps_maxfiles |-> StdFiles,
                ps_filetab |-> [h \in Handle |-> IF h \in Inherited
                                                 THEN Me.ps_filetab[h] ELSE NoFile]]]
  /\ sft' = [i \in Sfts |-> [sft[i] EXCEPT !.count = @ + To(cu_psp, Inherited, i)]]

\* patchPSP gives the blocks to the child.  A COM program in exactly 16
\* paragraphs is then refused, with everything left as it is.
ExecStart ==
  /\ pc = "start"
  /\ child_psp(x.mem)
  /\ owner' = [owner EXCEPT ![x.mem] = x.mem, ![x.env] = x.mem]
  /\ \/ /\ cu_psp' = x.mem /\ alive' = alive \cup {x.mem}
        /\ IF x.mode = "run"       \* load_transfer does not return
           THEN Forget(x.fd, sft[x.fd].count) /\ pc' = "user" /\ x' = NoExec
           ELSE pc' = "finish" /\ UNCHANGED <<x, lost>>
        /\ UNCHANGED ghosts
     \/ /\ x.format = "com"
        /\ ghosts' = ghosts \cup {x.mem}
        /\ lost' = [i \in Sfts |-> lost[i] + To(cu_psp, Inherited, i)]
        /\ pc' = "small"
        /\ UNCHANGED <<x, cu_psp, alive>>
  /\ UNCHANGED <<under, kept, fcbs>>

\* DosExec closes the file once more, which has an effect only if it is open.
ExecFinish ==
  /\ pc \in {"giveup", "small", "finish"}
  /\ \/ sft[x.fd].count = 0 /\ pc' = "user" /\ UNCHANGED <<sft, lost>>
     \/ \E out \in Outcomes :
          /\ sft[x.fd].count > 0
          /\ sft' = DosCloseSft(sft, x.fd, out)
          /\ Forget(x.fd, IF out = "ok" THEN 0 ELSE 1)
          /\ pc' = After(out)
  /\ x' = NoExec
  /\ UNCHANGED <<owner, cu_psp, under, psp, procs, fcbs>>

-----------------------------------------------------------------------------
(* Other calls about processes.                                            *)

\* INT 21h/48h, as far as it matters here.
GetBlock ==
  /\ Call /\ under = None
  /\ \E b \in Free : owner' = [owner EXCEPT ![b] = cu_psp]
  /\ UNCHANGED <<cu_psp, under, psp, pc, x, procs, files>>

\* INT 21h/55h: a process in a block of the program's own.
CreatePsp ==
  /\ Call /\ under = None
  /\ \E b \in Segs \ (alive \cup ghosts) :
       /\ owner[b] = cu_psp
       /\ child_psp(b)
       /\ cu_psp' = b /\ alive' = alive \cup {b}
  /\ UNCHANGED <<owner, under, pc, x, kept, ghosts, fcbs, lost>>

\* INT 21h/50h: a resident program makes itself current, and restores.
PopUp ==
  /\ Call /\ under = None
  /\ \E t \in kept : cu_psp' = t
  /\ under' = cu_psp
  /\ UNCHANGED <<owner, psp, pc, x, procs, files>>

PopDown ==
  /\ pc = "user" /\ under # None
  /\ cu_psp' = under /\ under' = None
  /\ UNCHANGED <<owner, psp, pc, x, procs, files>>

\* FcbCloseAll stops at the first entry that is not in use.
FcbCloseAll(s) ==
  LET stop == Min({i \in Sfts : s[i].count = 0} \cup {NSft}) IN
  {i \in Sfts : i < stop /\ s[i].fcb /\ s[i].psp = cu_psp}

\* Mutant: only the block of the PSP is freed.
FreeProcessMem_Own(p) == Gone({p})

\* FreeProcessMem of memmgr.c.
FreeProcessMem(p) == Gone({b \in Segs : owner[b] = p})

\* return_user when the process goes: its handles, the FCBs and its memory.
\* No close aborts here (abort_progress), but any may fail.
Cleanup ==
  \E bad \in IF "fail" \in Outcomes THEN SUBSET (Has(cu_psp) \ Hidden(cu_psp)) ELSE {{}} :
    LET gone == Has(cu_psp) \ (Hidden(cu_psp) \cup bad)
        s == Tidy([i \in Sfts |-> [sft[i] EXCEPT !.count = @ - To(cu_psp, gone, i)]])
        mine == fcbs[cu_psp] IN
    \E stuck \in IF "fail" \in Outcomes THEN SUBSET FcbCloseAll(s) ELSE {{}} :
      LET closed == FcbCloseAll(s) \ stuck
          One(b) == IF b THEN 1 ELSE 0 IN
      /\ sft' = Tidy([i \in Sfts |-> [s[i] EXCEPT !.count = @ - One(i \in closed)]])
      /\ lost' = [i \in Sfts |-> lost[i] + To(cu_psp, Has(cu_psp) \ gone, i)
                                 + One(i \in mine \ closed) - One(i \in closed \ mine)]
      /\ fcbs' = [fcbs EXCEPT ![cu_psp] = {}]
      /\ psp' = [psp EXCEPT ![cu_psp] = NoPsp]
      /\ owner' = FreeProcessMem(cu_psp)
      /\ alive' = alive \ {cu_psp}

\* A process that is its own parent is not cleaned up.
Terminate ==
  /\ pc \in {"user", "abort"} /\ under = None
  /\ IF Me.parent # cu_psp THEN Cleanup ELSE UNCHANGED <<files, psp, owner, alive>>
  /\ cu_psp' = Me.parent
  /\ pc' = "user"
  /\ UNCHANGED <<under, x, kept, ghosts>>

\* INT 21h/31h, by a process that owns its block.
Keep ==
  /\ pc = "user" /\ under = None /\ cu_psp # Root /\ owner[cu_psp] = cu_psp
  /\ kept' = kept \cup {cu_psp}
  /\ cu_psp' = Me.parent
  /\ UNCHANGED <<owner, under, psp, pc, x, alive, ghosts, files>>

Next ==
  \/ DosOpen \/ DosClose \/ DosDup \/ DosForceDup \/ SetJFTSize
  \/ FcbOpen \/ FcbClose \/ FcbGetFileSize
  \/ ExecOpen \/ ExecHeader \/ ExecEnv \/ ExecMem \/ ExecRead \/ ExecClose
  \/ ExecStart \/ ExecFinish
  \/ GetBlock \/ CreatePsp \/ PopUp \/ PopDown \/ Terminate \/ Keep

Spec == Init /\ [][Next]_vars

-----------------------------------------------------------------------------
(* Properties.                                                             *)

\* Types of all variables (psp and sft of dosfns.c and task.c).
TypeOK ==
  /\ owner \in [Segs -> Segs \cup {None}]
  /\ cu_psp \in Segs /\ under \in Segs \cup {None}
  /\ psp \in [Segs -> [parent : Segs \cup {None}, ps_filetab : [Handle -> Sfts \cup {NoFile}],
                       size : 0..MaxFiles, ps_maxfiles : 0..MaxFiles]]
  /\ \A p \in Segs : psp[p].ps_maxfiles <= psp[p].size
  /\ sft \in [Sfts -> [count : Nat, kind : {"file", "device"}, psp : Segs \cup {None},
                       fcb : BOOLEAN, noinherit : BOOLEAN]]
  /\ pc \in {"user", "abort", "header", "env", "mem", "read", "close", "start",
             "giveup", "small", "finish"}
  /\ x \in [fd : Sfts \cup {NoFile}, format : {"com", "exe"},
            mode : {"run", "load", "overlay"}, env : Segs \cup {None}, mem : Segs \cup {None},
            found : {<<>>} \cup ([Segs -> Segs \cup {None}] \X [Sfts -> Int])]
  /\ alive \subseteq Segs /\ kept \subseteq alive /\ ghosts \subseteq Segs
  /\ fcbs \in [Segs -> SUBSET Sfts] /\ lost \in [Sfts -> Nat]

JftRefs(i) == {r \in alive \X Handle : psp[r[1]].ps_filetab[r[2]] = i}
FcbRefs(i) == {p \in alive : i \in fcbs[p]}
ExecRef(i) == IF pc # "user" /\ x.fd = i /\ sft[i].count > 0 THEN 1 ELSE 0

\* sft_count is exactly the number of handles, FCBs and loads that refer to
\* the entry, and of the references the hazards of this code have lost: so
\* an entry some handle names is never taken for free and given to another
\* file (get_free_sft, DosCloseSft, DosForceDup, child_psp, return_user).
CountsMatch ==
  \A i \in Sfts : sft[i].count = Cardinality(JftRefs(i)) + Cardinality(FcbRefs(i))
                                 + ExecRef(i) + lost[i]

\* A file opened with O_NOINHERIT is known to handles of its opener only,
\* whatever is duplicated, inherited or closed later (CloneHandle).
NoInherit ==
  \A p \in alive, h \in Handle :
    LET i == psp[p].ps_filetab[h] IN i # NoFile /\ sft[i].noinherit => p = sft[i].psp

\* Every block belongs to a process there is (or one a COM program too small
\* for its block left behind), and no process's PSP lies in a block that is
\* free or somebody else's leftover (patchPSP, FreeProcessMem).
MemoryOwned ==
  /\ cu_psp \in alive
  /\ \A b \in Segs : owner[b] # None => owner[b] \in alive \cup ghosts
  /\ \A p \in alive : owner[p] \in alive
  /\ pc \in {"mem", "read", "close", "start"} /\ x.mode # "overlay" => owner[x.env] = cu_psp

\* An EXEC that gives an error back has given back the memory and the file
\* it took (DosComLoader, DosExeLoader), except the COM program refused last.
ExecUndone ==
  [][pc = "giveup" /\ pc' = "user" =>
       <<owner', Held'>> = x.found]_vars

\* When a process ends, no entry stays that it opened through an FCB
\* (FcbCloseAll).
FcbsClosed ==
  [][alive' = alive \ {cu_psp} /\ cu_psp' # cu_psp =>
       \A i \in Sfts : ~(sft'[i].fcb /\ sft'[i].psp = cu_psp)]_vars

=============================================================================
