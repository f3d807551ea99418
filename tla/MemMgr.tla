------------------------------- MODULE MemMgr -------------------------------
(***************************************************************************)
(* The memory control block (MCB) chain of kernel/memmgr.c, with the       *)
(* INT 21h calls that use it (kernel/inthndlr.c).                          *)
(*                                                                         *)
(* m_type, m_psp and m_size hold the header stored at each paragraph.  One *)
(* that joinMCBs unlinked keeps its bytes; a paragraph whose bytes are a   *)
(* program's data has type "-".                                            *)
(*                                                                         *)
(* Every loop of the C code is stepped: one action per iteration, with the *)
(* C locals in variables.  A call starts at pc = "idle", ends at           *)
(* pc = "done" with its answer in `out', and the program then reads the    *)
(* answer.  Nothing else runs between (the kernel is not reentrant), so    *)
(* the steps of a call show its intermediate states, not an interleaving.  *)
(*                                                                         *)
(* `heads' and `snap' are auxiliary: the set of chained headers, and what  *)
(* programs saw when the call began.  No kernel step reads either.         *)
(***************************************************************************)
EXTENDS Integers

CONSTANTS FirstMcb, SysParas, Top, Roots, BridgeParas, Psps, Sizes, Modes,
          FFFF            \* the 16-bit word 0xffff

FAKE == FFFF              \* m_size of a header that joinMCBs unlinked
NoUmb == FFFF             \* uppermem_root when there is no upper memory
FREE_PSP == 0
SYS == 8                  \* owner of the system's own blocks
LARGEST == -1
NULL == 0
Para == FirstMcb..Top-1

\* The memory is not empty, a segment fits 16 bits, no program has the owner
\* value of free or system memory, and strategies are those that INT 21h/5801h
\* accepts: first, best or last fit, alone or with one upper-memory bit.
ASSUME MemAssumption ==
  /\ FirstMcb \in Nat \ {0} /\ Top \in Nat /\ SysParas \in Nat /\ BridgeParas \in Nat
  /\ FirstMcb + SysParas + 1 < Top /\ FFFF \in Nat /\ Top < FFFF
  /\ Roots \subseteq Nat
  /\ \A r \in Roots \ {NoUmb} :
        FirstMcb + SysParas + 1 < r /\ r + BridgeParas + 1 < Top
  /\ Psps \subseteq Nat \ {FREE_PSP, SYS} /\ Psps # {}
  /\ Sizes \subseteq 0..FFFF
  /\ Modes \subseteq {0, 1, 2, 64, 65, 66, 128, 129, 130}

VARIABLES
  m_type, m_psp, m_size,  \* the header stored at each paragraph
  uppermem_root, uppermem_link, mem_access_mode, cu_psp,
  pc, op,                 \* which loop, and on behalf of which call
  mode, size,             \* arguments of DosMemAlloc / DosMemChange / DosUmbLink
  p, found, biggest,      \* their local MCB pointers
  keep,                   \* a value the caller holds across the call
  err,                    \* the error being reported
  out,                    \* the answer
  heads, snap             \* auxiliary

sysvars == <<uppermem_root, uppermem_link, mem_access_mode, cu_psp>>
locals == <<pc, op, mode, size, p, found, biggest, keep, err>>
mcbs == <<m_type, m_psp, m_size, heads>>
vars == <<mcbs, sysvars, locals, out, heads, snap>>

Idle == [rc |-> "IDLE", val |-> 0]
Answer(rc, v) == [rc |-> rc, val |-> v]

-----------------------------------------------------------------------------
(* Headers *)

nxtMCB(h) == h + m_size[h] + 1
mcbFree(h) == m_psp[h] = FREE_PSP
mcbFreeable(h) == m_type[h] \in {"M", "Z"}
mcbValid(h) == m_size[h] # FAKE /\ mcbFreeable(h)

HasUmb == uppermem_root # NoUmb
UmbLinked == uppermem_link = 1 /\ HasUmb

\* One turn of the loop of joinMCBs: q, the free header after h, becomes part
\* of h, and its size is marked so that it can no longer be taken for a block.
joinable(h) == m_type[h] = "M" /\ mcbFree(nxtMCB(h))

\* Mutants: q is marked before its size is added; q keeps looking like a block.
joinMCBs_MarkFirst(h) ==
  LET q == nxtMCB(h)
  IN /\ m_type' = [m_type EXCEPT ![h] = m_type[q]]
     /\ m_size' = [m_size EXCEPT ![h] = m_size[h] + FAKE + 1, ![q] = FAKE]
     /\ heads' = heads \ {q} /\ UNCHANGED m_psp

joinMCBs_NoMark(h) ==
  LET q == nxtMCB(h)
  IN /\ m_type' = [m_type EXCEPT ![h] = m_type[q]]
     /\ m_size' = [m_size EXCEPT ![h] = m_size[h] + m_size[q] + 1]
     /\ heads' = heads \ {q} /\ UNCHANGED m_psp

joinMCBs(h) ==
  LET q == nxtMCB(h)
  IN /\ m_type' = [m_type EXCEPT ![h] = m_type[q]]
     /\ m_size' = [m_size EXCEPT ![h] = m_size[h] + m_size[q] + 1, ![q] = FAKE]
     /\ heads' = heads \ {q} /\ UNCHANGED m_psp

\* A block becomes the current program's.
Give(h) == m_psp' = [m_psp EXCEPT ![h] = cu_psp] /\ UNCHANGED <<m_type, m_size, heads>>

\* Mutant: the new header does not take over the type.
Split_NoType(h, n, low, high) ==
  LET q == h + n + 1
  IN /\ m_type' = [m_type EXCEPT ![h] = "M"]
     /\ m_size' = [m_size EXCEPT ![h] = n, ![q] = m_size[h] - n - 1]
     /\ m_psp' = [m_psp EXCEPT ![h] = low, ![q] = high]
     /\ heads' = heads \cup {q}

\* Block h is cut after n paragraphs; low and high are the owners of the parts.
Split(h, n, low, high) ==
  LET q == h + n + 1
  IN /\ m_type' = [m_type EXCEPT ![h] = "M", ![q] = m_type[h]]
     /\ m_size' = [m_size EXCEPT ![h] = n, ![q] = m_size[h] - n - 1]
     /\ m_psp' = [m_psp EXCEPT ![h] = low, ![q] = high]
     /\ heads' = heads \cup {q}

-----------------------------------------------------------------------------
(* Ends and beginnings of calls *)

Return(rc, v) ==
  /\ pc' = "done" /\ out' = Answer(rc, v)
  /\ op' = "none" /\ mode' = 0 /\ size' = 0
  /\ p' = NULL /\ found' = NULL /\ biggest' = NULL
  /\ keep' = 0 /\ err' = "none"

\* What programs see: the owned blocks.
Owned == [b \in {h \in heads : m_psp[h] # FREE_PSP} |->
            [psp |-> m_psp[b], size |-> m_size[b]]]

CallBegins ==
  /\ pc = "idle"
  /\ snap' = [blocks |-> Owned, link |-> uppermem_link, mode |-> mem_access_mode]

\* A walk over the chain starts at its first header.
WalkFrom(loop, h) ==
  /\ pc' = loop /\ p' = h /\ found' = NULL /\ biggest' = NULL

\* The entry of DosMemAlloc: strategies with an upper-memory bit start at the
\* first header of upper memory.  LARGEST follows the current strategy, but
\* only when it is asked for more than there can be (DosMemLargest).
searchAgain(n, m, access) ==
  LET tmpmode == IF m = LARGEST THEN access ELSE m
  IN /\ WalkFrom("search", IF UmbLinked /\ (m # LARGEST \/ n = FFFF) /\ tmpmode >= 64
                           THEN uppermem_root ELSE FirstMcb)
     /\ size' = n /\ mode' = m

DosMemCheck == WalkFrom("check", FirstMcb)

-----------------------------------------------------------------------------
(* DosMemAlloc: the search *)

\* DosMemAlloc returns to its caller.  INT 21h/48h answers a failure with the
\* size of the largest block: DosMemLargest runs up to two more searches, the
\* second one with the high-memory bit taken out of the strategy, and then
\* DosMemCheck looks at the chain.
AllocReturns(rc, v) ==
  CASE op = "exec" \/ (op = "alloc" /\ rc = "SUCCESS") ->
         Return(rc, v) /\ UNCHANGED mem_access_mode
    [] op = "alloc" /\ rc # "SUCCESS" ->
         /\ searchAgain(FFFF, LARGEST, mem_access_mode)
         /\ op' = "largest" /\ err' = rc
         /\ UNCHANGED <<keep, out, mem_access_mode>>
    [] op = "largest" ->
         IF mem_access_mode >= 128
         THEN /\ mem_access_mode' = mem_access_mode - 128
              /\ searchAgain(FFFF, LARGEST, mem_access_mode - 128)
              /\ op' = "lowlargest" /\ keep' = v
              /\ UNCHANGED <<err, out>>
         ELSE /\ DosMemCheck
              /\ op' = "failed" /\ keep' = v
              /\ UNCHANGED <<mode, size, err, out, mem_access_mode>>
    [] op = "lowlargest" ->
         /\ mem_access_mode' = mem_access_mode + 128
         /\ DosMemCheck
         /\ op' = "failed" /\ keep' = IF v > keep THEN v ELSE keep
         /\ UNCHANGED <<mode, size, err, out>>

\* A turn of the loop on a free block first joins what follows it.
SearchJoin ==
  /\ pc = "search"
  /\ mcbValid(p) /\ mcbFree(p) /\ joinable(p)
  /\ IF mcbValid(nxtMCB(p))
     THEN joinMCBs(p) /\ UNCHANGED <<locals, out, mem_access_mode>>
     ELSE AllocReturns("DE_MCBDESTRY", 0) /\ UNCHANGED <<mcbs>>
  /\ UNCHANGED <<uppermem_root, uppermem_link, cu_psp, snap>>

\* The block the rule set keeps after looking at h.  Mutant: best fit takes the
\* last of equal blocks.
Rule_LastBest(h) ==
  CASE mode % 64 = 1 /\ mode # LARGEST ->
         IF found = NULL \/ m_size[found] >= m_size[h] THEN h ELSE found
    [] mode = LARGEST -> found
    [] OTHER -> h

Rule(h) ==
  CASE mode % 64 = 1 /\ mode # LARGEST ->
         IF found = NULL \/ m_size[found] > m_size[h] THEN h ELSE found
    [] mode = LARGEST -> found
    [] OTHER -> h

\* The rest of the turn: a free block is compared with the largest and, when
\* it is large enough, offered to the rule; first fit stops there.
SearchVisit ==
  /\ pc = "search"
  /\ ~ (mcbValid(p) /\ mcbFree(p) /\ joinable(p))
  /\ IF ~ mcbValid(p)
     THEN AllocReturns("DE_MCBDESTRY", 0)
     ELSE LET fits == mcbFree(p) /\ m_size[p] >= size
              stop == fits /\ mode # LARGEST /\ mode % 64 = 0
          IN /\ biggest' = IF mcbFree(p) /\ (biggest = NULL \/ m_size[biggest] < m_size[p])
                           THEN p ELSE biggest
             /\ found' = IF fits THEN Rule(p) ELSE found
             /\ pc' = IF stop THEN "take" ELSE IF m_type[p] = "Z" THEN "decide" ELSE "search"
             /\ p' = IF stop \/ m_type[p] = "Z" THEN p ELSE nxtMCB(p)
             /\ UNCHANGED <<op, mode, size, keep, err, out, mem_access_mode>>
  /\ UNCHANGED <<mcbs, uppermem_root, uppermem_link, cu_psp, snap>>

\* The strategy without its "high, then low" bit.  Mutant: the bit stays.
lowMode_Keeps(m) == m
lowMode(m) == m - 128

\* The whole chain was searched.  LARGEST takes the largest block if that is
\* enough; a block without a usable paragraph counts as none; "high, then
\* low" starts over in low memory.
SearchDecide ==
  /\ pc = "decide"
  /\ LET largest == IF biggest = NULL THEN 0 ELSE m_size[biggest]
         f == IF mode = LARGEST /\ biggest # NULL /\ largest >= size THEN biggest ELSE found
     IN IF f # NULL /\ m_size[f] # 0
        THEN /\ found' = f /\ pc' = "take"
             /\ UNCHANGED <<op, mode, size, p, biggest, keep, err, out, mem_access_mode>>
        ELSE IF mode >= 128 /\ UmbLinked
        THEN /\ searchAgain(size, lowMode(mode), mem_access_mode)
             /\ UNCHANGED <<op, keep, err, out, mem_access_mode>>
        ELSE AllocReturns("DE_NOMEM", largest)
  /\ UNCHANGED <<mcbs, uppermem_root, uppermem_link, cu_psp, snap>>

\* stopIt: split what is not needed off the found block - from the front for
\* last fit, from the back for the others - and give the rest to the caller.
SearchTake ==
  /\ pc = "take"
  /\ IF mode = LARGEST \/ size = m_size[found]
     THEN /\ Give(found)
          /\ AllocReturns("SUCCESS", found)
     ELSE IF mode % 64 = 2
     THEN /\ Split(found, m_size[found] - size - 1, FREE_PSP, cu_psp)
          /\ AllocReturns("SUCCESS", found + m_size[found] - size)
     ELSE /\ Split(found, size, cu_psp, FREE_PSP)
          /\ AllocReturns("SUCCESS", found)
  /\ UNCHANGED <<uppermem_root, uppermem_link, cu_psp, snap>>

\* INT 21h/48h.
Alloc(n) ==
  /\ CallBegins
  /\ searchAgain(n, mem_access_mode, mem_access_mode)
  /\ op' = "alloc"
  /\ UNCHANGED <<mcbs, sysvars, keep, err, out>>

\* The loader's last resort, DosMemAlloc(0, LARGEST, ...) in ExecMemAlloc.
AllocLargest ==
  /\ CallBegins
  /\ searchAgain(0, LARGEST, mem_access_mode)
  /\ op' = "exec"
  /\ UNCHANGED <<mcbs, sysvars, keep, err, out>>

-----------------------------------------------------------------------------
(* DosMemFree and DosMemChange *)

\* INT 21h/49h: only the type byte is checked, so that freeing a header that
\* was unlinked meanwhile is the no-op that freeing twice should be.
Free(s) ==
  /\ CallBegins
  /\ IF ~ mcbFreeable(s)
     THEN /\ DosMemCheck
          /\ op' = "failed" /\ err' = "DE_INVLDMCB"
          /\ UNCHANGED <<m_psp, mode, size, keep, out>>
     ELSE /\ m_psp' = [m_psp EXCEPT ![s] = FREE_PSP]
          /\ Return("SUCCESS", 0)
  /\ UNCHANGED <<m_type, m_size, heads, sysvars>>

\* INT 21h/4Ah: first DosMemCheck, then DosMemChange(s + 1, n); s waits in keep.
Change(s, n) ==
  /\ CallBegins
  /\ DosMemCheck
  /\ op' = "change" /\ size' = n /\ keep' = s
  /\ UNCHANGED <<mcbs, sysvars, mode, err, out>>

\* The entry of DosUmbLink(n): nothing to do without upper memory or when the
\* state is the one asked for.
DosUmbLinkReturnsAtOnce(n) == ~ HasUmb \/ n > 1 \/ uppermem_link = n

\* FreeProcessMem(cu_psp): upper memory is linked in, and keep holds the state
\* to restore after its loop.
FreeProcessMem ==
  /\ WalkFrom(IF DosUmbLinkReturnsAtOnce(1) THEN "free" ELSE "link", FirstMcb)
  /\ mode' = 1 /\ keep' = uppermem_link
  /\ UNCHANGED <<op, size, err, out>>

\* A turn of DosMemCheck's loop.  At the end of the chain the call goes on.
CheckStep ==
  /\ pc = "check"
  /\ IF m_type[p] = "M"
     THEN p' = nxtMCB(p) /\ UNCHANGED <<pc, op, mode, size, found, biggest, keep, err, out>>
     ELSE IF m_type[p] # "Z"
     THEN pc' = "panic" /\ UNCHANGED <<op, mode, size, p, found, biggest, keep, err, out>>
     ELSE IF op = "failed" THEN Return(err, keep)
     ELSE IF op = "exit" THEN FreeProcessMem
     ELSE IF ~ mcbValid(keep)
     THEN /\ p' = FirstMcb /\ op' = "failed" /\ err' = "DE_MCBDESTRY" /\ keep' = 0
          /\ UNCHANGED <<pc, mode, size, found, biggest, out>>
     ELSE /\ p' = keep
          /\ pc' = IF size > m_size[keep] THEN "grow" ELSE "shrink"
          /\ UNCHANGED <<op, mode, size, found, biggest, keep, err, out>>
  /\ UNCHANGED <<mcbs, sysvars, snap>>

\* DosMemChange fails: the caller checks the chain once more and reports.
ChangeFails(rc, v) ==
  /\ DosMemCheck
  /\ op' = "failed" /\ err' = rc /\ keep' = v
  /\ UNCHANGED <<mode, size, out>>

\* Growing: take in every free block that follows; too small even so, the
\* block keeps what it took.
GrowJoin ==
  /\ pc = "grow" /\ joinable(p)
  /\ IF mcbValid(nxtMCB(p))
     THEN joinMCBs(p) /\ UNCHANGED <<locals, out>>
     ELSE ChangeFails("DE_MCBDESTRY", 0) /\ UNCHANGED <<mcbs>>
  /\ UNCHANGED <<sysvars, snap>>

GrowEnd ==
  /\ pc = "grow" /\ ~ joinable(p)
  /\ IF size > m_size[p]
     THEN ChangeFails("DE_NOMEM", m_size[p])
     ELSE pc' = "shrink" /\ UNCHANGED <<op, mode, size, p, found, biggest, keep, err, out>>
  /\ UNCHANGED <<mcbs, sysvars, snap>>

\* Shrinking: what is cut off becomes a free block of its own, which then
\* takes in the free blocks after it.  Last, the block is the caller's.
Shrink ==
  /\ pc = "shrink"
  /\ IF size < m_size[p]
     THEN /\ Split(p, size, m_psp[p], FREE_PSP)
          /\ pc' = "tail" /\ p' = p + size + 1
          /\ UNCHANGED <<op, mode, size, found, biggest, keep, err, out>>
     ELSE /\ Give(p)
          /\ Return("SUCCESS", 0)
  /\ UNCHANGED <<sysvars, snap>>

TailJoin ==
  /\ pc = "tail" /\ joinable(p)
  /\ IF mcbValid(nxtMCB(p))
     THEN joinMCBs(p) /\ UNCHANGED <<locals, out>>
     ELSE ChangeFails("DE_MCBDESTRY", 0) /\ UNCHANGED <<mcbs>>
  /\ UNCHANGED <<sysvars, snap>>

TailEnd ==
  /\ pc = "tail" /\ ~ joinable(p)
  /\ Give(keep)
  /\ Return("SUCCESS", 0)
  /\ UNCHANGED <<sysvars, snap>>

-----------------------------------------------------------------------------
(* DosUmbLink and FreeProcessMem *)

\* DosUmbLink returns to INT 21h/5803h, or to FreeProcessMem, which calls it
\* before and after its own loop (keep holds the state to restore).
LinkReturns ==
  CASE op = "umb" -> Return("SUCCESS", 0)
    [] op = "exit" -> /\ WalkFrom("free", FirstMcb)
                      /\ UNCHANGED <<op, mode, size, keep, err, out>>
    [] op = "relink" -> Return("SUCCESS", 0)

\* One turn of the walk to the last low block: found trails p.
LinkStep ==
  /\ pc = "link" /\ p # uppermem_root /\ m_type[p] # "Z"
  /\ IF mcbValid(p)
     THEN p' = nxtMCB(p) /\ found' = p /\ UNCHANGED <<pc, op, mode, size, biggest, keep, err, out>>
     ELSE LinkReturns
  /\ UNCHANGED <<mcbs, sysvars, snap>>

\* mode holds n.  The block before upper memory ends the chain, or not.
LinkEnd ==
  /\ pc = "link" /\ (p = uppermem_root \/ m_type[p] = "Z")
  /\ IF mode = 0
     THEN /\ m_type' = IF m_type[found] = "M" /\ p = uppermem_root
                       THEN [m_type EXCEPT ![found] = "Z"] ELSE m_type
          /\ uppermem_link' = 0
     ELSE IF m_type[p] = "Z"
     THEN m_type' = [m_type EXCEPT ![p] = "M"] /\ uppermem_link' = 1
     ELSE UNCHANGED <<m_type, uppermem_link>>
  /\ LinkReturns
  /\ UNCHANGED <<m_psp, m_size, heads, uppermem_root, mem_access_mode, cu_psp, snap>>

\* INT 21h/5803h.
UmbLink(n) ==
  /\ HasUmb
  /\ CallBegins
  /\ IF DosUmbLinkReturnsAtOnce(n)
     THEN Return("SUCCESS", 0)
     ELSE /\ WalkFrom("link", FirstMcb) /\ op' = "umb" /\ mode' = n
          /\ UNCHANGED <<size, keep, err, out>>
  /\ UNCHANGED <<mcbs, sysvars>>

\* INT 21h/4Ch: first DosMemCheck, then FreeProcessMem.
Terminate ==
  /\ CallBegins
  /\ DosMemCheck
  /\ op' = "exit"
  /\ UNCHANGED <<mcbs, sysvars, mode, size, keep, err, out>>

\* One turn of FreeProcessMem's loop, and the relinking after the last.
FreeStep ==
  /\ pc = "free"
  /\ IF ~ mcbValid(p)
     THEN Return("DE_MCBDESTRY", 0) /\ UNCHANGED m_psp
     ELSE /\ m_psp' = IF m_psp[p] = cu_psp THEN [m_psp EXCEPT ![p] = FREE_PSP] ELSE m_psp
          /\ IF m_type[p] # "Z"
             THEN p' = nxtMCB(p) /\ UNCHANGED <<pc, op, mode, size, found, biggest, keep, err, out>>
             ELSE IF DosUmbLinkReturnsAtOnce(keep)
             THEN Return("SUCCESS", 0)
             ELSE /\ WalkFrom("link", FirstMcb) /\ op' = "relink" /\ mode' = keep
                  /\ UNCHANGED <<size, keep, err, out>>
  /\ UNCHANGED <<m_type, m_size, heads, sysvars, snap>>

-----------------------------------------------------------------------------
(* The rest of the system *)

\* INT 21h/5801h and 50h.
SetStrategy(m) ==
  /\ pc = "idle"
  /\ mem_access_mode' = m
  /\ UNCHANGED <<mcbs, uppermem_root, uppermem_link, cu_psp, locals, out, snap>>

SetPsp(ps) ==
  /\ pc = "idle"
  /\ cu_psp' = ps
  /\ UNCHANGED <<mcbs, uppermem_root, uppermem_link, mem_access_mode, locals, out, snap>>

\* A program fills a block it owns with data, unlinked headers in it included.
ProgramWrites(b) ==
  /\ pc = "idle"
  /\ b \in heads /\ m_psp[b] = cu_psp
  /\ m_type' = [s \in Para |-> IF b < s /\ s < nxtMCB(b) THEN "-" ELSE m_type[s]]
  /\ m_size' = [s \in Para |-> IF b < s /\ s < nxtMCB(b) THEN 0 ELSE m_size[s]]
  /\ m_psp' = [s \in Para |-> IF b < s /\ s < nxtMCB(b) THEN FREE_PSP ELSE m_psp[s]]
  /\ UNCHANGED <<heads, sysvars, locals, out, snap>>

\* The program reads the answer and goes on.
Read ==
  /\ pc = "done"
  /\ pc' = "idle" /\ out' = Idle
  /\ snap' = [blocks |-> <<>>, link |-> 0, mode |-> 0]
  /\ UNCHANGED <<mcbs, sysvars, op, mode, size, p, found, biggest, keep, err>>

-----------------------------------------------------------------------------
\* The kernel's own steps.
Kernel ==
  \/ SearchJoin \/ SearchVisit \/ SearchDecide \/ SearchTake
  \/ CheckStep \/ GrowJoin \/ GrowEnd \/ Shrink \/ TailJoin \/ TailEnd
  \/ LinkStep \/ LinkEnd \/ FreeStep

\* Programs free any segment - their block, one they have freed, one that never
\* was a header - and resize any at which a header is or was, but they leave the
\* system's blocks alone.
Segments == {s \in Para : m_psp[s] # SYS}

Next ==
  \/ Kernel
  \/ \E n \in Sizes : Alloc(n)
  \/ AllocLargest
  \/ \E s \in Segments : Free(s)
  \/ \E s \in Segments, n \in Sizes : mcbFreeable(s) /\ Change(s, n)
  \/ \E n \in 0..2 : UmbLink(n)
  \/ Terminate
  \/ \E m \in Modes : SetStrategy(m)
  \/ \E ps \in Psps : SetPsp(ps)
  \/ \E s \in Para : ProgramWrites(s)
  \/ Read

\* After configDone: the system's block, free low memory that ends the chain,
\* and beyond it, not linked, the bridge and free upper memory.
LowFree == FirstMcb + SysParas + 1
HighFree == uppermem_root + BridgeParas + 1

Init ==
  /\ uppermem_root \in Roots
  /\ uppermem_link = 0 /\ mem_access_mode = 0 /\ cu_psp \in Psps
  /\ heads = {FirstMcb, LowFree} \cup IF HasUmb THEN {uppermem_root, HighFree} ELSE {}
  /\ m_type = [h \in Para |-> IF h \notin heads THEN "-"
                              ELSE IF h \in {FirstMcb, uppermem_root} THEN "M" ELSE "Z"]
  /\ m_psp = [h \in Para |-> IF h \in {FirstMcb, uppermem_root} THEN SYS ELSE FREE_PSP]
  /\ m_size = [h \in Para |->
                 CASE h = FirstMcb -> SysParas
                   [] h = LowFree -> (IF HasUmb THEN uppermem_root ELSE Top) - LowFree - 1
                   [] HasUmb /\ h = uppermem_root -> BridgeParas
                   [] HasUmb /\ h = HighFree -> Top - HighFree - 1
                   [] OTHER -> 0]
  /\ pc = "idle" /\ op = "none" /\ mode = 0 /\ size = 0
  /\ p = NULL /\ found = NULL /\ biggest = NULL /\ keep = 0 /\ err = "none"
  /\ out = Idle
  /\ snap = [blocks |-> <<>>, link |-> 0, mode |-> 0]

Spec == Init /\ [][Next]_vars

\* The kernel runs to the end of a call: nothing preempts it.
FairSpec == Spec /\ WF_vars(Kernel)

-----------------------------------------------------------------------------
(* Properties *)

MemTypeOK ==
  /\ m_type \in [Para -> {"M", "Z", "-"}]
  /\ m_psp \in [Para -> Nat]
  /\ m_size \in [Para -> 0..FFFF]
  /\ heads \subseteq Para

LocalsTypeOK ==
  /\ uppermem_root \in Roots /\ uppermem_link \in {0, 1}
  /\ mem_access_mode \in 0..130 /\ cu_psp \in Psps
  /\ pc \in {"idle", "search", "decide", "take", "check", "grow", "shrink", "tail",
             "link", "free", "done", "panic"}
  /\ op \in {"none", "alloc", "exec", "largest", "lowlargest", "change", "failed",
             "umb", "exit", "relink"}
  /\ mode \in -1..130 /\ size \in 0..FFFF /\ keep \in 0..FFFF
  /\ p \in Para \cup {NULL} /\ found \in Para \cup {NULL} /\ biggest \in Para \cup {NULL}
  /\ err \in {"none", "DE_NOMEM", "DE_INVLDMCB", "DE_MCBDESTRY"}
  /\ out.rc \in {"IDLE", "SUCCESS", "DE_NOMEM", "DE_INVLDMCB", "DE_MCBDESTRY"}
  /\ out.val \in 0..FFFF

\* Types of all variables but the snapshot.
TypeOK == MemTypeOK /\ LocalsTypeOK

\* The chained blocks tile memory: each one ends where the next header is, the
\* last one at the end of memory, and they do not overlap.
Tiles ==
  /\ FirstMcb \in heads
  /\ \A h \in heads : /\ m_size[h] < Top
                      /\ nxtMCB(h) \in heads \cup {Top}
                      /\ \A g \in heads : g > h => g >= nxtMCB(h)

\* The chain is terminated where it should be and nowhere else: at the end of
\* memory and, while upper memory is not linked, right before it.
Terminated ==
  \A h \in heads :
    m_type[h] = IF nxtMCB(h) = Top \/ (uppermem_link = 0 /\ nxtMCB(h) = uppermem_root)
                  THEN "Z" ELSE "M"

\* The system's blocks stay where they are.
SystemBlocks ==
  /\ FirstMcb \in heads /\ m_psp[FirstMcb] = SYS
  /\ HasUmb => uppermem_root \in heads /\ m_psp[uppermem_root] = SYS

\* A header that is not in the chain is free and cannot be taken for a block:
\* what makes freeing twice and resizing through a stale segment harmless.
StaleHeaders ==
  \A s \in Para \ heads :
    m_psp[s] = FREE_PSP /\ (mcbFreeable(s) => m_size[s] = FAKE)

\* The MCB chain is intact before, during and after every call, joins half
\* done and upper memory half linked included.
ChainIntact == Tiles /\ Terminated /\ SystemBlocks /\ StaleHeaders

\* DosMemCheck never finds the chain broken ("MCB chain corrupted").
NeverPanics == pc # "panic"

\* Every call returns: no search, join, link or free loop runs for ever.
CallsReturn == (pc # "idle") ~> (pc = "done")

-----------------------------------------------------------------------------
(* The inductive invariant: ChainIntact, and what each loop relies on *)

\* A candidate of the search: a chained free block behind the cursor.
Candidate(h, below) == h # NULL => h \in heads /\ mcbFree(h) /\ (pc = "search" => h < below)

SearchInv ==
  pc \in {"search", "decide", "take"} =>
    /\ op \in {"alloc", "exec", "largest", "lowlargest"}
    /\ op = "lowlargest" => mem_access_mode <= 2
    /\ op \in {"largest", "lowlargest"} => err # "none"
    /\ p \in heads
    /\ Candidate(found, p) /\ Candidate(biggest, p)
    /\ found # NULL => size <= m_size[found]
    /\ pc = "take" => found # NULL

CheckInv ==
  pc = "check" =>
    /\ p \in heads
    /\ op \in {"failed", "change", "exit"}
    /\ op = "failed" => err # "none"
    /\ op = "change" => keep \in Para /\ m_psp[keep] # SYS

ChangeInv ==
  /\ pc \in {"grow", "shrink"} => keep = p /\ p \in heads /\ m_psp[p] # SYS
  /\ pc = "shrink" => size <= m_size[p]
  /\ pc = "tail" => /\ p \in heads /\ mcbFree(p)
                    /\ keep \in heads /\ keep < p /\ m_psp[keep] # SYS

LinkInv ==
  pc = "link" =>
    /\ HasUmb /\ op \in {"umb", "exit", "relink"}
    /\ mode \in {0, 1} /\ mode # uppermem_link
    /\ p \in heads /\ p <= uppermem_root /\ (mode = 1 => p < uppermem_root)
    /\ found = NULL => p = FirstMcb
    /\ found # NULL => found \in heads /\ nxtMCB(found) = p
    /\ op = "exit" => keep \in {0, 1}

FreeInv == pc = "free" => p \in heads /\ keep \in {0, 1}

LoopInv == SearchInv /\ CheckInv /\ ChangeInv /\ LinkInv /\ FreeInv

IInv == TypeOK /\ ChainIntact /\ NeverPanics /\ LoopInv
=============================================================================
