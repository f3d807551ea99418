------------------------------ MODULE MemArena ------------------------------
(***************************************************************************)
(* What the memory manager promises to programs (kernel/memmgr.c as seen   *)
(* through INT 21h AH=48h, 49h, 4Ah, 58h and process termination).         *)
(*                                                                         *)
(* Memory is the paragraphs FirstMcb .. Top-1.  The state is only the set  *)
(* of owned blocks; free memory is what lies between them.  A block at s   *)
(* of size n takes paragraph s for its header and s+1 .. s+n for its data. *)
(* Every call is one atomic step.  There is no chain, no free header and   *)
(* no joining here: MemMgr has those and is shown to implement this.       *)
(***************************************************************************)
EXTENDS Integers, FiniteSets, FiniteSetsExt

CONSTANTS FirstMcb,       \* segment of the first MCB
          SysParas,       \* paragraphs of the system's first block
          Roots,          \* where upper memory may begin (NoUmb: nowhere)
          BridgeParas,    \* size of the block that bridges the gap to it
          Top,            \* one past the last paragraph of the arena
          Psps,           \* segments of the programs that may run
          Sizes,          \* request sizes, in paragraphs
          Modes,          \* allocation strategies programs select
          FFFF            \* the 16-bit word 0xffff

VARIABLES blocks,         \* segment of an owned MCB -> [psp, size]
          uppermem_root, uppermem_link, mem_access_mode, cu_psp,
          out             \* the answer of the last call, until it is read

vars == <<blocks, uppermem_root, uppermem_link, mem_access_mode, cu_psp, out>>

NoUmb == FFFF             \* uppermem_root when there is no upper memory
SYS == 8                  \* owner of the system's own blocks
Idle == [rc |-> "IDLE", val |-> 0]
Answer(rc, v) == [rc |-> rc, val |-> v]

HasUmb == uppermem_root # NoUmb
UmbLinked == HasUmb /\ uppermem_link = 1

-----------------------------------------------------------------------------
(* Free memory *)

\* The owned block that ends the free run starting at s, or the end of the
\* searched memory.
RunEnd(s, hi) == Min({b \in DOMAIN blocks : b > s} \cup {hi})

\* The free runs between lo and hi, as <<first paragraph, usable size>>: one
\* paragraph of each is its header.
Runs(lo, hi) ==
  LET ends == {lo} \cup {b + blocks[b].size + 1 : b \in DOMAIN blocks}
      starts == {s \in ends : lo <= s /\ s < hi /\ s \notin DOMAIN blocks}
  IN {<<s, RunEnd(s, hi) - s - 1>> : s \in starts}

\* Unlinked upper memory is not searched; the strategies with an upper-memory
\* bit start there.
SearchHi == IF HasUmb /\ uppermem_link = 0 THEN uppermem_root ELSE Top
SearchLo(m) == IF UmbLinked /\ m >= 64 THEN uppermem_root ELSE FirstMcb

Largest(lo) == Max({r[2] : r \in Runs(lo, SearchHi)} \cup {0})

\* What DosMemLargest reports under strategy m: with the "high, then low" bit
\* low memory counts too.
LargestReport(m) ==
  IF m >= 128 THEN Max({Largest(SearchLo(m)), Largest(FirstMcb)})
              ELSE Largest(SearchLo(m))

\* Where strategy m puts n paragraphs when the search starts at lo: a set with
\* at most one segment.  First fit takes the lowest run that is large enough,
\* best fit the lowest among the smallest, last fit the end of the highest.
\* Only first fit hands out a run that has no usable paragraph.
Place(m, n, lo) ==
  LET fit == {r \in Runs(lo, SearchHi) : r[2] >= n}
      kind == m % 64
      chosen == CASE kind = 0 -> {r \in fit : \A q \in fit : r[1] <= q[1]}
                  [] kind = 1 -> {r \in fit : \A q \in fit :
                                    \/ r[2] < q[2]
                                    \/ r[2] = q[2] /\ r[1] <= q[1]}
                  [] kind = 2 -> {r \in fit : \A q \in fit : r[1] >= q[1]}
      usable == {r \in chosen : kind = 0 \/ r[2] > 0}
  IN {IF kind = 2 THEN r[1] + r[2] - n ELSE r[1] : r \in usable}

\* With the "high, then low" bit a failed search is repeated from the bottom.
Placement(m, n) ==
  LET first == Place(m, n, SearchLo(m))
  IN IF first = {} /\ m >= 128 /\ UmbLinked
     THEN Place(m, n, FirstMcb) ELSE first

-----------------------------------------------------------------------------
Set(s, owner, n) == [b \in DOMAIN blocks \cup {s} |->
                       IF b = s THEN [psp |-> owner, size |-> n] ELSE blocks[b]]
Without(S) == [b \in DOMAIN blocks \ S |-> blocks[b]]

Keep == UNCHANGED <<uppermem_root, uppermem_link, mem_access_mode, cu_psp>>

\* INT 21h/48h: the block goes where the strategy says, to the current
\* program; a refused request reports the largest size that could be had.
Alloc(n) ==
  /\ out = Idle
  /\ LET at == Placement(mem_access_mode, n)
     IN IF at = {}
        THEN /\ out' = Answer("DE_NOMEM", LargestReport(mem_access_mode))
             /\ UNCHANGED blocks
        ELSE \E s \in at : /\ blocks' = Set(s, cu_psp, n)
                           /\ out' = Answer("SUCCESS", s)
  /\ Keep

\* The loader's "give me the largest block" (DosMemAlloc(0, LARGEST, ...)).
AllocLargest ==
  /\ out = Idle
  /\ LET runs == {r \in Runs(FirstMcb, SearchHi) : r[2] > 0}
         best == {r \in runs : \A q \in runs :
                    r[2] > q[2] \/ (r[2] = q[2] /\ r[1] <= q[1])}
     IN IF best = {}
        THEN out' = Answer("DE_NOMEM", 0) /\ UNCHANGED blocks
        ELSE \E r \in best : /\ blocks' = Set(r[1], cu_psp, r[2])
                             /\ out' = Answer("SUCCESS", r[1])
  /\ Keep

\* INT 21h/49h.  Freeing what is not an owned block - freeing twice, or
\* through a segment whose block is long gone - changes nothing.
Free(s) ==
  /\ out = Idle
  /\ blocks' = Without({s})
  /\ IF s \in DOMAIN blocks
     THEN out' = Answer("SUCCESS", 0)
     ELSE out' \in {Answer("SUCCESS", 0), Answer("DE_INVLDMCB", 0)}
  /\ Keep

\* INT 21h/4Ah on an owned block.  A refused growth still takes all the free
\* memory that follows the block.
Change(s, n) ==
  /\ out = Idle
  /\ s \in DOMAIN blocks
  /\ LET room == RunEnd(s, Top) - s - 1
     IN IF n <= blocks[s].size \/ n <= room
        THEN blocks' = Set(s, cu_psp, n) /\ out' = Answer("SUCCESS", 0)
        ELSE /\ blocks' = Set(s, blocks[s].psp, room)
             /\ out' = Answer("DE_NOMEM", room)
  /\ Keep

\* INT 21h/4Ah through a segment that heads no owned block: refused, or it
\* turns free memory from there on into a block of the caller.
ChangeFree(s, n) ==
  /\ out = Idle
  /\ s \notin DOMAIN blocks
  /\ \/ out' = Answer("DE_MCBDESTRY", 0) /\ UNCHANGED blocks
     \/ /\ \A b \in DOMAIN blocks : b < s => b + blocks[b].size < s
        /\ LET room == RunEnd(s, Top) - s - 1
           IN IF n <= room
              THEN blocks' = Set(s, cu_psp, n) /\ out' = Answer("SUCCESS", 0)
              ELSE UNCHANGED blocks /\ out' = Answer("DE_NOMEM", room)
  /\ Keep

\* A program ends: everything it owns, in upper memory too, is free, and the
\* link state of upper memory is as it was.
Terminate ==
  /\ out = Idle
  /\ blocks' = Without({b \in DOMAIN blocks : blocks[b].psp = cu_psp})
  /\ out' = Answer("SUCCESS", 0)
  /\ Keep

\* INT 21h/5801h, 5803h and 50h.
SetStrategy(m) ==
  /\ out = Idle
  /\ mem_access_mode' = m
  /\ UNCHANGED <<blocks, uppermem_root, uppermem_link, cu_psp, out>>

UmbLink(n) ==
  /\ out = Idle /\ HasUmb
  /\ uppermem_link' = IF n > 1 THEN uppermem_link ELSE n
  /\ out' = Answer("SUCCESS", 0)
  /\ UNCHANGED <<blocks, uppermem_root, mem_access_mode, cu_psp>>

SetPsp(ps) ==
  /\ out = Idle
  /\ cu_psp' = ps
  /\ UNCHANGED <<blocks, uppermem_root, uppermem_link, mem_access_mode, out>>

\* The program reads the answer and goes on.
Read ==
  /\ out # Idle
  /\ out' = Idle
  /\ UNCHANGED <<blocks, uppermem_root, uppermem_link, mem_access_mode, cu_psp>>

Next ==
  \/ \E n \in Sizes : Alloc(n)
  \/ AllocLargest
  \/ \E s \in FirstMcb..Top-1 : Free(s)
  \/ \E s \in FirstMcb..Top-1, n \in Sizes : Change(s, n) \/ ChangeFree(s, n)
  \/ Terminate
  \/ \E m \in Modes : SetStrategy(m)
  \/ \E n \in 0..2 : UmbLink(n)
  \/ \E ps \in Psps : SetPsp(ps)
  \/ Read

\* The system's block comes first; with upper memory, the block that bridges
\* the gap to it belongs to the system as well.
Init ==
  /\ uppermem_link = 0 /\ mem_access_mode = 0
  /\ out = Idle
  /\ cu_psp \in Psps
  /\ uppermem_root \in Roots
  /\ blocks = [b \in IF HasUmb THEN {FirstMcb, uppermem_root} ELSE {FirstMcb} |->
                 [psp |-> SYS,
                  size |-> IF b = FirstMcb THEN SysParas ELSE BridgeParas]]

Spec == Init /\ [][Next]_vars
=============================================================================
