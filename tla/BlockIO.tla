------------------------------ MODULE BlockIO -------------------------------
(***************************************************************************)
(* The disk buffer cache of kernel/blockio.c and the callers that change   *)
(* it: the file system (rwblock, dir_write, link_fat), media_check, the    *)
(* absolute writes of INT 26h and INT 21h/7305h, INT 21h/0Dh and the HMA   *)
(* allocator.                                                              *)
(*                                                                         *)
(* A step is what happens between two disk transfers: each transfer of one *)
(* sector is a step of its own, because a device error asks the user, who  *)
(* may abort the program, and then the call is abandoned right there.      *)
(* Retrying repeats the transfer and is not a step.                        *)
(*                                                                         *)
(* A block is <<unit, number>>.  Of every unit the numbers 0..FatSize-1    *)
(* are the FAT, the next FatSize its second copy, the rest data and        *)
(* directories.  The content of a sector is one of Vals.  The flags DATA   *)
(* and DIR are set but never tested and are left out.                      *)
(*                                                                         *)
(* `latest' and `told' are auxiliary: what each block should hold, and the *)
(* blocks of which a device error has been reported to the user.           *)
(***************************************************************************)
EXTENDS Integers, FiniteSets, FiniteSetsExt, Functions

CONSTANTS Buf,            \* the buffers
          HmaBufs,        \* those of them in HMA that programs may still be given
          Units, FatSize, DataSize, Vals,
          ReadOutcomes, WriteOutcomes,   \* how a transfer may end
          MaxTold,        \* bound: blocks with a reported device error
          AbsCounts,      \* block counts of INT 26h writes
          ExtWrites       \* whether INT 21h/7305h writes happen

ASSUME BufAssumption ==
  /\ IsFiniteSet(Buf) /\ <<>> \notin Buf /\ HmaBufs \subseteq Buf /\ Cardinality(Buf \ HmaBufs) >= 2
  /\ FatSize \in Nat \ {0} /\ DataSize \in Nat /\ Vals # {} /\ MaxTold \in Nat
  /\ ReadOutcomes \subseteq {"ok", "ignore", "fail", "abort"}
  /\ WriteOutcomes \subseteq {"ok", "ignore", "fail", "abort"}
  /\ AbsCounts \subseteq 1..DataSize /\ ExtWrites \in BOOLEAN

NoBuf == <<>>
Buffers == Cardinality(Buf)
Blk == Units \X (0..2*FatSize+DataSize-1)
FatBlk == Units \X (0..FatSize-1)
DataBlk == Units \X (2*FatSize..2*FatSize+DataSize-1)
Cached == FatBlk \cup DataBlk            \* the blocks getblk is asked for
Mirror(c) == <<c[1], c[2] + FatSize>>
NoBlk == <<"none", 0>>
Run(c, n) == {<<c[1], c[2] + i>> : i \in 0..n-1}

VARIABLES
  firstbuf, nbuffers, b_next, b_prev,    \* the ring, most recently used first
  b_flag, b_blk, b_data,                 \* flags, unit and block number, content
  disk,
  pc, op, blk,                           \* the call in progress and its block
  cnt,                                   \* its block count, or buffers left to visit
  bp, held,                              \* the buffer at hand; one link_fat keeps
  copies, ok,                            \* locals of flush1
  latest, told

ring == <<firstbuf, nbuffers, b_next, b_prev>>
call == <<pc, op, blk, cnt, bp, held, copies, ok>>
vars == <<ring, b_flag, b_blk, b_data, disk, call, latest, told>>

-----------------------------------------------------------------------------
(* The ring *)

\* The buffers in the order of b_next.
Chain[i \in 0..Buffers-1] == IF i = 0 THEN firstbuf ELSE b_next[Chain[i-1]]
Linked == {Chain[i] : i \in 0..nbuffers-1}

valid(b, c) == "VALID" \in b_flag[b] /\ b_blk[b] = c
dirty(b) == {"VALID", "DIRTY"} \subseteq b_flag[b]

\* bp is taken out and put in front of first.  Mutant: the links of the
\* neighbours it leaves are not joined.
move_buffer_NoUnlink(b, first) ==
  /\ b_prev' = [b_prev EXCEPT ![b] = b_prev[first], ![first] = b]
  /\ b_next' = [b_next EXCEPT ![b] = first, ![b_prev[first]] = b]

move_buffer(b, first) ==
  LET p1 == [b_prev EXCEPT ![b_next[b]] = b_prev[b]]
      n1 == [b_next EXCEPT ![b_prev[b]] = b_next[b]]
  IN /\ b_prev' = [p1 EXCEPT ![b] = p1[first], ![first] = b]
     /\ b_next' = [n1 EXCEPT ![b] = first, ![p1[first]] = b]

ToFront(b) ==
  IF b = firstbuf THEN UNCHANGED <<firstbuf, b_next, b_prev>>
  ELSE firstbuf' = b /\ move_buffer(b, firstbuf)

\* Positions in the ring of the buffers with, or without, a flag.
With(f) == {i \in 0..nbuffers-1 : f \in b_flag[Chain[i]]}
Without(f) == (0..nbuffers-1) \ With(f)

\* The buffer to reuse: the last one to be released soon, else - if the most
\* recent one is a FAT buffer and FAT buffers are few - the last that is not
\* FAT, else the last one.  Mutant: the one most recently used.
victim_First == firstbuf
victim ==
  CASE With("UNCACHE") # {} -> Chain[Max(With("UNCACHE"))]
    [] /\ With("UNCACHE") = {} /\ "FAT" \in b_flag[firstbuf]
       /\ Cardinality(With("FAT")) < 3 /\ Without("FAT") # {} -> Chain[Max(Without("FAT"))]
    [] OTHER -> b_prev[firstbuf]

-----------------------------------------------------------------------------
(* Ends of calls, and transfers *)

End ==
  /\ pc' = "idle" /\ op' = "none" /\ blk' = NoBlk /\ cnt' = 0
  /\ bp' = NoBuf /\ held' = NoBuf /\ copies' = 0 /\ ok' = TRUE

\* The bound on device errors.
MayTell == Cardinality(told) < MaxTold

Set(b, f) == [b_flag EXCEPT ![b] = f]

\* searchblock, and the beginning of getblk: a hit is handed out, a miss sends
\* the buffer to be reused through flush1 first.  Mutant: the search starts
\* behind the first buffer.
Searched(c, hits) ==
  LET b == IF hits # {} THEN Chain[Min({i \in 0..nbuffers-1 : Chain[i] \in hits})] ELSE victim
  IN /\ ToFront(b)
     /\ bp' = b /\ blk' = c
     /\ b_flag' = Set(b, IF hits # {} THEN b_flag[b] \ {"UNCACHE"} ELSE b_flag[b] \cup {"UNCACHE"})
     /\ pc' = IF hits # {} THEN "have" ELSE "flush1"
     /\ copies' = 0 /\ ok' = TRUE
     /\ UNCHANGED nbuffers

searchblock_SkipsFirst(c) == Searched(c, {b \in Linked \ {firstbuf} : valid(b, c)})
searchblock(c) == Searched(c, {b \in Linked : valid(b, c)})

\* dskxfer of one sector to disk, as flush1 and absolute writes see it: the
\* outcomes "ignore" and "ok" look the same to the caller.  What an error
\* leaves in the sector is anybody's guess.
Transfers(c, v, o) ==
  IF o = "ok" THEN disk' = [disk EXCEPT ![c] = v]
  ELSE IF o = "ignore" THEN disk' = disk
  ELSE disk' \in {disk, [disk EXCEPT ![c] = v]}

\* flush1 writes every copy of a FAT sector.  Mutant: one turn too many.
Copies_Extra(b) == IF "FAT" \in b_flag[b] THEN 3 ELSE 2
Copies(b) == IF "FAT" \in b_flag[b] THEN 2 ELSE 1

\* One turn of flush1's loop.  Abort leaves the buffer as it is.
FlushCopy(o) ==
  /\ pc = "flush1" /\ dirty(bp) /\ copies < Copies(bp) /\ (o = "ok" \/ MayTell)
  /\ LET c == b_blk[bp]
     IN /\ Transfers(IF copies = 0 THEN c ELSE Mirror(c), b_data[bp], o)
        /\ told' = IF o \in {"ignore", "fail"} THEN told \cup {c} ELSE told
  /\ IF o = "abort" THEN End
     ELSE /\ copies' = copies + 1 /\ ok' = (ok /\ o # "fail")
          /\ UNCHANGED <<pc, op, blk, cnt, bp, held>>
  /\ UNCHANGED <<ring, b_flag, b_blk, b_data, latest>>

\* The flags flush1 leaves: clean, and of no use if a copy was not written.
flushed(b) == IF ok THEN b_flag[b] \ {"DIRTY"} ELSE b_flag[b] \ {"DIRTY", "VALID"}

FlushDone == ~ (dirty(bp) /\ copies < Copies(bp))

-----------------------------------------------------------------------------
(* getblk *)

\* getblk goes on after flush1.
GetblkFlushed ==
  /\ pc = "flush1" /\ op \in {"read", "write", "over", "fat", "link", "dir"} /\ FlushDone
  /\ b_flag' = Set(bp, flushed(bp))
  /\ IF ok THEN pc' = "load" /\ UNCHANGED <<op, blk, cnt, bp, held, copies, ok>> ELSE End
  /\ UNCHANGED <<ring, b_blk, b_data, disk, latest, told>>

\* Reading the block.  After an error the buffer still carries the old block's
\* number and flags, whatever the transfer left in it (in HMA: the content of
\* the deblocking buffer).
GetblkRead(o) ==
  /\ pc = "load" /\ op # "over" /\ (o = "ok" \/ MayTell)
  /\ IF o = "ok" THEN b_data' = [b_data EXCEPT ![bp] = disk[blk]]
     ELSE \E v \in Vals : b_data' = [b_data EXCEPT ![bp] = v]
  /\ told' = IF o = "ignore" THEN told \cup {blk} ELSE told
  /\ IF o \in {"ok", "ignore"}
     THEN /\ b_flag' = Set(bp, {"VALID"}) /\ b_blk' = [b_blk EXCEPT ![bp] = blk]
          /\ pc' = "have" /\ UNCHANGED <<op, blk, cnt, bp, held, copies, ok>>
     ELSE End /\ UNCHANGED <<b_flag, b_blk>>
  /\ UNCHANGED <<ring, disk, latest>>

\* getblockOver, and clear_dir, which fills all of the block; but the first, the
\* sectors of a new directory cluster are to be released soon.
Overwrite(v, more) ==
  /\ op = "over" /\ pc \in {"load", "have"}
  /\ b_data' = [b_data EXCEPT ![bp] = v]
  /\ b_blk' = [b_blk EXCEPT ![bp] = blk]
  /\ b_flag' = Set(bp, {"VALID", "DIRTY"} \cup more
                       \cup (IF pc = "have" THEN b_flag[bp] ELSE {}))
  /\ latest' = [latest EXCEPT ![blk] = v]
  /\ End
  /\ UNCHANGED <<ring, disk, told>>

-----------------------------------------------------------------------------
(* What callers do with the block *)

Begin(o, c) ==
  /\ pc = "idle"
  /\ searchblock(c) /\ op' = o
  /\ UNCHANGED <<b_blk, b_data, disk, cnt, held, latest, told>>

\* rwblock reading, dir_read: the data is copied out.
UseRead(more) ==
  /\ pc = "have" /\ op = "read"
  /\ b_flag' = Set(bp, b_flag[bp] \cup more)
  /\ End
  /\ UNCHANGED <<ring, b_blk, b_data, disk, latest, told>>

\* rwblock writing.
UseWrite(v, more) ==
  /\ pc = "have" /\ op = "write"
  /\ b_data' = [b_data EXCEPT ![bp] = v]
  /\ b_flag' = Set(bp, b_flag[bp] \cup {"VALID", "DIRTY"} \cup more)
  /\ latest' = [latest EXCEPT ![blk] = v]
  /\ End
  /\ UNCHANGED <<ring, b_blk, disk, told>>

\* Loops over the ring start at firstbuf.
WalkFrom(o, c, n) ==
  /\ pc' = "walk" /\ op' = o /\ blk' = c /\ cnt' = n
  /\ bp' = firstbuf /\ held' = NoBuf /\ copies' = 0 /\ ok' = TRUE

\* dir_write_update: the entry is changed and the unit's buffers are flushed.
UseDir(v) ==
  /\ pc = "have" /\ op = "dir"
  /\ b_data' = [b_data EXCEPT ![bp] = v]
  /\ b_flag' = Set(bp, (b_flag[bp] \ {"FAT"}) \cup {"VALID", "DIRTY"})
  /\ latest' = [latest EXCEPT ![blk] = v]
  /\ WalkFrom("flush_buffers", blk, 0)
  /\ UNCHANGED <<ring, b_blk, disk, told>>

\* getFATblock marks what getblk returned, so that flush1 writes both copies.
\* Mutant: it does not.
getFATblock_NoFlag ==
  /\ pc = "have" /\ op \in {"fat", "link"}
  /\ pc' = "fat"
  /\ UNCHANGED <<b_flag, op, blk, cnt, bp, held, copies, ok, ring, b_blk, b_data, disk, latest, told>>

getFATblock ==
  /\ pc = "have" /\ op \in {"fat", "link"}
  /\ pc' = "fat" /\ b_flag' = Set(bp, b_flag[bp] \cup {"FAT", "VALID"})
  /\ UNCHANGED <<op, blk, cnt, bp, held, copies, ok, ring, b_blk, b_data, disk, latest, told>>

\* An entry of a 12-bit FAT may straddle two sectors: link_fat keeps the buffer
\* of the first while it gets the second.
Straddle ==
  /\ pc = "fat" /\ held = NoBuf /\ blk[2] + 1 < FatSize
  /\ searchblock(<<blk[1], blk[2] + 1>>) /\ held' = bp
  /\ UNCHANGED <<op, cnt, b_blk, b_data, disk, latest, told>>

\* link_fat reads the entry, or changes it in the sector or the two sectors.
Mine == {bp} \cup ({held} \ {NoBuf})

UseFat(v) ==
  /\ pc = "fat"
  /\ IF op = "fat" THEN UNCHANGED <<b_flag, b_data, latest>>
     ELSE /\ b_flag' = [b \in Buf |-> b_flag[b] \cup IF b \in Mine THEN {"VALID", "DIRTY"} ELSE {}]
          /\ b_data' = [b \in Buf |-> IF b \in Mine THEN v ELSE b_data[b]]
          /\ latest' = [c \in Cached |-> IF c \in {b_blk[b] : b \in Mine} THEN v ELSE latest[c]]
  /\ End
  /\ UNCHANGED <<ring, b_blk, disk, told>>

-----------------------------------------------------------------------------
(* Loops over the ring *)

\* Which buffers flush_buffers, flush, DeleteBlockInBufferCache(XFR_READ) and
\* AllocateHMASpace flush.  Mutant: a direct read forgets to flush the blocks
\* after the first.
Target_OneBlock(b) ==
  CASE op \in {"flush_buffers", "rebuild"} -> b_blk[b][1] = blk[1]
    [] op = "flush" -> TRUE
    [] op = "dread" -> valid(b, blk)
    [] op = "hma" -> b \in blk[2]

Target(b) ==
  CASE op \in {"flush_buffers", "rebuild"} -> b_blk[b][1] = blk[1]
    [] op = "flush" -> TRUE
    [] op = "dread" -> \E c \in Run(blk, cnt) : valid(b, c)
    [] op = "hma" -> b \in blk[2]

WalkVisit ==
  /\ pc = "walk" /\ Target(bp)
  /\ pc' = "flush1" /\ copies' = 0 /\ ok' = TRUE
  /\ UNCHANGED <<op, blk, cnt, bp, held, ring, b_flag, b_blk, b_data, disk, latest, told>>

\* All buffers of a unit are forgotten, dirty or not.
setinvld(f, u) == [b \in Buf |-> IF b \in Linked /\ b_blk[b][1] = u THEN {} ELSE f[b]]

\* The loop goes on to the next buffer or ends; f holds the flags so far.
Advance(f) ==
  IF IF op = "hma" THEN cnt > 1 ELSE b_next[bp] # firstbuf
  THEN /\ pc' = "walk" /\ bp' = b_next[bp] /\ b_flag' = f
       /\ cnt' = IF op = "hma" THEN cnt - 1 ELSE cnt
       /\ copies' = 0 /\ ok' = TRUE
       /\ UNCHANGED <<op, blk, held>>
  ELSE IF op = "dread"
  THEN /\ pc' = "dread" /\ b_flag' = f /\ bp' = NoBuf /\ copies' = 0 /\ ok' = TRUE
       /\ UNCHANGED <<op, blk, cnt, held>>
  ELSE /\ b_flag' = IF op = "rebuild" THEN setinvld(f, blk[1]) ELSE f
       /\ End

WalkSkip ==
  /\ pc = "walk" /\ ~ Target(bp)
  /\ Advance(b_flag)
  /\ UNCHANGED <<ring, b_blk, b_data, disk, latest, told>>

\* INT 21h/0Dh invalidates what it flushed; HMA that is sold leaves the ring.
WalkFlushed ==
  /\ pc = "flush1" /\ op \in {"flush_buffers", "rebuild", "flush", "dread", "hma"} /\ FlushDone
  /\ Advance(Set(bp, IF op = "flush" THEN flushed(bp) \ {"VALID"} ELSE flushed(bp)))
  /\ IF op # "hma" THEN UNCHANGED ring
     ELSE /\ b_next' = [b_next EXCEPT ![b_prev[bp]] = b_next[bp]]
          /\ b_prev' = [b_prev EXCEPT ![b_next[bp]] = b_prev[bp]]
          /\ firstbuf' = IF bp = firstbuf THEN b_next[bp] ELSE firstbuf
          /\ nbuffers' = nbuffers - 1
  /\ UNCHANGED <<b_blk, b_data, disk, latest, told>>

Walks(o, c, n) ==
  /\ pc = "idle" /\ WalkFrom(o, c, n)
  /\ UNCHANGED <<ring, b_flag, b_blk, b_data, disk, latest, told>>

\* dos_close and commit; IOCTL and INT 21h/7304h before they rebuild a DPB;
\* INT 21h/0Dh; the HMA allocator of INT 2Fh/4A02h.
FlushUnit(u) == Walks("flush_buffers", <<u, 0>>, 0)
Rebuild(u) == Walks("rebuild", <<u, 0>>, 0)
Flush == Walks("flush", NoBlk, 0)
AllocateHMASpace(S) == Walks("hma", <<"hma", S>>, nbuffers)

-----------------------------------------------------------------------------
(* Transfers past the cache *)

\* rwblock moves whole sectors directly: reading, it flushes the buffered ones
\* first; writing, it forgets them.
DirectRead(c, n) == Walks("dread", c, n)

DirectReadDone ==
  /\ pc = "dread"
  /\ End
  /\ UNCHANGED <<ring, b_flag, b_blk, b_data, disk, latest, told>>

Forget(S) == [b \in Buf |-> IF b \in Linked /\ (\E c \in S : valid(b, c)) THEN {} ELSE b_flag[b]]

PastCache(o, c, n, S) ==
  /\ pc = "idle" /\ pc' = "transfer" /\ op' = o /\ blk' = c /\ cnt' = n
  /\ b_flag' = Forget(S)
  /\ UNCHANGED <<bp, held, copies, ok, ring, b_blk, b_data, disk, latest, told>>

\* Mutant: only the first sector is forgotten.
DirectWrite_First(c, n) == PastCache("dwrite", c, n, {c})
DirectWrite(c, n) == PastCache("dwrite", c, n, Run(c, n))

\* INT 26h forgets only the first sector, whatever the count.
Int26(c, n) == PastCache("int26", c, n, {c})

\* The transfer: an error may come after some sectors are written.  INT 26h has
\* no critical error; it forgets the whole unit when the write failed.
TransferDone(v, o) ==
  /\ pc = "transfer" /\ (op = "int26" => o \in {"ok", "fail"}) /\ (o = "ok" \/ MayTell)
  /\ \E m \in (IF o = "ok" THEN {cnt} ELSE 0..cnt) :
       disk' = [c \in Blk |-> IF c \in Run(blk, m) THEN v ELSE disk[c]]
  /\ IF o = "ok"
     THEN /\ latest' = [c \in Cached |-> IF c \in Run(blk, cnt) THEN v ELSE latest[c]]
          /\ UNCHANGED told
     ELSE told' = told \cup Run(blk, cnt) /\ UNCHANGED latest
  /\ b_flag' = IF op = "int26" /\ o = "fail" THEN setinvld(b_flag, blk[1]) ELSE b_flag
  /\ End
  /\ UNCHANGED <<ring, b_blk, b_data>>

\* INT 21h/7305h writes first and forgets the whole unit if that worked.
ExtWrite(c, v, o) ==
  /\ ExtWrites /\ pc = "idle" /\ o \in {"ok", "fail"} /\ (o = "ok" \/ MayTell)
  /\ Transfers(c, v, o)
  /\ IF o = "ok" THEN /\ b_flag' = setinvld(b_flag, c[1])
                      /\ latest' = [latest EXCEPT ![c] = v] /\ UNCHANGED told
     ELSE told' = told \cup {c} /\ UNCHANGED <<b_flag, latest>>
  /\ UNCHANGED <<ring, b_blk, b_data, call>>

-----------------------------------------------------------------------------
(* media_check *)

dirty_buffers(u) == \E b \in Linked : b_blk[b][1] = u /\ dirty(b)

\* The driver does not know whether the medium changed: buffers are forgotten
\* only if none is dirty.
MediaUnsure(u) ==
  /\ pc = "idle" /\ ~ dirty_buffers(u)
  /\ b_flag' = setinvld(b_flag, u)
  /\ UNCHANGED <<ring, b_blk, b_data, disk, call, latest, told>>

\* Another medium is in the drive.
MediaChanged(u, v) ==
  /\ pc = "idle"
  /\ b_flag' = setinvld(b_flag, u)
  /\ disk' = [c \in Blk |-> IF c[1] = u THEN v ELSE disk[c]]
  /\ latest' = [c \in Cached |-> IF c[1] = u THEN v ELSE latest[c]]
  /\ told' = {c \in told : c[1] # u}
  /\ UNCHANGED <<ring, b_blk, b_data, call>>

-----------------------------------------------------------------------------
Soon == {{}, {"UNCACHE"}}

Next ==
  \/ \E c \in DataBlk, o \in {"read", "write", "over", "dir"} : Begin(o, c)
  \/ \E c \in FatBlk, o \in {"fat", "link"} : Begin(o, c)
  \/ \E o \in WriteOutcomes : FlushCopy(o)
  \/ GetblkFlushed
  \/ \E o \in ReadOutcomes : GetblkRead(o)
  \/ \E v \in Vals, more \in Soon : Overwrite(v, more) \/ UseWrite(v, more)
  \/ \E more \in Soon : UseRead(more)
  \/ \E v \in Vals : UseDir(v) \/ UseFat(v)
  \/ getFATblock \/ Straddle
  \/ WalkVisit \/ WalkSkip \/ WalkFlushed
  \/ \E u \in Units : FlushUnit(u) \/ Rebuild(u) \/ MediaUnsure(u)
  \/ Flush
  \/ \E S \in SUBSET HmaBufs : AllocateHMASpace(S)
  \/ \E c \in DataBlk, n \in 1..DataSize :
       Run(c, n) \subseteq DataBlk /\ (DirectRead(c, n) \/ DirectWrite(c, n))
  \/ \E c \in DataBlk, n \in AbsCounts : Run(c, n) \subseteq DataBlk /\ Int26(c, n)
  \/ DirectReadDone
  \/ \E v \in Vals, o \in WriteOutcomes : TransferDone(v, o)
  \/ \E c \in DataBlk, v \in Vals, o \in WriteOutcomes : ExtWrite(c, v, o)
  \/ \E u \in Units, v \in Vals : MediaChanged(u, v)

\* config_init_buffers: a ring of empty buffers (unit and number are zero).
Init ==
  /\ nbuffers = Buffers
  /\ \E f \in Bijection(0..Buffers-1, Buf) :
       /\ firstbuf = f[0]
       /\ b_next = [b \in Buf |-> f[(Inverse(f, 0..Buffers-1, Buf)[b] + 1) % Buffers]]
       /\ b_prev = [b \in Buf |-> f[(Inverse(f, 0..Buffers-1, Buf)[b] + Buffers - 1) % Buffers]]
  /\ b_flag = [b \in Buf |-> {}]
  /\ \E u \in Units : b_blk = [b \in Buf |-> <<u, 0>>]
  /\ \E v \in Vals : /\ b_data = [b \in Buf |-> v]
                     /\ disk = [c \in Blk |-> v]
                     /\ latest = [c \in Cached |-> v]
  /\ pc = "idle" /\ op = "none" /\ blk = NoBlk /\ cnt = 0
  /\ bp = NoBuf /\ held = NoBuf /\ copies = 0 /\ ok = TRUE
  /\ told = {}

Spec == Init /\ [][Next]_vars

-----------------------------------------------------------------------------
(* Properties *)

Flags == {"VALID", "DIRTY", "FAT", "UNCACHE"}

\* Types of all variables.
TypeOK ==
  /\ firstbuf \in Buf /\ nbuffers \in 2..Buffers
  /\ b_next \in [Buf -> Buf] /\ b_prev \in [Buf -> Buf]
  /\ b_flag \in [Buf -> SUBSET Flags] /\ b_blk \in [Buf -> Blk] /\ b_data \in [Buf -> Vals]
  /\ disk \in [Blk -> Vals] /\ latest \in [Cached -> Vals] /\ told \subseteq Cached
  /\ bp \in Buf \cup {NoBuf} /\ held \in Buf \cup {NoBuf} /\ copies \in 0..2 /\ ok \in BOOLEAN

\* The ring stays one ring: from firstbuf all linked buffers are reached once,
\* and b_prev undoes b_next, whatever is moved to the front or sold.
RingIntact ==
  /\ Cardinality(Linked) = nbuffers
  /\ b_next[Chain[nbuffers-1]] = firstbuf
  /\ \A b \in Linked : b_prev[b_next[b]] = b

\* A block is never in two buffers, or one of them would go stale.
OneCopy ==
  \A a, b \in Linked :
    a # b /\ "VALID" \in b_flag[a] /\ "VALID" \in b_flag[b] => b_blk[a] # b_blk[b]

\* "blockio.c LRU logic ensures that bp != bp1": while link_fat gets the second
\* sector of an entry, the buffer of the first keeps its block, a device error
\* or a full ring notwithstanding.
HeldStays ==
  held # NoBuf => /\ held # bp /\ held \in Linked
                  /\ valid(held, <<blk[1], blk[2] - 1>>)

\* Nothing written is lost and nothing stale is handed out: unless the user was
\* told of a device error, a block is in its buffer or, unless that is dirty,
\* on the disk, as it was last written.
Coherent ==
  \A c \in Cached \ told :
    \/ pc = "transfer" /\ c \in Run(blk, cnt)
    \/ /\ \A b \in Linked : valid(b, c) => b_data[b] = latest[c]
       /\ (\A b \in Linked : valid(b, c) => ~ dirty(b)) => disk[c] = latest[c]

\* A direct read finds on the disk what was last written.
DirectReadsLatest ==
  pc = "dread" => \A c \in Run(blk, cnt) \ told : disk[c] = latest[c]

\* The copies of the FAT agree once flushed, unless an error was reported.
FatMirrored ==
  \A c \in FatBlk \ told :
    (\A b \in Linked : valid(b, c) => ~ dirty(b)) => disk[Mirror(c)] = disk[c]

\* "requested block with data": what getblk returns is the block.
ReturnsBlock ==
  pc = "have" /\ op # "over" /\ blk \notin told =>
    b_blk[bp] = blk /\ b_data[bp] = latest[blk]

\* "or, if we are low on FAT buffers, the last non FAT buffer": with fewer than
\* three FAT buffers and none to be released soon, no FAT buffer is reused.
FewFatKept ==
  [][ /\ bp' # bp /\ pc' = "flush1" /\ op' \in {"read", "write", "over", "fat", "link", "dir"}
      /\ With("UNCACHE") = {} /\ Cardinality(With("FAT")) < 3 /\ Without("FAT") # {}
      => "FAT" \notin b_flag[bp'] ]_vars
=============================================================================
