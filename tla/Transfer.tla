------------------------------ MODULE Transfer ------------------------------
(***************************************************************************)
(* Moving sectors between a disk and memory: dskxfer (blockio.c) and the   *)
(* block driver's blockio and LBA_Transfer (dsk.c).                        *)
(*                                                                         *)
(* One step per attempt at a chunk.  A chunk is as large as a DMA page, a  *)
(* track and conventional memory allow; what does not fit goes through     *)
(* DiskTransferBuffer, one sector at a time.  The BIOS may refuse any      *)
(* attempt; after N_RETRY of them dskxfer asks the user (INT 24h), unless  *)
(* an absolute read or write (INT 25h, 26h, 21h/7305h) asked for it.       *)
(* Addresses count memory in units of any size, sectors have SecSize.      *)
(***************************************************************************)
EXTENDS Integers

CONSTANTS
  Units,          \* drive letters
  Geometry,       \* of a unit: secs, chsEnd, first, size, lba, transparent
  Requests,       \* what dskxfer is asked for: who, unit, mode, buf, start, n
  SecSize,        \* bytes_sector
  MaxSecSize,     \* maxsecsize
  Page,           \* what DMA cannot cross: 64 KB
  High,           \* where segment 0xa000 begins
  Buffer,         \* the address of DiskTransferBuffer, which deblock_buf is too
  BufsHigh,       \* bufloc # LOC_CONV: the disk buffers are in HMA
  N_RETRY,
  Word,           \* 2^32
  Blocks          \* 2^8: number_of_blocks is a byte

Modes == {"read", "write", "verify"}      \* C_INPUT, C_OUTPUT, C_OUTVFY

\* What RWzero asks LBA_Transfer for: sector zero, to DiskTransferBuffer.
Zero(u, mode) == [who |-> "driver", unit |-> u, mode |-> mode,
                  buf |-> Buffer, start |-> 0, n |-> 1]

Calls == Requests \cup {Zero(u, m) : u \in Units, m \in Modes}
NoCall == [who |-> "nobody"]
Outcomes == {"ok", "ignored", "error"}

ASSUME SizeAssumption ==
  /\ SecSize \in Nat \ {0} /\ MaxSecSize \in Nat /\ SecSize <= MaxSecSize
  /\ Page \in Nat /\ MaxSecSize < Page /\ High \in Nat /\ Buffer \in Nat
  /\ Buffer + SecSize <= High
  /\ N_RETRY \in Nat \ {0} /\ Word \in Nat /\ Blocks \in Nat
  /\ (Page - 1) \div MaxSecSize < Blocks
  /\ BufsHigh \in BOOLEAN

ASSUME GeometryAssumption ==
  \A u \in Units :
     /\ Geometry[u].secs \in Nat \ {0} /\ Geometry[u].chsEnd \in Nat
     /\ Geometry[u].first \in Nat /\ Geometry[u].size \in Nat \ {0}
     /\ Geometry[u].first + Geometry[u].size <= Word
     /\ Geometry[u].lba \in BOOLEAN /\ Geometry[u].transparent \in BOOLEAN

\* A volume ends below 2^32 sectors less the longest transfer. The kernel asks for
\* one sector (getblk, flush1) or for whole ones of fewer than 64 KB (rwblock); what
\* INT 25h, 26h and 21h/7305h ask for is the user's.
ASSUME RequestAssumption ==
  \A r \in Requests :
     /\ r \in [who : {"kernel", "int25"}, unit : Units, mode : Modes,
               buf : Nat, start : Nat, n : Nat]
     /\ r.start < Word /\ Geometry[r.unit].size + r.n <= Word
     /\ r.who = "kernel" => 0 < r.n /\ r.n < Blocks

VARIABLES
  pc,             \* "idle", "blockio", "loop", "bios", "failed" or an outcome
  call,           \* the request
  buffer, LBA_address, totaltodo, transferred, num_retries,
  count,          \* sectors of the chunk
  bounced,        \* the chunk goes through DiskTransferBuffer
  moved           \* auxiliary: <<address, sector>> pairs moved in this attempt

tvars == <<pc, call, buffer, LBA_address, totaltodo, transferred, num_retries,
           count, bounced, moved>>
progress == <<buffer, LBA_address, totaltodo, transferred, moved>>

geo == Geometry[call.unit]

\* A single sector for upper memory is moved through deblock_buf.
Deblocked_AnyCount(r) == r.who # "driver" /\ BufsHigh /\ r.buf >= High
Deblocked(r) == r.who # "driver" /\ BufsHigh /\ r.buf >= High /\ r.n = 1
r_trans(r) == IF Deblocked(r) THEN Buffer ELSE r.buf

-----------------------------------------------------------------------------

Free == pc \in {"idle"} \cup Outcomes

\* dskxfer fills the request header and calls the driver.
dskxfer(r) ==
  /\ Free
  /\ pc' = "blockio" /\ call' = r
  /\ UNCHANGED <<progress, num_retries, count, bounced>>

\* LBA_Transfer begins: nothing of r is done yet.
LBA_Transfer(r, start) ==
  /\ pc' = "loop"
  /\ buffer' = r_trans(r) /\ LBA_address' = start
  /\ totaltodo' = r.n /\ transferred' = 0 /\ moved' = {}
  /\ UNCHANGED <<num_retries, count, bounced>>

\* RWzero: the driver reads or writes the first sector for itself.
RWzero(u, mode) ==
  /\ Free
  /\ call' = Zero(u, mode)
  /\ LBA_Transfer(Zero(u, mode), Geometry[u].first)

\* blockio refuses what lies outside the volume; the sum has 32 bits.
InRange(r) == LET size == Geometry[r.unit].size
              IN  r.start < size /\ (r.start + r.n) % Word <= size

blockio ==
  /\ pc = "blockio" /\ InRange(call)
  /\ LBA_Transfer(call, (call.start + geo.first) % Word)
  /\ UNCHANGED call

OutOfRange ==
  /\ pc = "blockio" /\ ~InRange(call)
  /\ pc' = "failed"
  /\ UNCHANGED <<call, progress, num_retries, count, bounced>>

\* How many sectors from address a on fit into a's DMA page.
DMA_max_transfer(a, n) ==
  LET off == a % Page
      fit == (IF off = 0 THEN Page - 1 ELSE Page - off) \div MaxSecSize
  IN  IF n <= fit THEN n ELSE fit

Fitting == IF geo.transparent THEN totaltodo
           ELSE DMA_max_transfer(buffer, totaltodo)

\* The head of the loop: choose the next chunk.
Chunk ==
  /\ pc = "loop" /\ totaltodo # 0
  /\ pc' = "bios" /\ num_retries' = 0
  /\ bounced' = (buffer >= High \/ Fitting = 0)
  /\ count' = IF bounced' THEN 1 ELSE Fitting
  /\ UNCHANGED <<call, progress>>

\* LBA_to_CHS: a chunk ends with its track; cylinders end at 1023.
LeftOnTrack_OneMore == geo.secs + 1 - (LBA_address % geo.secs)
LeftOnTrack == geo.secs - (LBA_address % geo.secs)
TooFar == ~geo.lba /\ LBA_address >= geo.chsEnd
Clipped == IF geo.lba \/ count <= LeftOnTrack THEN count ELSE LeftOnTrack

\* What an attempt moves when the BIOS accepts it.
Taken == IF geo.lba THEN Clipped % Blocks ELSE Clipped

\* A request that is one chunk of more blocks than the packet's byte can say.
Cut(r) == /\ Geometry[r.unit].lba /\ Geometry[r.unit].transparent
          /\ r.buf < High /\ r.n >= Blocks
Pairs(a, s, n) == {<<a + i * SecSize, s + i>> : i \in 0..n-1}

BiosOk_Unclipped ==
  /\ pc = "bios" /\ ~TooFar
  /\ pc' = "loop" /\ count' = Clipped
  /\ moved' = moved \cup Pairs(buffer, LBA_address, Taken)
  /\ transferred' = transferred + count
  /\ LBA_address' = LBA_address + count
  /\ totaltodo' = totaltodo - count
  /\ buffer' = buffer + count * SecSize
  /\ UNCHANGED <<call, num_retries, bounced>>

BiosOk ==
  /\ pc = "bios" /\ ~TooFar
  /\ pc' = "loop" /\ count' = Clipped
  /\ moved' = moved \cup Pairs(buffer, LBA_address, Taken)
  /\ transferred' = transferred + Clipped
  /\ LBA_address' = LBA_address + Clipped
  /\ totaltodo' = totaltodo - Clipped
  /\ buffer' = buffer + Clipped * SecSize
  /\ UNCHANGED <<call, num_retries, bounced>>

BiosError_OnceMore ==
  /\ pc = "bios" /\ ~TooFar
  /\ count' = Clipped /\ num_retries' = num_retries + 1
  /\ pc' = IF num_retries' <= N_RETRY THEN "bios" ELSE "failed"
  /\ UNCHANGED <<call, progress, bounced>>

\* A refused attempt is repeated from the start of its chunk, up to N_RETRY
\* times; what it moved before it failed does not count.
BiosError ==
  /\ pc = "bios" /\ ~TooFar
  /\ count' = Clipped /\ num_retries' = num_retries + 1
  /\ pc' = IF num_retries' < N_RETRY THEN "bios" ELSE "failed"
  /\ UNCHANGED <<call, progress, bounced>>

BiosTooFar ==
  /\ pc = "bios" /\ TooFar
  /\ pc' = "failed"
  /\ UNCHANGED <<call, progress, num_retries, count, bounced>>

End(how) == /\ pc' = how
            /\ UNCHANGED <<call, progress, num_retries, count, bounced>>

Done == pc = "loop" /\ totaltodo = 0 /\ End("ok")

\* After a failure: the driver's own transfer and absolute ones report it.
Fail == pc = "failed" /\ End("error")

\* Others may be repeated from the beginning or taken for done.
Retry ==
  /\ pc = "failed" /\ call.who = "kernel"
  /\ pc' = "blockio"
  /\ UNCHANGED <<call, progress, num_retries, count, bounced>>

Ignore == pc = "failed" /\ call.who = "kernel" /\ End("ignored")

\* The caller takes the result.
Collect ==
  /\ pc \in Outcomes /\ pc' = "idle" /\ call' = NoCall
  /\ buffer' = 0 /\ LBA_address' = 0 /\ totaltodo' = 0 /\ transferred' = 0
  /\ num_retries' = 0 /\ count' = 0 /\ bounced' = FALSE /\ moved' = {}

-----------------------------------------------------------------------------

TransferInit ==
  /\ pc = "idle" /\ call = NoCall
  /\ buffer = 0 /\ LBA_address = 0 /\ totaltodo = 0 /\ transferred = 0
  /\ num_retries = 0 /\ count = 0 /\ bounced = FALSE /\ moved = {}

Continue == \/ blockio \/ OutOfRange \/ Chunk \/ BiosOk \/ BiosError \/ BiosTooFar
            \/ Done \/ Fail \/ Retry \/ Ignore \/ Collect

TransferNext == \/ \E r \in Requests : dskxfer(r)
                \/ \E u \in Units, m \in Modes : RWzero(u, m)
                \/ Continue

TransferSpec == TransferInit /\ [][TransferNext]_tvars

-----------------------------------------------------------------------------

Moving == pc \in {"loop", "bios", "ok"}
First == geo.first + call.start

\* How many of n sectors reported as moved were moved: of a request whose count was
\* cut, what was left of it.
Carried(n) == IF Cut(call) THEN n % Blocks ELSE n

\* LBA_Transfer reports in "transferred" what it moved: exactly so many sectors,
\* from the first on, each at its place in memory, and all of them inside the
\* volume, whatever pages, tracks, upper memory and retries make of the chunks.
\* Only where an absolute read or write of 256 sectors or more meets a drive that
\* takes any buffer is less moved than reported: n mod 256, from the first on.
Transferred ==
  Moving =>
    /\ moved = Pairs(r_trans(call), First, Carried(transferred))
    /\ transferred + totaltodo = call.n
    /\ \A p \in moved : p[2] >= geo.first /\ p[2] < geo.first + geo.size

\* Every chunk the BIOS is given is not empty and stays within what is left, a
\* DMA page, conventional memory and, by cylinder and head, a track; and its count
\* goes through number_of_blocks unchanged unless the request was one to be cut.
ChunkFits ==
  pc = "bios" =>
    /\ Clipped >= 1 /\ Clipped <= totaltodo
    /\ Taken = Clipped \/ Cut(call)
    /\ ~geo.lba => (LBA_address % geo.secs) + Clipped <= geo.secs
    /\ bounced => Clipped = 1
    /\ ~bounced => /\ buffer < High
                   /\ geo.transparent \/ (buffer % Page) + Clipped * SecSize <= Page

\* What reaches the caller: dskxfer copies deblock_buf back for the kernel, but
\* not for an absolute read, and fills it likewise.
Delivered ==
  IF ~Deblocked(call) THEN moved
  ELSE {<<call.buf, p[2]>> : p \in {q \in moved : call.who = "kernel"}}

\* A call that ends well has moved all that was asked for to where it was asked,
\* except absolute transfers of one sector of upper memory while the buffers are
\* in HMA (blockio.c:438-442); of those whose count was cut it has moved n mod 256.
AllDelivered ==
  (pc = "ok" /\ ~(call.who = "int25" /\ Deblocked(call))) =>
    Delivered = Pairs(call.buf, First, Carried(call.n))

\* "0 < number_of_blocks < 128" (hdr/device.h:192): what LBA_Transfer puts into the
\* packet.
BlockCount == pc = "bios" /\ geo.lba => Taken \in 1..(Blocks \div 2) - 1
=============================================================================
