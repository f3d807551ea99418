# Burdah-DOS: a TLA+ verification project

Burdah-DOS is a real-mode DOS: the FreeDOS kernel (C and assembly, `kernel/`), a
FreeCOM shell ("Portal", `portal/`), the SHARE resident program (`share/`), boot
sectors, SYS and tools. This project models the parts whose state is shared by
everything that runs: memory, disk buffers, transfers, diskettes, the FAT file system,
open files, processes and SHARE. `PROJECT.json` lists the components, runs, mutants,
the map from definitions to source lines, findings, hazards and theorems. Line numbers
below are of the repository's `src/`.

## The system

The kernel is entered by software interrupts (INT 21h, 25h, 26h, 2Fh) and is not
reentrant: a call runs to its end before the next one begins. Three things make its
behaviour hard all the same. A call may stop in the middle: every disk transfer can
raise a critical error (INT 24h), whose handler, a program's or the user, may ignore,
retry, fail or abort, and an abort never returns to the call. All state is global and
outlives programs: the chains and tables one program leaves behind, after any sequence
of calls, are what the next one starts with. And the world changes between calls:
diskettes are swapped, SHARE is switched off, the power fails.

| component | state | operations | uses | what makes it correct |
|---|---|---|---|---|
| memory manager, `memmgr.c` | MCB chain, `uppermem_root/link`, `mem_access_mode` | allocate, free, resize, largest, link upper memory, free a process | - | blocks tile memory; the chain ends where it should; a stale header is never taken for a block; strategies place blocks as they promise; calls return |
| disk buffers, `blockio.c` | ring of buffers with block number and flags | get, flush, invalidate, drop, sell to HMA | block driver | one ring; one copy of a block; nothing written is lost, nothing stale is returned; FAT copies agree; a kept buffer stays |
| block driver, `dsk.c` | drive parameters and flags, current letter, time of last access, serial number | media check, build BPB, read, write, verify, IOCTL | BIOS | all of a request is moved, to the right place, in chunks the BIOS can take; a changed diskette is noticed |
| FAT, `fattab.c` | entries packed in sectors, free counts, FSINFO | read and write an entry | buffers | an entry changes alone; counts match the FAT |
| file system, `fatfs.c`, `fatdir.c` | fnodes, directories, cluster chains | open, close, read, write, delete, rename, mkdir, rmdir, truncate, media check | FAT, buffers, SFT, driver | chains are disjoint and end; sizes fit their chains; errors and crashes lose space at most; nothing of an old diskette is used |
| handles, `dosfns.c` | SFT entries with counts, job file tables | open, dup, force dup, close, inherit | file system, devices, SHARE | counts equal references; no entry is taken twice |
| SHARE, `share.c` | file table, lock table | open check, close, access check, lock, enable, disable | called by handles and file system | conflicting opens are refused; locks exclude; slots belong to open files |
| processes, `task.c` | PSPs, environments, parents | EXEC, exit, stay resident | memory, handles | all a process had is returned; a failed EXEC leaves nothing |
| FCBs, `fcbfns.c` | SFT entries opened by FCB | open, close, size, close all | handles | closed when their process ends |

Character devices, path names, NLS, CONFIG.SYS, start-up, boot sectors, SYS, Portal
and the tools are not modelled; the last but one section says why.

## Modules

| module | what it is |
|---|---|
| `MemArena` | abstract specification: what programs are promised about memory; only the owned blocks, every call atomic |
| `MemMgr`, `MCMemMgr` | `memmgr.c` with the INT 21h calls that use it, every loop stepped; the refinement mapping to `MemArena` |
| `MemMgrProofs` | theorems about `MemMgr` |
| `BlockIO`, `MCBlockIO` | `blockio.c` and all callers that change a buffer |
| `BlockIOProofs` | theorems about `BlockIO` |
| `Transfer` | one transfer: `dskxfer`, `blockio`, `LBA_Transfer`; also the abstract specification of what reaches the drives |
| `Floppy`, `MCFloppy` | `Transfer` composed with the media check, the two letters of a diskette drive, the user, and the calls that rely on or go past the media check |
| `FloppyProofs` | theorems about `Transfer`, that `Floppy` implements it, and about `Floppy` |
| `FatFs`, `MCFatFs` | clusters, directory entries and SFT positions; interrupted calls and power failure |
| `FatFsFacts` | lemmas: chains as sequences, and what each call does to a sound volume |
| `FatFsProofs` | theorems about `FatFs` |
| `Handles`, `MCHandles` | SFT, job file tables, FCBs, processes, EXEC |
| `HandlesProofs` | theorems about `Handles` |
| `Share`, `MCShare` | SHARE with the kernel calls that use it |
| `ShareProofs` | theorems about `Share` |
| `TableFacts` | lemmas on least elements, ranges and counting that several proofs use |

One idea runs through all of them: a step is what cannot be interrupted, and a call
ends wherever a transfer may end it. Variables called auxiliary in a module are read
by no step of the code they stand beside; they say what the properties need to know of
the past. Definitions with a suffix (`joinMCBs_NoMark`) are mutants: a plausible
mistake in the definition of that name, which the run of its property finds.

### MemMgr

`m_type`, `m_psp`, `m_size` give the header stored at *each* paragraph, not only at
the chained ones: `joinMCBs` leaves the bytes of an unlinked header in place and marks
its size 0xffff (programs free blocks twice, the comment names QB4), and the
interesting question is what a later call makes of it. `pc`, `op`, `p`, `found`,
`biggest`, ... are the C locals; each turn of a loop is one action:
`SearchJoin`/`SearchVisit`/`SearchDecide`/`SearchTake` are `DosMemAlloc`,
`GrowJoin`/`GrowEnd`/`Shrink`/`TailJoin`/`TailEnd` are `DosMemChange`, `CheckStep` is
`DosMemCheck`, `LinkStep`/`LinkEnd` are `DosUmbLink` and `FreeStep` is the loop of
`FreeProcessMem`. The chains of calls of one interrupt are kept: INT 21h/48h that
fails runs `DosMemLargest` (one or two more searches, with a bit of the global
strategy taken out in between) and then `DosMemCheck`; 4Ah runs `DosMemCheck` before
and, on failure, after; 4Ch (`Terminate`) runs it before `FreeProcessMem`. A program may free any segment and resize any that is or was a
header, except the system's blocks; it may also overwrite the data of its own blocks,
stale headers in them included (`ProgramWrites`), but not headers. An MCB's name is
left out. Error returns for a corrupted chain are in the actions (as IF branches); the
runs and the proof show they are not taken.

`heads` (chained headers) and `snap` (what programs saw when the call began) are
auxiliary. The refinement mapping in `MCMemMgr` shows `snap` while a call is in
progress.

### BlockIO

A step is what happens between two transfers of a sector, because that is where a call
can be abandoned. `searchblock`, `flush1` and the rest of `getblk` are
`Begin`/`Straddle`, `FlushCopy` and `GetblkFlushed`/`GetblkRead`/`Overwrite`. The
loops over the ring (`flush_buffers`, `flush`, `DeleteBlockInBufferCache`,
`AllocateHMASpace`) share the actions `WalkVisit`, `WalkSkip`, `WalkFlushed`; `op`
says on whose behalf. `UseRead`, `UseWrite`, `UseDir`, `UseFat` are what `rwblock`,
`dir_write_update` and `link_fat` do with the buffer; `DirectRead`, `DirectWrite`,
`Int26`, `ExtWrite` go past the buffers; `MediaUnsure`, `MediaChanged` are
`media_check`. Transfers end in "ok", "ignore" (the caller sees success), "fail" or
"abort". Retrying repeats the transfer and is no step of its own. What a failed write
leaves on disk, and a failed read in memory, is left open. `BFR_DATA` and `BFR_DIR`
are set but never tested, so they are not modelled. FAT32 without mirroring, FSINFO
and INT 26h/7305h writes to FAT sectors are left out.

`latest` (what each block should hold) and `told` (blocks of which a device error was
ignored or failed, so that their content is open) are auxiliary.

### Transfer

What a transfer is in `BlockIO` is stepped here: `dskxfer` hands a request to the
driver, `blockio` checks the range (a 32-bit sum), `Chunk` is the head of
`LBA_Transfer`'s loop, and every attempt at a chunk is a step (`BiosOk`, `BiosError`)
that the BIOS may accept or refuse. A chunk is cut at the DMA page and at conventional
memory when it is chosen, and by `LBA_to_CHS` at the end of the track in each attempt,
which is why a retry may see a smaller `count`. After `N_RETRY` refusals the request
fails and the user says retry, ignore or fail; absolute transfers return at once.
`moved` (pairs of address and sector) is auxiliary, and is all that is said of
content: which sector went where. A failed attempt moves nothing that counts.

`number_of_blocks` is a byte. DMA pages keep chunks below 128 sectors, and so does
`rwblock`, which moves less than 64 KB; but on an LBA drive that takes any buffer
(`DF_DMA_TRANSPARENT`) a chunk is the whole request, and INT 25h, 26h and 21h/7305h
hand on the 16-bit count of a program. `Taken` is what is left of the count; `Cut`
names the requests it is too small for, and `Carried` says what was moved when n
sectors were reported: n, or n mod 256 of a request that was cut. The properties and
theorems are about these requests too.

### Floppy

One diskette drive with the letters A: and B:, and hard disks beside it. `mediachk`,
`diskchange`, `play_dj`, `getbpb` and `Setlogdev` are those of `dsk.c`; `Keep`,
`Rebuild`, `Built`, `NotBuilt` and the `Build...` and `CompareFails` actions are
`media_check` with `rqblockio`, whose errors are asked about on their own. `getbpb`
may also fail when it has already taken over the serial number and the time, because
the boot sector says no sectors per cylinder (`Flat`). `dpb`, `clean` and
`dirty` hold, in place of content, the *medium* it came from: that of the DPB, of the
valid buffers, and of those with unwritten data. Every transfer is one of `Transfer`,
whose steps are steps of `Floppy`. A call that names a path (`Check`) runs the media
check and then reads, modifies and writes blocks; `Commit` (close and commit) and
`GetDPB` (INT 21h/32h, which flushes, then forces a rebuild) write without one;
`Direct` (INT 25h, 26h, 7305h) and `GetSerial` (IOCTL 66h) go past it. `flush1` writes
any letter's block when a buffer is needed.

The user: swaps diskettes between calls only, and not while data for the current
letter is unwritten; when prompted, inserts the diskette the letter still has data
for, or the one a call is working with, or any (`Wanted`). Reading a prompt and
changing a diskette take longer than the 37 ticks `tdelay` asks for.

The BIOS: the first access to a new diskette is refused with error 06h, which clears
the change line, whoever makes it. Asking for the change line (`fl_diskchanged`) may
fail at any time, also on a drive that has one (`Told`); then the clock decides, as on
a drive without (`diskchange`). Both are outside the repository and stated by
`drivers/floppy.asm` only in so far as it tests for them.

`because` (why the medium is taken for changed) and `missed` are auxiliary. `missed`
has letters about which the driver's marks, the clock or the change line do not tell
the truth any more:

* an access without media check, or a rebuild of the BPB that failed, used up the only
  notice of a change (`Unseen`; `LBA_Transfer` retries past error 06h and tells
  nobody);
* a rebuild failed after IOCTL 66h had read another diskette's serial number
  (`Misnamed`): nothing will force the rebuild, and once 37 ticks have gone by the
  DPB's own diskette is taken for a changed one;
* an absolute access of *no* sectors made the driver ask for the letter's diskette, or
  set back its clock, without touching the diskette (`Untouched`): the change line
  stays active. The next media check drops the data that waits to be written to that
  same diskette; or it cannot ask for the line, takes the clock's word that nothing
  changed, and a later one drops what was written since;
* the error of a rebuild was ignored, or a program switched letters by INT 21h/440Fh
  without a prompt, while data was unwritten or to a letter whose clock had been set
  back while the line was active.

A rebuild that succeeds takes a letter out again. The second and third came to light
when `DropsOnly` was to be proved: the letters' properties do not hold without these
exceptions once two diskettes have different serial numbers and a request may be
empty, both of which the run now has.

### FatFs

`vol` and `dir` are the FAT and the directories as calls see them, through the
buffers; `disk` is what the last flush left, and after `Power` any mixture of both
(entry by entry) is what is there. A call is one step that ends well or, by one of
`Bad`, after any of its transfers, with what was done until then in `vol` and `dir`.
The order of writes is the code's: `extend` links before it stores, `delete_dir_entry`
wipes clusters before it marks the entry, `dos_rename` deletes the old entry before it
writes the new one, `extend_dir` links a cluster before it clears it. The SFT has
position, cached cluster and its index (`cu`, `rel`), which `map_cluster` uses.

`saved` (entries flushed since their file changed) and `faulted` are auxiliary.
`upset` is set when an interrupted call leaves an entry with clusters that are not its
own, or a count that is wrong; the model goes no further then, since after that the
code, like any FAT file system without a check, promises nothing. A file is opened
once at a time and not deleted while open (what deny-all under SHARE makes sure of,
`OpensAgree` and `OpenFilesStay` in `Share`).

### Handles

A call is one step with the outcome of its transfer; `EXEC` is a step per transfer or
allocation (`ExecOpen`, `ExecHeader`, `ExecEnv`, `ExecMem`, `ExecRead`, `ExecClose`,
`ExecStart`), since what a failure leaves behind depends on where it happens. After an
abort `pc` is "abort" until `return_user` has cleaned up (`Terminate`, `Cleanup`).
Calls that are refused without an effect are no actions. A segment stands for a memory
block; a process is the segment of its PSP. `PopUp`/`PopDown` are a resident program
that makes itself current (INT 21h/50h).

`alive`, `kept` (resident processes), `ghosts` (PSPs of an EXEC that failed after
making them), `fcbs` (entries held in FCBs) and `lost` (references the code has lost:
a close that failed, a device that refused to open, a table that shrank) are
auxiliary. `MaxLost` bounds the lost references with which a call may begin.

### Share

The tables, `open_check`, `close_file`, `access_check`, `lock_unlock`, `is_file_open`
with the calls of the kernel around them (open, clone, close, transfer, lock, delete,
rename, set attributes). Any process may be the current one at a step, as resident
programs pop up. `refs` counts handles; which they are is in `Handles`. `enable` is
what SHARE /D and /E switch (both clear the tables), `share_installed` what the kernel
found out when it last asked. Two calls put tables and open files in disagreement: a
transfer refused by `access_check` frees the entry of a file that stays open
(share.c:655), and setting attributes closes files behind their handles (fatfs.c:364).
`upset` says that one happened, and the model stops there.

## Runs

| run | bounds | shows |
|---|---|---|
| `mem_calls` | 6 paragraphs of memory; with upper memory from the fourth on, 2 programs, and strategies first fit, best fit and last fit, upper memory first; without, one program and first fit; sizes 0, 1, 3; weak fairness of the kernel's steps | `TypeOK`, `ChainIntact`, `NeverPanics`; `ArenaSpec`: every call implements one atomic call of `MemArena`; `CallsReturn` |
| `buf_ring` | 3 buffers (one in HMA), 2 FAT sectors and 1 data sector, all outcomes | `TypeOK`, `RingIntact`, `OneCopy`, `HeldStays` |
| `buf_coherence` | 2 buffers, 1 FAT and 2 data sectors, 2 contents, writes that fail | `Coherent`, `DirectReadsLatest`, `FatMirrored` |
| `buf_read_error` | as `buf_coherence`, reads that fail | `ReturnsBlock` is violated |
| `buf_int26` | as `buf_coherence`, absolute writes of 2 sectors | `ReturnsBlock` is violated |
| `buf_few_fat` | 3 buffers, 3 data sectors | `FewFatKept` is violated |
| `handles` | 3 segments, 2 SFT entries, tables of 1 or 2 handles, files and devices, FCBs, all outcomes, 1 lost reference | `TypeOK`, `CountsMatch`, `NoInherit`, `MemoryOwned`, `ExecUndone` |
| `handles_fcb` | as `handles`, files only, no failures | `FcbsClosed` is violated |
| `share` | 2 processes, 2 files, 2 entries in SFT, file and lock table, 4 modes, 4 regions of offsets up to 3, 2 references per entry, all outcomes | `TypeOK`, `SlotsMatch`, `FreeCounts`, `OpensAgree`, `LocksApart`, `TransfersRespect`, `OpenFilesStay` |
| `fs` | 2 names, 2 clusters of 2 bytes, root of 2 entries, directories of 1 entry per cluster, writes of 3 bytes, 1 open file, fail, abort and power failure | `TypeOK`, `ChainsApart`, `SizeFits`, `CachedPosition`, `FreeCount`, `SavedStays`, `NothingLost`, `DirsClean` |
| `floppy` | 4 diskettes, two with serial numbers, one with no valid boot sector and one whose boot sector says no sectors per cylinder; 2 letters; disks with LBA, with LBA and transparent DMA, with CHS; tracks of 3 sectors, pages of 4, block counts below 10, 2 attempts; 16 requests, one of them for no sectors, three for as many as the count cannot say | `TypeOK`, `CacheTrue`, `WritesRight`, `DropsOnly`, `Transferred`, `ChunkFits`, `AllDelivered` |
| `floppy_count` | as `floppy` | `BlockCount` is violated |

Why the bounds are enough. *Memory*: six paragraphs hold the system's block, the
bridge to upper memory and enough for two neighbouring blocks to be split, freed in
either order and joined; with upper memory, joins stop at the bridge between one block
on each side of the link, without it there is one piece of five (`Bound` in
`MCMemMgr`). FFFF keeps its 16-bit value, so that the mark of an unlinked header is a
real size. *Buffers*: two are the fewest with which anything is replaced while
something else is kept; three are needed for a middle of the ring. These runs have
one drive: that several share the ring, and that flushing, forgetting or changing one never
costs another a write, is what `CoherentHolds` says, for any `Units`. `MaxTold` bounds
the blocks with a reported error; `AbsCounts` and `ExtWrites` choose the absolute
writes. *Handles*: three segments are a parent and a child's PSP and environment, or
three generations without one; one handle in the new table and two in a grown one make
hidden handles possible. *Share*: two slots are what it takes for a slot to be reused
while another open of the same file lives; the four modes are deny-none, two that
conflict by deny-write, and one that is not valid; the regions are apart, inside one
another, empty, or wrap past the largest offset `Top`. *Files*: with two clusters the
volume is full after one file of two or two files of one, which is when growing,
cutting and making a directory meet; a file of three bytes has a half-used last
cluster. *Diskettes*: two diskettes and two letters are every relation a letter can
have to the diskette in the drive, and a third one has no serial number; the requests
end with a page, with a track, between pages and above conventional memory, and their
counts are cut to none, to one, or not cut in upper memory. `Bound` in
`MCFloppy` stops a letter's history when its change has been missed (`missed`; what
can happen then is open), sets parameters for A: only, where the drive has no change
line, and does not go on with them in B: after a mark, looks at a serial number that
is read because asking for the line failed in A: only and while nothing is known of
B:, reads no sectors only where the drive has a change line, uses the
diskettes without a boot sector or with an empty one in A: only and while nothing is
known of B:, the latter where there is no change line, and looks
at the hard disks before the diskettes are used, since the two do not meet but in the
driver's one transfer at a time.

Symmetry: buffers outside HMA and sector contents, segments but the first process's,
processes and files of SHARE, names of files are interchangeable; no run with symmetry
checks liveness or `ArenaSpec`.

Fairness: `mem_calls` assumes weak fairness of the kernel's own steps only (nothing
preempts a call), none of programs; `Bound` cuts no call short, only what programs do
between calls. All other runs check safety and need none: loops over the ring and over
chunks are bounded by a count, and how long a user retries is up to the user.

Exceptions that properties make, each of them a line of the code: `Coherent` is
checked with successful reads, since with failing ones it does not hold
(`buf_read_error`), and leaves out blocks of which an error was reported;
`CountsMatch` counts `lost` references; `SlotsMatch`, `LocksApart`, `OpenFilesStay`
and the properties of `FatFs` hold until `upset`; `CacheTrue`, `WritesRight` and
`DropsOnly` are about letters not in `missed`; `AllDelivered` leaves out absolute
transfers of one sector of upper memory while the buffers are in HMA, which `dskxfer`
sends through `deblock_buf` without copying (blockio.c:438-442); `Transferred` and
`AllDelivered` say of requests whose count is cut what is moved of them (`Carried`).

## Findings

* `buf_read_error`: after a failed read the reused buffer is still valid for its
  old block, with other content (`blockio.c:234`).
* `buf_int26`: a write of several sectors through INT 26h drops only the first one
  from the buffers (`inthndlr.c:1858`).
* `buf_few_fat`: the rule that keeps FAT buffers tests the most recently used
  buffer instead of the one to be reused (`blockio.c:135`).
* `handles_fcb`: `FcbCloseAll` takes the first unused entry of the SFT for its end, so
  that files opened by FCB behind it stay open when their process ends
  (`fcbfns.c:639`).
* `floppy_count`: `LBA_Transfer` puts its count into a byte that is to be above 0 and
  below 128 (`hdr/device.h:192`). On a drive with `DF_DMA_TRANSPARENT` an absolute
  request of 256 sectors or more is one chunk: n mod 256 sectors are moved, n are
  reported (`dsk.c:1057`).

## Proofs

### MemMgrProofs

For every memory size, position of upper memory, set of programs and sizes: `Spec =>
[]TypeOK`, `Spec => []ChainIntact` and `Spec => []NeverPanics`, from `MemAssumption`
(memory is not empty, segments are below 0xffff, programs have neither the free nor
the system's owner value, strategies are the nine that INT 21h/5801h accepts).

`ChainIntact` is not inductive: in the middle of a call it depends on where the C
locals point. `IInv` adds, per loop, what the loop relies on: the search keeps its
candidates on chained free blocks behind the cursor (`SearchInv`), resizing holds a
chained block that is not the system's (`ChangeInv`), linking has `found` right before
`p` and `p` not beyond upper memory (`LinkInv`), and so on. The argument:
`JoinKeepsChain` and `SplitKeepsChain` show that one join and one split keep the
tiling, the terminators and the stale headers' marks; `FlipKeepsChain` does it for
linking and unlinking; `OwnerChange` for changes of owner; one lemma per action
combines them with the loop invariants; `Invariance` concludes.

### BlockIOProofs

For any finite set of buffers, two of them outside HMA at least, any units, blocks and
contents (`BufAssumption`).

Whatever fails: `TypeOK`, `RingIntact`, `OneCopy` and `HeldStays`. `RingIntact` speaks
of `Chain`, the recursive function that follows `b_next`; the proof never computes it.
`RingOf` says of a sequence that it is a ring, `WalkExists` and `WalksAgree` that a
pointer structure has exactly one sequence from its first element, and the lemmas on
moving, taking out and cutting a ring give the new sequence from the old one. The
invariant `Inv` has `RingInv`, the types (`DataInv`), which call is where with which
block (`CallInv`), and what makes the copies single: from the search on until the
buffer has its block, `getblk` works on the first buffer, no other one has the block,
and between two transfers nobody else gets one (`GetInv`). `HeldInv` is the remark in
`link_fat` that its first buffer cannot be the one that is reused: it is in front when
the second search begins, and the ring has a second buffer.

Under `Calm`, a condition on the constants: `Coherent`, `DirectReadsLatest`,
`FatMirrored` and `ReturnsBlock`. `Calm` says that no read fails for good, that there
is no absolute write (INT 26h) and none of INT 21h/7305h; writes may fail in all four
ways. None of the three can be left out: the runs `buf_read_error` and `buf_int26`
refute `ReturnsBlock` without the first or the second, and 7305h forgets dirty
buffers. `CalmInv` adds to `Inv` that FAT blocks are flagged as such while dirty
(`FlagInv`, or `flush1` would write one copy only), and how far `flush1` and the loops
over the ring are (`ProgressInv`): the copies counted were written, and what lies
behind the cursor is clean.

### HandlesProofs

For any finite set of segments, any number of SFT entries and handles, and any outcome
of transfers (`HandlesAssumption`): `TypeOK`, `CountsMatch`, `NoInherit`,
`MemoryOwned` and the action property `ExecUndone`.

`CountsMatch` alone is not inductive. `Inv` adds that the processes that are not
resident form a stack (`StackInv`: or termination would return to the wrong one), that
a block's owner is its process or that one's parent (`MemInv`), that the file and the
blocks of an EXEC are nobody else's (`ExecInv`), and that handles beyond a table's
size, FCBs of dead processes and handles on FCB entries do not exist (`RefInv`).
Counting is done by lemmas on sets of pairs of process and handle, one for each way
calls change a table: a cell set, a table copied, cut, or given up with its process.
`UndoInv` is what an EXEC has changed since it looked, stage by stage; `ExecUndone`
follows at the step that gives the error back.

### ShareProofs

For all processes, files, table sizes, offsets and modes that `ShareAssumption`
allows: `OpensAgree`, `SlotsMatch`, `LocksApart`, `TransfersRespect`, `FreeCounts`,
`OpenFilesStay` and `TypeOK`.

`Inv` is the conjunction of three parts. `FilesInv` is `OpensAgree` with what
`do_open_check` knows of later opens: each either asked for what the first did or was
allowed beside it (`Rules` goes through the table of the code). `SftInv` has
`Matched`, a bijection between entries in use and SFT entries, while nothing is upset.
`LocksInv` is `LocksApart` and that locks are not empty, which must also be known of
locks whose file is gone. `FilesShrink`/`FilesAdd` and `LocksShrink`/`LocksAdd` say
what taking away and adding one entry does to these; one lemma per call combines them.
`TransfersRespect` follows from the invariant and `EndOf`, which is about the sum that
wraps at `Top`.

`FreeInv` says that the two counters are the number of free slots: it needs `Inv`,
since a close takes from a slot only if the slot is in use (`Matched`). `OpenInv` is
what `OpenFilesStay` rests on: an entry of the SFT counts at least as many references
as there are handles (`Covered`), so that none is free while a handle is left, and a
file with such an entry is there.

### FloppyProofs

`TransferInvariance`: `TransferSpec => []TransferInv` for every geometry, page,
request and size that `SizeAssumption`, `GeometryAssumption` and `RequestAssumption`
allow. They say: a page holds a sector, and no more sectors than an 8-bit count can
say; `DiskTransferBuffer` lies in conventional memory; a volume ends below 2^32
sectors less the longest request; and the kernel itself asks for one sector at least
and for fewer than 256, since `rwblock` moves less than 64 KB. Of absolute requests
nothing is assumed. `TransferInv` adds to `Transferred` where the cursor stands
(`UnderWay`) and what the choice of a chunk guarantees through its retries
(`ChunkChosen`). Of a request that is cut it says that it is one chunk, so that all
of it is reported at once and n mod 256 sectors of it were moved.

`FloppyTransfers`: `Spec => TransferSpec`, the refinement, one case per action of
`Floppy`, each a step of `Transfer` or a stutter. `AlwaysTransferred`,
`ChunksAlwaysFit` and `AlwaysDelivered` follow for `Floppy`'s specification.

`CacheAlwaysTrue` and `WritesAlwaysRight`, for all letters, diskettes, serial numbers
and requests, from the same assumptions and `LetterAssumption`. The invariant
`FloppyInv` has types, `Control` (which stage goes with which state of the transfer,
and that the driver's own transfers find their letter current), and for each letter
not missed `LetterInv`: all its buffers are of the medium of its DPB; with unwritten
data, its diskette is in the drive or the other letter is current; and when no check
is under way, the DPB is right or a mark, the clock or the change line will tell.
`CacheTrue` is not inductive because a check has several transfers in its middle, each
of which may use up the change line.

`DropsAlwaysRight` is `DropsOnly`, for diskettes that `LBA_to_CHS` reaches all of
(`Reached`: fewer than 1024 cylinders, as every diskette has; a prompt followed by a
refusal for that reason would leave the change line active). `DropInv` adds, for each
letter not missed, `LineInv`: the change line is active for the current letter only
while nothing hangs on it and the letter's clock has run out, between a prompt and the
access or answer that follows, or during an absolute access;
and `SerialInv`: the driver's serial number is that of the DPB's diskette, or nothing
is unwritten and the DPB will be built again before anybody compares. `TypeOK` needs
`Counted` and `Small`, the bounds of retries and of what is unwritten.

### FatFsFacts, FatFsProofs

For any number of clusters, entries of the root and of a cluster, open files and
names, any cluster size and largest size of a file, whatever calls do and wherever
they are interrupted (`FatFsAssumption`: names are not one of the marks for entries
without a file; there is a cluster, with a byte and room for an entry; a transfer has
a byte): all eight properties of the run `fs`.

*Chains.* `Chain` is a recursive function, and that it ends or how long it is would be
induction over data. The proof takes the clusters from a start as a function instead
(`Trail`, whose existence is by the least number for which there would be none): in a
chain that ends no cluster comes twice, since the cluster behind it would as well, up
to the last; so it has no more than there are clusters, and `Chain` is its sequence
(`FatFsFacts`, "Chains"). Two chains that share a cluster end together, and those of
different starts share none if no entry leads to the same cluster from two. From this
come what linking, cutting and freeing do to a chain (to that of another file:
nothing), and by steps of `map_cluster` where a walk stops and what it took.

*The inductive invariant* is `VolInv`: types, and, until `upset`, `Now`, which has two
halves. `Sound` is about the volume that calls see. `ChainsApart` alone is not
inductive: an open file's start and size are in its SFT and not in its entry, so that
the files are those of both (`St`, `Sz`, one opening at a time, `SftsOK`); what a call
writes depends on the cached position (`Cached`); what it takes as free must be in no
chain, and counting is right only if freed clusters were in use (`CountOK`); entries of
a directory are where its chain is (`HeldOK`), and a directory is in the root and has a
cluster (`DirsOK`); and a file has clusters for its size (`VolFit`). `Behind` is about
the disk: what is not there yet makes chains longer or clears a directory's new
cluster and nothing else (`FatAhead`, `DirAhead`), and what is saved is there with its
chain (`SavedIn`), so that any mixture of the two is sound again. `Kept`, which each
call's lemma concludes, says that a call leaves other files' chains, starts and sizes
alone; `Ended` says what a whole step does, interrupted or not, and `Power` has a
section of its own. An interrupted call either leaves the volume sound (`map_cluster`
between two writes of `extend`: a lost cluster) or is one of those `upset` is for.

`DirsClean` needs in addition that names are in order (`NamesInv`); after a power
failure a directory lists what it did, or how that began (`DirBegins`). `NothingLost`
needs that no step but an interrupted one leaves a cluster in no chain, or an open file
with more clusters than its size in the SFT needs (`Lossless`); `LossInv` adds that to
`VolInv`, and that nothing is upset before a call is interrupted.

### Only model-checked

Termination (`CallsReturn` needs fairness, which is out of the prover's reach) and the
refinement `ArenaSpec` (minima over sets of runs).

## Not modelled

* Start-up, partition tables, CONFIG.SYS: run once, before any program, and leave the
  states `Init` describes. Boot sectors, SYS, Portal, tools and tables: programs of
  their own, or data. Portal is FreeCOM with few changes.
* The packing of 12-bit FAT entries and FSINFO; attributes, times, labels, long
  names, `.` and `..`, directories in directories; searches.
* Two opens of one file in `FatFs` and `merge_file_changes`: an entry opened on
  an empty file keeps cluster `FREE` although another has given the file its clusters
  (a hazard without property).
* INT 21h/7305h in the coherence runs: it forgets dirty buffers of other files, which
  the code leaves to its caller (a hazard without property); it is in `buf_ring`.
* Formatting and track calls, writing serial numbers and labels, the access flag.
* Character devices, Ctrl-C, path names, drive tables, national languages, date and
  time, printing, the dialogue of critical errors, the redirector.
* Relocation and command tails of EXEC, which keep no state; where blocks are placed
  is in `MemMgr` only.

## Plan

Done: memory, buffers, handles, processes and FCBs, SHARE, the FAT file system,
transfers and diskettes, with proofs for all of them.

Next, in this order:

1. Proofs: the steps of `ArenaSpec` that do not depend on which block is the best.
2. Packing of 12-bit entries against a reference definition; two opens of one
   file under `merge_file_changes`.
3. Cooked input and Ctrl-C (`chario.c`, `break.c`); drives and current
   directories.
