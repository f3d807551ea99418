------------------------------- MODULE Floppy -------------------------------
(***************************************************************************)
(* One diskette drive with two letters, A: and B: (DF_MULTLOG), and how    *)
(* the kernel finds out that the diskette changed: mediachk, diskchange,   *)
(* play_dj and getbpb of the block driver (dsk.c), media_check of the file *)
(* system (fatfs.c), and the calls that go past it.                        *)
(*                                                                         *)
(* Steps are requests to the driver and, within them, those of Transfer.   *)
(* The user changes the diskette between calls and at the driver's prompt, *)
(* which takes longer than 37 ticks.  INT 13h reports a change once: the   *)
(* first access to a new diskette fails and clears the change line.        *)
(***************************************************************************)
EXTENDS Transfer, FiniteSets

CONSTANTS
  Letters,        \* the units of the diskette drive; other units are hard disks
  Media, None,
  Serial,         \* a medium's serial number, or
  NoBoot,         \* that it has no valid boot sector
  Flat            \* media with a boot sector that says no sectors per cylinder

ASSUME LetterAssumption == Letters \subseteq Units /\ None \notin Media
ASSUME FlatAssumption == Flat \subseteq {m \in Media : Serial[m] # NoBoot}

VARIABLES
  changeline,     \* DF_CHANGELINE: the drive can tell
  inside,         \* the diskette in the drive
  line,           \* the change line is active
  late,           \* letters with 37 ticks since tmark: tdelay(37)
  cur,            \* the letter with DF_CURLOG
  dchange,        \* letters with DF_DISKCHANGE
  reformat,       \* letters with DF_REFORMAT
  serialno,       \* ddt_serialno
  dpb,            \* whose BPB the DPB was made from
  force,          \* letters with dpb_flags = M_CHANGED
  clean, dirty,   \* the media that valid buffers of a letter belong to
  stage, op,      \* what the kernel does, and for which letter
  code,           \* r_mcretcode
  because,        \* auxiliary: why it is M_CHANGED
  missed          \* auxiliary: letters of which the driver's marks, or the
                  \* change line, do not tell what was changed (see below)

drive == <<inside, line, late, cur>>
marks == <<dchange, reformat, serialno>>
cache == <<dpb, force, clean, dirty>>
answer == <<code, because>>
fvars == <<changeline, drive, marks, cache, stage, op, answer, missed>>
vars == <<tvars, fvars>>

\* Everything cached for letter d belongs to the diskette in the drive.
Fresh(d) == clean[d] \cup dirty[d] \cup {dpb[d]} \subseteq {inside}

\* The next media check of d cannot answer M_NOT_CHANGED.
Noticed(d) ==
  \/ cur # d \/ d \in reformat \cup dchange \cup force
  \/ d \in late /\ (changeline => line)

\* The serial number belongs to the DPB's medium, or nobody will compare it.
Named(d) ==
  \/ dpb[d] # None /\ Serial[dpb[d]] \in {NoBoot, serialno[d]}
  \/ d \in reformat \cup dchange \cup force

\* What makes a letter missed: nothing is left of the notice of a change,
Unseen(d) == IF Fresh(d) \/ Noticed(d) THEN {} ELSE {d}

\* the serial number is another diskette's,
Misnamed(d) == IF Named(d) THEN {} ELSE {d}

\* a diskette was not accessed, although the clock was set back, or the user was
\* asked for it to write what is unwritten: the change line stays active,
Untouched(d) ==
  IF cur = d /\ line /\ (dirty[d] # {} \/ d \notin late) THEN {d} ELSE {}

\* or a program switched to the letter, or ignored an error (Setlogdev,
\* BuildIgnored).

-----------------------------------------------------------------------------
(* The diskette.                                                           *)

\* What the user puts in when asked for letter d's diskette: the one the kernel
\* still has data for, or is working with; else any.
Wanted(d) ==
  IF dirty[d] # {} THEN dirty[d]
  ELSE IF stage \in {"use", "moving", "writing"} /\ dpb[d] # None THEN {dpb[d]}
  ELSE Media

\* A prompt for the other letter's diskette, or nothing.
play_dj(d) ==
  IF cur = d THEN UNCHANGED drive
  ELSE /\ cur' = d /\ inside' \in Wanted(d)
       /\ line' = changeline /\ late' = Letters

\* Between calls the user may change a diskette for which nothing is unwritten.
Swap ==
  /\ stage = "idle" /\ dirty[cur] = {}
  /\ inside' \in Media \ {inside}
  /\ line' = changeline /\ late' = Letters
  /\ UNCHANGED <<tvars, changeline, cur, marks, cache, stage, op, answer, missed>>

Wait ==
  /\ stage = "idle" /\ late # Letters
  /\ late' = Letters
  /\ UNCHANGED <<tvars, changeline, inside, line, cur, marks, cache, stage, op,
                 answer, missed>>

\* A drive that can tell is believed; when it cannot, or asking for the line
\* fails, nobody is that fast.
diskchange(d, told) ==
  IF cur # d \/ (told /\ line) THEN "changed"
  ELSE IF ~told /\ d \in late THEN "dont_know" ELSE "not_changed"

\* Whether fl_diskchanged tells.
Told == {changeline, FALSE}

-----------------------------------------------------------------------------
(* Transfers.                                                              *)

OnFloppy == call.unit \in Letters
Rest == <<changeline, marks, cache, stage, op, answer, missed>>

Start_NoPrompt ==
  /\ blockio
  /\ late' = late \ {call.unit}
  /\ UNCHANGED <<inside, line, cur, Rest>>

\* blockio notes the time, and LBA_Transfer asks for the right diskette.
Start ==
  /\ blockio
  /\ IF ~OnFloppy THEN UNCHANGED drive
     ELSE IF cur = call.unit
          THEN late' = late \ {call.unit} /\ UNCHANGED <<inside, line, cur>>
          ELSE play_dj(call.unit)
  /\ UNCHANGED Rest

Outside ==
  /\ OutOfRange
  /\ late' = late \ {call.unit}
  /\ UNCHANGED <<inside, line, cur, Rest>>

\* The first access to a new diskette fails, whatever it is for.
Access ==
  /\ pc = "bios"
  /\ IF OnFloppy /\ line
     THEN BiosError /\ line' = FALSE
     ELSE (BiosOk \/ BiosError) /\ UNCHANGED line
  /\ UNCHANGED <<inside, late, cur, Rest>>

Proceed ==
  /\ Chunk \/ BiosTooFar \/ Done \/ Fail \/ Retry \/ Ignore
  /\ UNCHANGED fvars

\* The call is over.
NoOp == [what |-> "none"]
Return == stage' = "idle" /\ op' = NoOp

-----------------------------------------------------------------------------
(* The driver's own requests.                                              *)

Marked_Not(d, told) == dchange

\* getbpb: a change noticed here is kept for the next mediachk.
Marked(d, told) ==
  IF diskchange(d, told) = "not_changed" THEN dchange ELSE dchange \cup {d}

getbpb(d, next) ==
  /\ \E told \in Told : dchange' = Marked(d, told)
  /\ play_dj(d)
  /\ RWzero(d, "read")
  /\ stage' = next
  /\ UNCHANGED <<reformat, serialno>>

\* The boot sector was read; one that is not valid leaves number and time alone.
\* getbpb still fails, after that, when it says no sectors per cylinder.
Read(d) ==
  /\ IF Serial[inside] = NoBoot THEN UNCHANGED <<serialno, late>>
     ELSE /\ serialno' = [serialno EXCEPT ![d] = Serial[inside]]
          /\ late' = late \ {d}
  /\ UNCHANGED <<inside, line, cur, dchange, reformat>>

Answer(c, why) == stage' = "answer" /\ code' = c /\ because' = why

mediachk ==
  /\ stage = "check"
  /\ LET d == op.d IN
     \/ /\ d \in reformat
        /\ reformat' = reformat \ {d} /\ Answer("changed", "reformat")
        /\ UNCHANGED <<tvars, drive, dchange, serialno>>
     \/ /\ d \notin reformat /\ d \in dchange
        /\ dchange' = dchange \ {d} /\ Answer("dont_know", "")
        /\ UNCHANGED <<tvars, drive, reformat, serialno>>
     \/ /\ d \notin reformat \cup dchange
        /\ \E told \in Told :
             /\ diskchange(d, told) # "dont_know"
             /\ Answer(diskchange(d, told), IF cur # d THEN "letter" ELSE "line")
        /\ play_dj(d)
        /\ UNCHANGED <<tvars, marks>>
     \/ /\ d \notin reformat \cup dchange
        /\ \E told \in Told : diskchange(d, told) = "dont_know"
        /\ code' = "dont_know" /\ because' = ""
        /\ getbpb(d, "serial")
  /\ UNCHANGED <<changeline, cache, op, missed>>

\* ... goes on when the serial number was read.
Compare ==
  /\ stage = "serial" /\ pc = "ok" /\ inside \notin Flat /\ Collect
  /\ Read(op.d)
  /\ IF serialno'[op.d] # serialno[op.d] THEN Answer("changed", "serial")
     ELSE Answer("dont_know", "")
  /\ UNCHANGED <<changeline, cache, op, missed>>

\* rqblockio asks the user; ignoring goes on with the code set before.
CompareFails ==
  /\ stage = "serial" /\ Collect
  /\ \/ pc = "error" /\ UNCHANGED <<drive, marks>>
     \/ pc = "ok" /\ inside \in Flat /\ Read(op.d)
  /\ Return \/ (stage' \in {"check", "answer"} /\ UNCHANGED op)
  /\ UNCHANGED <<changeline, cache, answer, missed>>

-----------------------------------------------------------------------------
(* media_check, continued.                                                 *)

\* r_mcretcode is not looked at again.
Heard == code' = "not_changed" /\ because' = ""

Kept_NotDirty(d) == d \notin force /\ code = "not_changed"

\* Without an answer, buffers with unwritten data are kept.
Kept(d) == d \notin force /\ (code = "not_changed" \/
                              (code = "dont_know" /\ dirty[d] # {}))

Keep ==
  /\ stage = "answer" /\ Kept(op.d)
  /\ stage' = "use" /\ Heard
  /\ UNCHANGED <<tvars, changeline, drive, marks, cache, op, missed>>

\* setinvld, then C_BLDBPB.
Rebuild ==
  /\ stage = "answer" /\ ~Kept(op.d)
  /\ clean' = [clean EXCEPT ![op.d] = {}] /\ dirty' = [dirty EXCEPT ![op.d] = {}]
  /\ getbpb(op.d, "build") /\ Heard
  /\ UNCHANGED <<changeline, dpb, force, op, missed>>

\* bpb_to_dpb.
Built ==
  /\ stage = "build" /\ pc = "ok" /\ inside \notin Flat /\ Collect
  /\ Read(op.d)
  /\ dpb' = [dpb EXCEPT ![op.d] = inside] /\ force' = force \ {op.d}
  /\ missed' = missed \ {op.d}
  /\ stage' = "use"
  /\ UNCHANGED <<changeline, clean, dirty, op, answer>>

\* The BPB that was read is of no use.
NotBuilt ==
  /\ stage = "build" /\ pc = "ok" /\ inside \in Flat /\ Collect
  /\ Read(op.d)
  /\ stage' = "unbuilt"
  /\ UNCHANGED <<changeline, cache, op, answer, missed>>

\* After an error C_BLDBPB is repeated, given up or taken for done.
BuildAgain ==
  /\ (stage = "build" /\ pc = "error") \/ stage = "unbuilt"
  /\ getbpb(op.d, "build")
  /\ UNCHANGED <<changeline, cache, op, answer, missed>>

BuildError == \/ stage = "build" /\ pc = "error" /\ Collect
              \/ stage = "unbuilt" /\ UNCHANGED tvars

\* The DPB stays as it was ...
BuildFails ==
  /\ BuildError
  /\ Return /\ missed' = missed \cup Unseen(op.d) \cup Misnamed(op.d)
  /\ UNCHANGED <<changeline, drive, marks, cache, answer>>

\* ... or, when the error is ignored, is made from the BPB that was built last,
\* for whichever letter and diskette that was.
BuildIgnored ==
  /\ BuildError
  /\ \E m \in Media \cup {None} : dpb' = [dpb EXCEPT ![op.d] = m]
  /\ force' = force \ {op.d}
  /\ missed' = missed \cup {op.d}
  /\ stage' = "use"
  /\ UNCHANGED <<changeline, drive, marks, clean, dirty, op, answer>>

-----------------------------------------------------------------------------
(* Calls.                                                                  *)

Begin(what, d, first) ==
  /\ stage = "idle" /\ stage' = first /\ op' = [what |-> what, d |-> d]
  /\ UNCHANGED <<changeline, drive, cache, answer>>

\* A call that names a path, a drive or a search: it checks the medium first.
Check(d) == Begin("path", d, "check") /\ UNCHANGED <<tvars, marks, missed>>

\* Closing or committing a file, and Get DPB, write what is unwritten.
Commit(d) == Begin("commit", d, "use") /\ dirty[d] # {}
             /\ UNCHANGED <<tvars, marks, missed>>
GetDPB(d) == Begin("getdpb", d, "use") /\ UNCHANGED <<tvars, marks, missed>>

\* Absolute reads and writes, and all work on hard disks, check nothing.
Direct(r) ==
  /\ r.who = "int25" \/ r.unit \notin Letters
  /\ Begin("direct", r.unit, "direct") /\ dskxfer(r)
  /\ UNCHANGED <<marks, missed>>

DirectEnds ==
  /\ stage = "direct" /\ Collect
  /\ Return
  /\ missed' = missed \cup (IF op.d \in Letters
                            THEN Unseen(op.d) \cup Untouched(op.d) ELSE {})
  /\ UNCHANGED <<changeline, drive, marks, cache, answer>>

\* IOCTL 66h: the serial number is read for a program.
GetSerial(d) ==
  /\ stage = "idle" /\ op' = [what |-> "serial", d |-> d]
  /\ getbpb(d, "ioctl")
  /\ UNCHANGED <<changeline, cache, answer, missed>>

GetSerialEnds ==
  /\ stage = "ioctl" /\ Collect
  /\ Return
  /\ IF pc = "ok" THEN Read(op.d) ELSE UNCHANGED <<drive, marks>>
  /\ UNCHANGED <<changeline, cache, answer, missed>>

\* IOCTL 40h, set device parameters.
SetParameters(d) ==
  /\ stage = "idle" /\ reformat' = reformat \cup {d}
  /\ UNCHANGED <<tvars, changeline, drive, dchange, serialno, cache, stage,
                 op, answer, missed>>

\* INT 21h/440Fh: the letter changes without a prompt.
Setlogdev(d) ==
  /\ stage = "idle" /\ cur # d
  /\ cur' = d
  /\ UNCHANGED <<tvars, changeline, inside, line, late, marks, cache, stage, op,
                 answer>>
  /\ missed' = missed \cup (IF /\ dirty[d] = {} /\ (line => d \in late)
                               /\ Fresh(d) \/ Noticed(d)'
                            THEN {} ELSE {d})

\* A checked call reads blocks, ...
GetBlock(r) ==
  /\ stage = "use" /\ op.what = "path"
  /\ r.who = "kernel" /\ r.mode = "read" /\ r.unit = op.d
  /\ dskxfer(r) /\ stage' = "moving"
  /\ UNCHANGED <<changeline, drive, marks, cache, op, answer, missed>>

\* A transfer that fails ends the call.
GoOn == IF pc = "error" THEN Return ELSE stage' = "use" /\ UNCHANGED op

GotBlock ==
  /\ stage = "moving" /\ Collect
  /\ GoOn
  /\ clean' = IF pc = "ok" THEN [clean EXCEPT ![op.d] = @ \cup {inside}] ELSE clean
  /\ UNCHANGED <<changeline, drive, marks, dpb, force, dirty, answer, missed>>

\* ... changes them in the buffers, ...
Modify ==
  /\ stage = "use" /\ op.what = "path"
  /\ \E m \in clean[op.d] : /\ dirty[op.d] \subseteq {m}
                              /\ dirty' = [dirty EXCEPT ![op.d] = {m}]
  /\ UNCHANGED <<tvars, changeline, drive, marks, dpb, force, clean, stage, op,
                 answer, missed>>

\* ... and writes them: any letter's, when a buffer is needed, or its own.
flush1(r) ==
  /\ stage = "use"
  /\ r.who = "kernel" /\ r.mode = "write" /\ r.unit \in Letters
  /\ dirty[r.unit] # {}
  /\ op.what = "path" \/ r.unit = op.d
  /\ dskxfer(r) /\ stage' = "writing"
  /\ UNCHANGED <<changeline, drive, marks, cache, op, answer, missed>>

\* A block that could not be written is given up.
Written ==
  /\ stage = "writing" /\ Collect
  /\ LET e == call.unit IN
     /\ dirty' = [dirty EXCEPT ![e] = {}]
     /\ clean' = IF pc = "error" THEN clean
                 ELSE [clean EXCEPT ![e] = @ \cup dirty[e]]
  /\ GoOn
  /\ UNCHANGED <<changeline, drive, marks, dpb, force, answer, missed>>

\* The call is over; Get DPB goes on to a media check that it forces.
Finish ==
  /\ stage = "use" /\ (op.what = "path" \/ dirty[op.d] = {})
  /\ IF op.what = "getdpb"
     THEN /\ force' = force \cup {op.d} /\ stage' = "check"
          /\ op' = [what |-> "dpb", d |-> op.d]
     ELSE Return /\ UNCHANGED force
  /\ UNCHANGED <<tvars, changeline, drive, marks, dpb, clean, dirty, answer, missed>>

-----------------------------------------------------------------------------

Init ==
  /\ TransferInit
  /\ changeline \in BOOLEAN /\ inside \in Media /\ line = FALSE
  /\ late = {} /\ cur \in Letters
  /\ dchange = {} /\ reformat = {} /\ serialno = [d \in Letters |-> None]
  /\ dpb = [d \in Letters |-> None]
  /\ force = Letters
  /\ clean = [d \in Letters |-> {}] /\ dirty = [d \in Letters |-> {}]
  /\ stage = "idle" /\ op = NoOp
  /\ code = "not_changed" /\ because = "" /\ missed = {}

Driver == mediachk \/ Compare \/ CompareFails \/ Keep \/ Rebuild \/ Built
          \/ NotBuilt \/ BuildAgain \/ BuildFails \/ BuildIgnored

Call(d) == Check(d) \/ Commit(d) \/ GetDPB(d) \/ GetSerial(d) \/ SetParameters(d)
           \/ Setlogdev(d)

Work(r) == Direct(r) \/ GetBlock(r) \/ flush1(r)

Next == \/ Swap \/ Wait \/ Start \/ Outside \/ Access \/ Proceed \/ Driver
        \/ \E d \in Letters : Call(d)
        \/ \E r \in Requests : Work(r)
        \/ DirectEnds \/ GetSerialEnds \/ GotBlock \/ Modify \/ Written \/ Finish

Spec == Init /\ [][Next]_vars

-----------------------------------------------------------------------------

TypeOK ==
  /\ pc \in {"idle", "blockio", "loop", "bios", "failed"} \cup Outcomes
  /\ call \in Calls \cup {NoCall}
  /\ num_retries \in 0..N_RETRY /\ bounced \in BOOLEAN
  /\ inside \in Media /\ cur \in Letters /\ line \in {FALSE, changeline}
  /\ late \subseteq Letters /\ dchange \subseteq Letters /\ reformat \subseteq Letters
  /\ force \subseteq Letters /\ missed \subseteq Letters
  /\ \A d \in Letters : Cardinality(dirty[d]) <= 1
  /\ code \in {"not_changed", "dont_know", "changed"}

\* After a change of diskettes nothing of the old one is used: what the kernel has
\* cached for a letter belongs to the diskette in the drive, or the next media
\* check cannot overlook that it does not, and a call that passed its media check
\* works with the diskette it was told of.  The change line, the clock, the two
\* letters, forced rebuilds and getbpb's DF_DISKCHANGE work together for this.
\* Letters are excepted after an access without media check, or an error in
\* C_BLDBPB, that took the only notice of the change (missed).
CacheTrue ==
  \A d \in Letters \ missed :
     /\ stage = "idle" => Fresh(d) \/ Noticed(d)
     /\ (stage = "use" /\ op.what = "path" /\ op.d = d /\ cur = d) => Fresh(d)

\* Unwritten data of a letter goes to the diskette it belongs to, however often
\* the letters take turns while it waits.
WritesRight ==
  (pc = "bios" /\ stage = "writing" /\ call.unit \notin missed) =>
     dirty[call.unit] = {inside}

\* media_check gives up unwritten data only when the letter was not current or the
\* parameters were set; never because of time, the change line or a serial number.
DropsOnly ==
  (stage = "answer" /\ ~Kept(op.d) /\ dirty[op.d] # {} /\ op.d \notin missed) =>
     because \in {"letter", "reformat"}
=============================================================================
