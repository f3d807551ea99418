------------------------------ MODULE MCFloppy ------------------------------
(***************************************************************************)
(* Floppy for TLC: two letters and three hard disks, one of which takes    *)
(* any buffer and one has no LBA; addresses in half sectors, pages of four *)
(* sectors, and a number_of_blocks below 10.                               *)
(***************************************************************************)
EXTENDS Floppy

Diskette == [secs |-> 3, chsEnd |-> 6, first |-> 0, size |-> 6,
             lba |-> FALSE, transparent |-> FALSE]
Disk(all) == [secs |-> 3, chsEnd |-> 6, first |-> 3, size |-> 6,
              lba |-> TRUE, transparent |-> all]
Geometries == <<Diskette, Diskette, Disk(FALSE), [Disk(TRUE) EXCEPT !.size = 12],
                [Disk(FALSE) EXCEPT !.lba = FALSE, !.chsEnd = 7]>>

Ask(who, u, m, b, s, n) ==
  [who |-> who, unit |-> u, mode |-> m, buf |-> b, start |-> s, n |-> n]

\* Floppies: single sectors, also for upper memory, two for an absolute write,
\* none for an absolute read.
\* Disks: chunks that end with a page, with a track, between pages and above
\* conventional memory, and counts that are cut to none, to one, and not at all,
\* being for upper memory.
FewRequests ==
  {Ask("kernel", 1, "read", 8, 1, 1), Ask("kernel", 2, "read", 8, 2, 1),
   Ask("kernel", 1, "write", 17, 2, 1), Ask("kernel", 2, "write", 8, 2, 1),
   Ask("int25", 2, "write", 15, 2, 2), Ask("int25", 1, "read", 8, 0, 0)}
  \cup {Ask("kernel", 3, "read", 5, 1, 4), Ask("int25", 3, "read", 17, 6, 1),
        Ask("int25", 3, "write", 13, 3, 2),
        Ask("kernel", 4, "read", 5, 1, 4), Ask("kernel", 5, "verify", 5, 1, 4),
        Ask("kernel", 5, "read", 8, 1, 4), Ask("kernel", 3, "read", 17, 1, 2),
        Ask("int25", 4, "read", 5, 1, 10), Ask("int25", 4, "write", 5, 1, 11),
        Ask("int25", 4, "read", 17, 1, 10)}

\* The disks are looked at before the floppies, and a letter that missed a change
\* is not followed further; parameters are set for A: only, where the drive cannot
\* tell, and not looked at from B: after a mark; nothing is read only where it can
\* tell; the diskettes with no valid boot sector, or one that says nothing, are used
\* in A: while nothing is known of B:, the latter where the drive cannot tell; and
\* so is the serial number after asking for the line failed.
Bound ==
  /\ missed = {} /\ reformat \subseteq {1}
  /\ reformat # {} => dchange = {} \/ cur = 1
  /\ stage = "direct" /\ op.d \notin Letters =>
       force = Letters /\ late = {} /\ dchange \cup reformat = {}
  /\ stage = "direct" /\ call.n = 0 => changeline
  /\ {"c", "d"} \cap {inside, dpb[1], dpb[2]} # {} =>
       cur = 1 /\ dpb[2] = None /\ reformat = {}
  /\ inside = "d" => ~changeline /\ op.what # "direct"
  /\ changeline => reformat = {}
  /\ changeline /\ stage = "serial" => op.d = 1 /\ dpb[2] = None

Serials == [a |-> 1, b |-> 2, c |-> 0, d |-> 4]
=============================================================================
