------------------------------ MODULE MCMemMgr ------------------------------
(***************************************************************************)
(* MemMgr for TLC, with MemArena as the specification it implements.       *)
(***************************************************************************)
EXTENDS MemMgr

\* Without upper memory, where blocks lie side by side in one piece, one program
\* runs, and leaves the strategy alone.
Bound == HasUmb \/ (cu_psp = 1 /\ mem_access_mode = 0)

\* During a call programs still see what there was when it began.
Seen == IF pc \in {"idle", "done"}
        THEN [blocks |-> Owned, link |-> uppermem_link, mode |-> mem_access_mode]
        ELSE snap

Arena == INSTANCE MemArena WITH blocks <- Seen.blocks, uppermem_link <- Seen.link,
                                mem_access_mode <- Seen.mode

\* Every call, with all the steps it takes, is one call of MemArena: blocks go
\* where the strategy says, no other block changes, refused calls report the
\* right size, and strategy and link state come back as they were.
ArenaSpec == Arena!Spec

=============================================================================
