----------------------------- MODULE MCBootMem -----------------------------
(* Machines with 64 MB, 128 MB, 896 MB, one page more, 2 GB and 6 GB, as     *)
(* their firmware reports them; one with two neighbouring entries, and one   *)
(* that lists its memory from the top.  The word is scaled to what TLC can   *)
(* add; the frame counts are real.                                           *)
EXTENDS BootMem

Entry(f, e, a) == [test |-> f, first |-> f, end |-> e, available |-> a]
Low == <<Entry(0, 159, TRUE), Entry(159, 256, FALSE)>>
UpTo(top) == Low \o <<Entry(256, top, TRUE), Entry(top, top + 32, FALSE)>>
MCMemMaps ==
  {UpTo(top) : top \in {16352, 32736, 229376, 229377, 524256}} \cup
  {Low \o <<Entry(256, 786400, TRUE), Entry(786400, 1048576, FALSE), Entry(1048576, 1572864, TRUE)>>,
   Low \o <<Entry(256, 4096, TRUE), Entry(4096, 32736, TRUE)>>,
   <<Entry(4096, 32736, TRUE), Entry(256, 3840, TRUE)>> \o Low}
MCKernels == {300, 512}
=============================================================================
