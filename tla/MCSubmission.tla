----------------------------- MODULE MCSubmission -----------------------------
(* Commands on one plain file, one sweep, one override file of two         *)
(* variants, an override with a sweep, a sweep that expands to nothing,    *)
(* and directories of these; dry runs of the last.                         *)
EXTENDS Submission

CONSTANTS c1, c2, c3, j1, j2, j3

Single(c) == [kind |-> "single", configs |-> <<c>>]
Variant(c) == [kind |-> "variant", configs |-> <<c>>]
SweepOf(configs) == [kind |-> "sweep", configs |-> configs]

OnFile(batches) == [directory |-> FALSE, dry_run |-> FALSE, files |-> <<batches>>]
OnDirectory(dry, files) == [directory |-> TRUE, dry_run |-> dry, files |-> files]

Directory == <<<<Variant(c1), SweepOf(<<c2, c3>>)>>, <<Single(c2)>>>>

MCCommands ==
    {OnFile(<<Single(c1)>>), OnFile(<<SweepOf(<<c1, c2>>)>>),
     OnFile(<<Variant(c1), Variant(c2)>>), OnFile(<<SweepOf(<<>>)>>)}
    \cup {OnDirectory(dry, Directory) : dry \in BOOLEAN}
    \cup {OnDirectory(FALSE, <<<<SweepOf(<<>>)>>, <<Variant(c1), Variant(c2)>>, <<>>>>)}
=============================================================================
