---------------------------- MODULE MCPackJobs ----------------------------
(* Instances of PackJobs for TLC: the bounds are given in the .cfg file. *)
EXTENDS PackJobs

CONSTANTS ana, ben, i1, i2, i3

\* One owner with enough downloads to pass the limit, and a second one.  i2 is
\* i1 under another name, i3 is i1 as an automatic download.
MCOwners == {ana, ben}
MCInputs == {i1, i2, i3}
MCAsks == [w \in MCOwners |-> IF w = ana THEN {i1, i2} ELSE {i1, i3}]
MCArea == [i \in MCInputs |-> IF i = i3 THEN i3 ELSE i1]
MCPlain == [i \in MCInputs |-> IF i = i3 THEN i1 ELSE i]
=============================================================================
