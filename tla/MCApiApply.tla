----------------------------- MODULE MCApiApply -----------------------------
(***************************************************************************)
(* Instances of ApiApply for TLC.                                          *)
(***************************************************************************)
EXTENDS ApiApply

\* Two specs that differ in an immutable field.
Moved == {[imm |-> "p1", mut |-> "t1"], [imm |-> "p2", mut |-> "t1"]}

\* What another client may have made: unlabelled, with other immutable fields, or
\* labelled and drifted, as an earlier release of the operator would leave it.
OthersObjects ==
    {[owner |-> 0, labelled |-> FALSE, imm |-> "foreign", mut |-> "foreign"],
     [owner |-> 0, labelled |-> TRUE, imm |-> "p2", mut |-> "foreign"]}

AllHelpers == Helpers
=============================================================================
