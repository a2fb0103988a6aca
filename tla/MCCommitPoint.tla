---------------------------- MODULE MCCommitPoint ----------------------------
(***************************************************************************)
(* Instances of CommitPoint for TLC.                                       *)
(***************************************************************************)
EXTENDS CommitRefinement, TLC

CONSTANTS a, b, c

Members == {a, b, c}
AnyMember == Permutations(Members)

\* Where the properties say nothing more, the search ends.
NotAstray == Straight
=============================================================================
