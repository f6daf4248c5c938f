------------------------ MODULE MCProjectionStreams ------------------------
(***************************************************************************)
(* Instances of ProjectionStreams for TLC.  The tree of both runs: a root  *)
(* 1, a branch 2 with a leaf 3, and another leaf 4.                        *)
(***************************************************************************)
EXTENDS ProjectionStreams, TLC

MCInitParent == <<0, 1, 2, 1>>

Updating(n) == [kind |-> "update", node |-> n]
Removing(n) == [kind |-> "remove", node |-> n]

\* Changes inside and outside the branch, and the end of the branch.
MCChanges == {Updating(3), Updating(4), Removing(2)}
MCAllChanges == {Updating(3), Updating(4), Removing(2), Removing(3)}
=============================================================================
