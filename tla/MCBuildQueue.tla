---------------------------- MODULE MCBuildQueue ----------------------------
(* Instances of BuildQueue for TLC. *)
EXTENDS BuildQueue, TLC

CONSTANTS p1, p2, i1, i2, i3, b1, b2, v1

(* A batch of two images, created before a batch of one. *)
TwoThenOne    == (i1 :> b1) @@ (i2 :> b1) @@ (i3 :> b2)
OneBatchOfTwo == (i1 :> b1) @@ (i2 :> b1)

(* All batches number the same Version, where they can disturb each other. *)
SameVersion   == [b \in Batches |-> v1]

InOrder       == [i \in Images |-> CASE i = i1 -> 1 [] i = i2 -> 2 [] i = i3 -> 3]
=============================================================================
