---------------------------- MODULE MCHaplyBridge ----------------------------
(***************************************************************************)
(* Values for TLC.  The envelope treats translation, rotation and the      *)
(* nullspace joint alike and independently, so each run opens one of the   *)
(* three channels and holds the others at a single value.                  *)
(***************************************************************************)
EXTENDS HaplyBridge, TLC

\* One channel open: a line long enough to start outside the box, be inside
\* it, and be out of reach of one error bound.
Line == 0..4
Pair == 0..1
Still == {0}
Ends == {0, 2}
Nothing == {None}

\* Joint angles reach the limit (2); requests go beyond it.
Angles == -2..2
AngleRequests == {-4, 0, 4, None, Bad}

\* The ids are only compared with one another.
Ids == Permutations(EngageIds)
=============================================================================
