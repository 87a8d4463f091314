--------------------------- MODULE MCExcitePlayer ---------------------------
(***************************************************************************)
(* Values for TLC: a short plan for an arm whose tip moves with its joint. *)
(***************************************************************************)
EXTENDS ExcitePlayer

Angles == 0..2

\* One unit of joint travel is one unit of tip travel.
StraightTip == [q \in Angles |-> [position |-> q, rotation |-> 0]]

\* The plan starts in the middle and ends where a joint is near its stop.
ThreeSamples == <<0, 1, 2>>
=============================================================================
