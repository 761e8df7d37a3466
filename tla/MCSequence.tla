----------------------------- MODULE MCSequence -----------------------------
(***************************************************************************)
(* A small instance of Sequence: three clients that start from 0, 1 or 3.  *)
(***************************************************************************)
EXTENDS Sequence

MCGivenInits == {3}
=============================================================================
