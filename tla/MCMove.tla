------------------------------- MODULE MCMove -------------------------------
(***************************************************************************)
(* A small instance of Move: four keys of which three match, and two of    *)
(* these share the last component of their names; one process with one or  *)
(* two threads, or two processes of one thread.                            *)
(***************************************************************************)
EXTENDS Move

MCKeys == 1..4
MCMatches == {1, 2, 4}
MCName == <<1, 2, 3, 2>>
MCConfigs == {<<1, 1>>, <<1, 2>>, <<2, 1>>}
=============================================================================
