-------------------------- MODULE MCResumableUpload --------------------------
(* Instances of ResumableUpload for TLC: a file of two buffers that may be  *)
(* edited, truncated or extended.                                          *)
EXTENDS ResumableUpload

CONSTANTS a, b

MCByte == {a, b}
MCFiles == {<<>>, <<a, b>>, <<b, b>>}
=============================================================================
