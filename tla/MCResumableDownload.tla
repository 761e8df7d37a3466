------------------------- MODULE MCResumableDownload -------------------------
(* Instances of ResumableDownload for TLC: an object of two buffers that is *)
(* overwritten by a longer one, and two destinations, one of which exists.  *)
EXTENDS ResumableDownload

CONSTANTS a, b, d1, d2

MCByte == {a, b}
MCContents == {<<a, b>>, <<b, b, a>>}
MCForeign == {<<>>, <<b>>, <<a, a, a>>}
=============================================================================
