---------------------------- MODULE MCFmtStream ----------------------------
(* FmtStream for TLC: a letter, a line feed, a blank and a tabulator. *)
EXTENDS FmtStream

MCMargins == {0, 2}
=============================================================================
