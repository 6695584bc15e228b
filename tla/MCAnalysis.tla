----------------------------- MODULE MCAnalysis -----------------------------
(***************************************************************************)
(* Two events of two venues.  The first has two chunks of text; the second *)
(* is saved in two revisions, the later one with a chunk that the first    *)
(* event has as well, and calls for a formal interpretation.               *)
(***************************************************************************)
EXTENDS Analysis

CONSTANTS k, p

TwoEvents == 1..2
TwoVenues == <<k, p>>
TwoTexts == <<<<{1, 2}>>, <<{3}, {2}>>>>
OnlySecond == {2}
==============================================================================
