----------------------------- MODULE MCCoverage -----------------------------
(* Small projects for TLC.                                                 *)
EXTENDS Coverage

CONSTANTS r1, r2, r3

\* A file with a region, one with none (a root), one with two.
Files == <<<<r1>>, <<>>, <<r2, r3>>>>
=============================================================================
