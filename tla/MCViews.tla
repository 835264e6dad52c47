------------------------------- MODULE MCViews -------------------------------
(* Two contents, two overlapping flushes and claims; two tabs, two windows, *)
(* two buttons pressed at once.  These are the same two values everywhere: *)
(* no behaviour changes two parts, so one permutation serves them all.     *)
EXTENDS Views, TLC

Symmetry == Permutations(Docs)
=============================================================================
