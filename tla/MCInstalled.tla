---------------------------- MODULE MCInstalled ----------------------------
(***************************************************************************)
(* Two roots, a user whose name ends with the other's, and a password with *)
(* a quote.  Visits, entries and operations have their own bounds and one  *)
(* together, so that many of one kind do not meet many of all the others.  *)
(***************************************************************************)
EXTENDS Installed, TLC

\* "joann ALL=(ALL) ALL" contains "ann ALL=(ALL) ALL".
MCEndsWith == {<<"joann", "ann">>}

\* Bound: one visit and entry with three operations, two of each with one.
MaxSteps == 5
Budget == visits + entered + ops <= MaxSteps

\* No rule of the pages prefers a root.
Symmetry == Permutations(Root)
=============================================================================
