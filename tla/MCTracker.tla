------------------------------ MODULE MCTracker ------------------------------
(* Model values and symmetry for the runs of Tracker.  n2 is a name that is   *)
(* too long for RenamedPayload, n1 is its beginning, and n3 fits.             *)
EXTENDS Tracker, TLC

CONSTANTS n1, n2, n3

LongName == [n \in Name |-> IF n = n2 THEN n1 ELSE n]

ShortNames == [n \in Name |-> n]

Symmetry ==
  Permutations(Thread) \cup Permutations(Addr) \cup Permutations(VTable)
=============================================================================
