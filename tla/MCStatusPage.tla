---------------------------- MODULE MCStatusPage ----------------------------
(* Instances of StatusPage for TLC.                                        *)
EXTENDS StatusPage, TLC

CONSTANTS g1, g2, t1, t2, m1, m2, s1, s2, w1, w2, v1

MCBudgets ==
  {[writes |-> 3, tags |-> 3, checks |-> 0, faults |-> 1],
   [writes |-> 1, tags |-> 2, checks |-> 5, faults |-> 0],
   [writes |-> 1, tags |-> 3, checks |-> 2, faults |-> 1]}

MCSymmetry ==
  Permutations({w1, w2}) \cup Permutations({g1, g2}) \cup Permutations({s1, s2})
  \cup Permutations({t1, t2}) \cup Permutations({m1, m2})
=============================================================================
