----------------------------- MODULE MCSession -----------------------------
(* Instances of Session for TLC.                                           *)
EXTENDS Session, TLC

CONSTANTS u1, u2, b1, b2, p1, p2

MCBudgets ==
  {[time |-> 1, setups |-> 2, logins |-> 2, refreshes |-> 1, logouts |-> 1,
    changes |-> 2, drops |-> 0],
   [time |-> 4, setups |-> 1, logins |-> 1, refreshes |-> 3, logouts |-> 1,
    changes |-> 1, drops |-> 0],
   [time |-> 1, setups |-> 1, logins |-> 2, refreshes |-> 2, logouts |-> 1,
    changes |-> 0, drops |-> 1]}

MCSymmetry == Permutations({p1, p2}) \cup Permutations({b1, b2})
=============================================================================
