----------------------------- MODULE MCSettings -----------------------------
(* Instances of Settings for TLC: the environment sets a host and nothing   *)
(* else; one submission fills every field, one leaves the port to the      *)
(* default, one keeps the password, blanks the host and has a negative     *)
(* port, which is what old is there.                                       *)
EXTENDS Settings, TLC

CONSTANTS env, new, old, h1, h2, x1

Form(host, port, user, password, from) ==
  [f \in Fields |-> CASE f = "host" -> host [] f = "port" -> port
                      [] f = "user" -> user [] f = "password" -> password
                      [] f = "from" -> from]

MCEnv == Form(env, Default, Blank, Blank, Blank)

MCSubmitted == {Form(new, new, new, new, new), Form(old, Blank, old, old, old),
                Form(Blank, old, new, Masked, Blank)}

MCBudgets ==
  {[puts |-> 3, zones |-> 1, reads |-> 0, faults |-> 1, restarts |-> 1],
   [puts |-> 2, zones |-> 0, reads |-> 7, faults |-> 1, restarts |-> 1]}

MCSymmetry == Permutations({h1, h2})
=============================================================================
