-------------------------------- MODULE MCHub --------------------------------
(* Instances of Hub for TLC: clients are model values. *)
EXTENDS Hub

=============================================================================
