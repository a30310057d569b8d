------------------------------ MODULE MCSignIn ------------------------------
(* Constants for model-checking SignIn. *)
EXTENDS SignIn

\* One login from two addresses.
TwoAddresses == {[login |-> "ann", address |-> "a1"], [login |-> "ann", address |-> "a2"]}
=============================================================================
