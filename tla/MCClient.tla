------------------------------ MODULE MCClient ------------------------------
(* One client for TLC; the constants are given in the configurations.       *)
EXTENDS ClientClaims
=============================================================================
