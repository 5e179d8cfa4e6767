------------------------------ MODULE MCTyping ------------------------------
(* One chat for TLC; the constants are given in the configurations. *)
EXTENDS TypingProperties
=============================================================================
