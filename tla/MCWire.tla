------------------------------- MODULE MCWire -------------------------------
(* Instances of Wire for TLC. *)
EXTENDS WireProperties

ThreeLines == <<2, 3, 2>>
=============================================================================
