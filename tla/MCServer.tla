------------------------------- MODULE MCServer -------------------------------
(* Instances of MessengerServer for TLC. *)
EXTENDS ServerClaims, TLC

CONSTANTS alice, bob, carol, bobNul,   \* names; bobNul is "bob\0..."
          emailA, emailB, emailC, hashA, hashB, secretA, secretB

MCColumnText == [n \in Names |-> IF n = bobNul THEN bob ELSE n]
MCHashOf == [p \in Passwords |-> IF p = secretA THEN hashA ELSE hashB]

Alice == [username |-> alice, email |-> emailA, password_hash |-> hashA]
Bob   == [username |-> bob,   email |-> emailB, password_hash |-> hashB]
Carol == [username |-> carol, email |-> emailC, password_hash |-> hashA]

NoUsers  == << >>
TwoUsers == <<Alice, Bob>>
ThreeUsers == <<Alice, Bob, Carol>>

Symmetry == Permutations(Sessions)
=============================================================================
