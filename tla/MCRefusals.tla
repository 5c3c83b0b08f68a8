----------------------------- MODULE MCRefusals -----------------------------
(* Model-checking instances of StellarTipRefusals: the sets a cfg cannot    *)
(* write, two of them with an element the contract rejects.                 *)
EXTENDS StellarTipRefusals

CONSTANTS alice, bob, C, Z

MCMinimums == {-1, 0}
MCAdmins == {alice, bob}
MCRecipients == {bob, C}
MCNobody == {}

==============================================================================
