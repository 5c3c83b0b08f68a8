------------------------------ MODULE MCClient ------------------------------
(* Model-checking instances of TipClient: the sets a cfg cannot write.      *)
EXTENDS TipClient

CONSTANTS alice, bob, C, Z, u1, short, t1

MCNobody == {}
MCRecipients == {bob}

==============================================================================
