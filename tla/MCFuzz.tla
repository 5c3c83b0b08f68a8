-------------------------------- MODULE MCFuzz --------------------------------
(* Model-checking instance of FuzzHarness: the sets a cfg cannot write.     *)
EXTENDS FuzzHarness

CONSTANTS admin, recipient, c1, c2, tipper, C, Z, t1

MCNobody == {}
MCRecipients == {recipient}

\* No entry point and no property reads a Tip record.
WithoutRecords ==
    <<config, registry, TipCount, Balance, CreatorTokens, tokenBalance,
      oracle, pending>>

==============================================================================
