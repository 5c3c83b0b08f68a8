----------------------------- MODULE MCRebasing -----------------------------
(* Model-checking instances of RebasingCustody: the sets a cfg cannot       *)
(* write.  The factors are those the repository's tests use.                *)
EXTENDS RebasingCustody

CONSTANTS alice, bob, C, Z

MCDeposits == {C}
MCNobody == {}
MCRecipients == {bob}
MCFactors == {<<1, 1>>, <<2, 1>>, <<1, 2>>, <<0, 1>>}

\* No entry point and no property reads a Tip record.
WithoutRecords ==
    <<config, registry, TipCount, Balance, CreatorTokens, tokenBalance,
      tokenVars>>

==============================================================================
