----------------------------- MODULE MCRejections -----------------------------
(* Model-checking instances of TokenRejections: the sets a cfg cannot write. *)
EXTENDS TokenRejections

CONSTANTS alice, bob, C, Z, t1, t2

MCNobody == {}
MCRecipients == {bob}

\* bob may be supporter, creator or fee recipient of t1, and in t2 the contract
\* itself may be held up; alice and the rest are always free.
MCHoldings == {<<bob, t1>>, <<C, t2>>}

\* No entry point and no property of these runs reads a record.
WithoutRecords ==
    <<config, registry, TipCount, Balance, CreatorTokens, tokenBalance,
      frozen, rejected>>

==============================================================================
