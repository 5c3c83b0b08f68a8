------------------------------ MODULE MCLifetime ------------------------------
(* Model-checking instance of StorageLifetime: the sets a cfg cannot write. *)
EXTENDS StorageLifetime

CONSTANTS alice, C, Z

MCNobody == {}
MCRecipients == {alice}

\* What a Tip record says is read by nothing here; that it exists is.
WithoutRecords ==
    <<config, registry, TipCount, Balance, CreatorTokens, tokenBalance, lifetime>>

==============================================================================
