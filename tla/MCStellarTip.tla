---------------------------- MODULE MCStellarTip ----------------------------
(* Model-checking instances of StellarTip: the sets a cfg cannot write.     *)
EXTENDS StellarTipRefinement, StellarTipErrors, TLC

CONSTANTS alice, bob, C, Z

MCMinimums == {-1, 0, 2}
MCNobody == {}
MCRecipients == {alice, C}
MCAllRecipients == {alice, bob, C, Z}
MCSuccessors == {alice, C, Z}

\* Usernames and tokens are named by no input set and chosen by no operator.
Symmetry == Permutations(Username) \cup Permutations(Token)

\* No entry point reads a Tip record, so states that differ only in the records
\* have the same successors up to the records: the money runs, whose properties
\* look at no record but the one a step writes, identify them.
WithoutRecords ==
    <<config, registry, TipCount, Balance, CreatorTokens, tokenBalance>>

==============================================================================
