------------------------------ MODULE MCEvents ------------------------------
(* Model-checking instances of StellarTipEvents: the sets a cfg cannot      *)
(* write.  D is a contract that is not StellarTip.                          *)
EXTENDS StellarTipEvents

CONSTANTS alice, bob, C, D, O, Z

MCMinimums == {0, 1}
MCAdmins == {alice, bob}
MCRecipients == {bob}
MCNobody == {}
MCTargets == {C, D}

\* No entry point and no property reads a record beyond a creator's TipCount:
\* states that differ only in those have the same successors up to them.
WithoutStaleRecords ==
    <<config, registry, TipCount, Balance, CreatorTokens, tokenBalance,
      {<<key, Tip[key]>> : key \in {k \in DOMAIN Tip : k[2] < get_tip_count(k[1])}},
      copy>>

==============================================================================
