------------------------- MODULE StorageLifetimeProofs -------------------------
(***************************************************************************)
(* Proofs that the TTL extensions of the contract keep what a tipped       *)
(* creator needs alive, for every value of the constants.                  *)
(***************************************************************************)
EXTENDS StorageLifetime, StellarTipRefinementProofs

------------------------------------------------------------------------------
(* How long one entry lasts.                                               *)

\* Enough ledgers are left to outlive TTL_THRESHOLD ledgers after a tip that
\* is age ledgers old.
Fresh(left, age) == left > TTL_THRESHOLD - age

FreshIn(map, key, age) == key \in DOMAIN map => Fresh(map[key], age)

\* Every entry of the map has a number of ledgers left.
Counted(map) == \A key \in DOMAIN map : map[key] \in Nat

\* Every entry of next is at least as fresh as it was in map, or is new.
NoLessFresh(map, next) ==
    /\ Counted(next)
    /\ \A k : \A age \in Nat : FreshIn(map, k, age) => FreshIn(next, k, age)

\* An extension leaves more than the threshold and never takes ledgers away.
LEMMA ExtensionGain ==
    ASSUME NEW left \in Nat
    PROVE  /\ extend_ttl(left) \in Nat
           /\ extend_ttl(left) > TTL_THRESHOLD
           /\ extend_ttl(left) >= left
BY LifetimeAssumption DEF extend_ttl

\* A write with its extension leaves one entry with more than the threshold
\* and the others as they were.
LEMMA SetExtendedFresh ==
    ASSUME NEW map, Counted(map), NEW key
    PROVE  /\ NoLessFresh(map, SetExtended(map, key))
           /\ DOMAIN SetExtended(map, key) = DOMAIN map \cup {key}
           /\ SetExtended(map, key)[key] > TTL_THRESHOLD
<1> DEFINE left == extend_ttl(GetOr(map, key, MIN_TTL))
<1>1. left \in Nat /\ left > TTL_THRESHOLD
    BY LifetimeAssumption, ExtensionGain DEF GetOr, Counted
<1>2. SetExtended(map, key) = Put(map, key, left)
    BY DEF SetExtended
<1> HIDE DEF left
<1>3. /\ DOMAIN Put(map, key, left) = DOMAIN map \cup {key}
      /\ \A k \in DOMAIN map \cup {key} :
            Put(map, key, left)[k] = IF k = key THEN left ELSE map[k]
    BY DEF Put
<1>4. Counted(Put(map, key, left))
    BY <1>1, <1>3 DEF Counted
<1>5. ASSUME NEW k, NEW age \in Nat, FreshIn(map, k, age)
      PROVE  FreshIn(Put(map, key, left), k, age)
    BY <1>1, <1>3, <1>5, LifetimeAssumption DEF FreshIn, Fresh
<1> QED
    BY <1>1, <1>2, <1>3, <1>4, <1>5 DEF NoLessFresh

\* Removing an entry disturbs no other.
LEMMA RemoveFresh ==
    ASSUME NEW map, Counted(map), NEW key
    PROVE  NoLessFresh(map, Remove(map, key))
BY DEF NoLessFresh, Remove, Counted, FreshIn

\* One ledger more on the age, one ledger less on every entry.
LEMMA OlderFresh ==
    ASSUME NEW map, Counted(map)
    PROVE  /\ Counted(Older(map))
           /\ \A k : \A age \in Recent :
                 FreshIn(map, k, age) => FreshIn(Older(map), k, age + 1)
BY LifetimeAssumption DEF Older, OneLedgerOlder, Counted, FreshIn, Fresh, Recent

\* A restoration touches archived entries only, and those are not fresh.
LEMMA RestoredFresh ==
    ASSUME NEW map, Counted(map), NEW restored \in Restored(map)
    PROVE  /\ Counted(restored)
           /\ \A k : \A age \in Recent :
                 FreshIn(map, k, age) => FreshIn(restored, k, age)
<1>1. CASE restored = map
    BY <1>1
<1>2. ASSUME NEW key \in DOMAIN map, map[key] = 0,
             restored = [map EXCEPT ![key] = MIN_TTL]
      PROVE  /\ Counted(restored)
             /\ \A k : \A age \in Recent :
                   FreshIn(map, k, age) => FreshIn(restored, k, age)
    BY <1>2, LifetimeAssumption DEF Counted, FreshIn, Fresh, Recent
<1> QED
    BY <1>1, <1>2 DEF Restored

------------------------------------------------------------------------------
(* The inductive invariant.                                                *)

LifetimeTypeOK ==
    /\ instanceLife \in Nat
    /\ Counted(TipCountLife)
    /\ Counted(BalanceLife)
    /\ Counted(CreatorTokensLife)
    /\ Counted(TipLife)
    /\ sinceCredit \in [Account \X Token -> Nat]

\* A tip age ledgers ago left the four entries at more than the threshold, and
\* since then nothing but the ledgers that closed has taken any away.
FreshAt(creator, token, age) ==
    /\ Fresh(instanceLife, age)
    /\ FreshIn(TipCountLife, creator, age)
    /\ FreshIn(BalanceLife, <<creator, token>>, age)
    /\ FreshIn(CreatorTokensLife, creator, age)

RecentlyTippedFresh ==
    \A creator \in Account, token \in Token :
        sinceCredit[<<creator, token>>] \in Recent =>
            FreshAt(creator, token, sinceCredit[<<creator, token>>])

LifetimeInv == LifetimeTypeOK /\ RecentlyTippedFresh

LEMMA LifetimeInitInv == LifetimeInit => LifetimeInv
BY LifetimeAssumption
DEF LifetimeInit, LifetimeInv, LifetimeTypeOK, RecentlyTippedFresh, Counted,
    EmptyMap, Recent

\* Extending the instance keeps it fresh, and makes it as fresh as can be.
LEMMA InstanceFresh ==
    ASSUME LifetimeTypeOK, extend_instance_ttl
    PROVE  /\ instanceLife' \in Nat
           /\ instanceLife' > TTL_THRESHOLD
           /\ \A age \in Nat : Fresh(instanceLife, age) => Fresh(instanceLife', age)
BY ExtensionGain, LifetimeAssumption DEF LifetimeTypeOK, extend_instance_ttl, Fresh

\* An entry point that resets no age keeps the invariant if it makes none of
\* the entries less fresh.
LEMMA FreshnessKept ==
    ASSUME LifetimeInv, extend_instance_ttl, UNCHANGED sinceCredit,
           NoLessFresh(TipCountLife, TipCountLife'),
           NoLessFresh(BalanceLife, BalanceLife'),
           NoLessFresh(CreatorTokensLife, CreatorTokensLife'),
           NoLessFresh(TipLife, TipLife')
    PROVE  LifetimeInv'
<1>1. LifetimeTypeOK'
    BY InstanceFresh DEF LifetimeInv, LifetimeTypeOK, NoLessFresh
<1>2. ASSUME NEW creator \in Account, NEW token \in Token,
             sinceCredit[<<creator, token>>] \in Recent
      PROVE  FreshAt(creator, token, sinceCredit[<<creator, token>>])'
    <2> DEFINE age == sinceCredit[<<creator, token>>]
    <2>1. age \in Nat /\ FreshAt(creator, token, age)
        BY <1>2 DEF LifetimeInv, LifetimeTypeOK, RecentlyTippedFresh
    <2>2. age' = age
        OBVIOUS
    <2> HIDE DEF age
    <2>3. FreshAt(creator, token, age)'
        BY <2>1, <2>2, InstanceFresh DEF LifetimeInv, FreshAt, NoLessFresh
    <2> QED
        BY <2>3 DEF age
<1> QED
    BY <1>1, <1>2 DEF LifetimeInv, RecentlyTippedFresh

------------------------------------------------------------------------------
(* The steps.                                                              *)

LEMMA TipKeepsLifetimeInv ==
    ASSUME LifetimeInv, NEW from \in Account, NEW tipped \in Account,
           NEW paid \in Token, NEW amount \in Amount,
           lasting_tip(from, tipped, paid, amount)
    PROVE  LifetimeInv'
<1> DEFINE record == <<tipped, RecordIndex(get_tip_count(tipped))>>
<1>1. /\ BalanceLife' = SetExtended(BalanceLife, <<tipped, paid>>)
      /\ CreatorTokensLife' = SetExtended(CreatorTokensLife, tipped)
      /\ TipLife' = SetExtended(TipLife, record)
      /\ TipCountLife' = SetExtended(TipCountLife, tipped)
      /\ sinceCredit' = [sinceCredit EXCEPT ![<<tipped, paid>>] = 0]
      /\ extend_instance_ttl
    BY DEF lasting_tip, TokensLifeAfterTip, TipCountLifeAfterTip
<1> HIDE DEF record
<1>2. LifetimeTypeOK'
    BY <1>1, SetExtendedFresh, InstanceFresh
    DEF LifetimeInv, LifetimeTypeOK, NoLessFresh
<1>3. ASSUME NEW creator \in Account, NEW token \in Token,
             sinceCredit'[<<creator, token>>] \in Recent
      PROVE  FreshAt(creator, token, sinceCredit[<<creator, token>>])'
    <2>1. CASE creator = tipped /\ token = paid
        <3>1. sinceCredit'[<<creator, token>>] = 0
            BY <1>1, <2>1 DEF LifetimeInv, LifetimeTypeOK
        <3>2. /\ TipCountLife'[creator] > TTL_THRESHOLD
              /\ BalanceLife'[<<creator, token>>] > TTL_THRESHOLD
              /\ CreatorTokensLife'[creator] > TTL_THRESHOLD
            BY <1>1, <2>1, SetExtendedFresh DEF LifetimeInv, LifetimeTypeOK
        <3>3. instanceLife' > TTL_THRESHOLD
            BY <1>1, InstanceFresh DEF LifetimeInv
        <3> QED
            BY <3>1, <3>2, <3>3, LifetimeAssumption DEF FreshAt, Fresh, FreshIn
    <2>2. CASE ~(creator = tipped /\ token = paid)
        <3> DEFINE age == sinceCredit[<<creator, token>>]
        <3>1. age' = age
            BY <1>1, <2>2 DEF LifetimeInv, LifetimeTypeOK
        <3>2. age \in Nat /\ FreshAt(creator, token, age)
            BY <1>3, <3>1 DEF LifetimeInv, LifetimeTypeOK, RecentlyTippedFresh
        <3> HIDE DEF age
        <3>3. /\ FreshIn(TipCountLife', creator, age)
              /\ FreshIn(BalanceLife', <<creator, token>>, age)
              /\ FreshIn(CreatorTokensLife', creator, age)
            BY <1>1, <3>2, SetExtendedFresh
            DEF LifetimeInv, LifetimeTypeOK, FreshAt, NoLessFresh
        <3>4. Fresh(instanceLife', age)
            BY <1>1, <3>2, InstanceFresh DEF LifetimeInv, FreshAt
        <3> QED
            BY <3>1, <3>3, <3>4 DEF FreshAt, age
    <2> QED
        BY <2>1, <2>2
<1> QED
    BY <1>2, <1>3 DEF LifetimeInv, RecentlyTippedFresh

LEMMA LedgerKeepsLifetimeInv ==
    ASSUME LifetimeInv, LedgerCloses
    PROVE  LifetimeInv'
<1>1. LifetimeTypeOK'
    BY OlderFresh DEF LifetimeInv, LifetimeTypeOK, LedgerCloses, OneLedgerOlder
<1>2. ASSUME NEW creator \in Account, NEW token \in Token,
             sinceCredit'[<<creator, token>>] \in Recent
      PROVE  FreshAt(creator, token, sinceCredit[<<creator, token>>])'
    <2> DEFINE age == sinceCredit[<<creator, token>>]
    <2>1. age \in Recent /\ age' = age + 1
        BY <1>2 DEF LedgerCloses, LifetimeInv, LifetimeTypeOK, Recent
    <2>2. FreshAt(creator, token, age)
        BY <2>1 DEF LifetimeInv, RecentlyTippedFresh
    <2> HIDE DEF age
    <2>3. Fresh(instanceLife', age + 1)
        BY <2>1, <2>2, LifetimeAssumption
        DEF LedgerCloses, LifetimeInv, LifetimeTypeOK, FreshAt, Fresh, Recent,
            OneLedgerOlder
    <2>4. /\ FreshIn(TipCountLife', creator, age + 1)
          /\ FreshIn(BalanceLife', <<creator, token>>, age + 1)
          /\ FreshIn(CreatorTokensLife', creator, age + 1)
        BY <2>1, <2>2, OlderFresh DEF LedgerCloses, LifetimeInv, LifetimeTypeOK, FreshAt
    <2> QED
        BY <2>1, <2>3, <2>4 DEF FreshAt, age
<1> QED
    BY <1>1, <1>2 DEF LifetimeInv, RecentlyTippedFresh

LEMMA RestoreKeepsLifetimeInv ==
    ASSUME LifetimeInv, restore
    PROVE  LifetimeInv'
<1>1. LifetimeTypeOK'
    BY RestoredFresh, LifetimeAssumption DEF LifetimeInv, LifetimeTypeOK, restore
<1>2. ASSUME NEW creator \in Account, NEW token \in Token,
             sinceCredit'[<<creator, token>>] \in Recent
      PROVE  FreshAt(creator, token, sinceCredit[<<creator, token>>])'
    <2> DEFINE age == sinceCredit[<<creator, token>>]
    <2>1. age \in Recent /\ age' = age /\ FreshAt(creator, token, age)
        BY <1>2 DEF restore, LifetimeInv, RecentlyTippedFresh
    <2> HIDE DEF age
    <2>2. Fresh(instanceLife', age)
        BY <2>1, LifetimeAssumption DEF restore, FreshAt, Fresh, Recent
    <2>3. /\ FreshIn(TipCountLife', creator, age)
          /\ FreshIn(BalanceLife', <<creator, token>>, age)
          /\ FreshIn(CreatorTokensLife', creator, age)
        BY <2>1, RestoredFresh DEF restore, LifetimeInv, LifetimeTypeOK, FreshAt
    <2> QED
        BY <2>1, <2>2, <2>3 DEF FreshAt, age
<1> QED
    BY <1>1, <1>2 DEF LifetimeInv, RecentlyTippedFresh

LEMMA NextLifetimeInv == LifetimeInv /\ [LifetimeNext]_lifetimeVars => LifetimeInv'
<1> SUFFICES ASSUME LifetimeInv, [LifetimeNext]_lifetimeVars
             PROVE  LifetimeInv'
    OBVIOUS
<1> USE DEF LifetimeInv, LifetimeTypeOK
<1>0. \A map : Counted(map) => NoLessFresh(map, map)
    BY DEF NoLessFresh
<1>1. ASSUME NEW caller \in Account, InstanceCall(caller)
      PROVE  LifetimeInv'
    BY <1>0, <1>1, FreshnessKept DEF InstanceCall, entryLife
<1>2. ASSUME NEW caller \in Account, NEW username \in Username, NEW text \in Text,
             lasting_register(caller, username, text)
      PROVE  LifetimeInv'
    BY <1>0, <1>2, FreshnessKept, SetExtendedFresh DEF lasting_register
<1>3. ASSUME NEW caller \in Account, lasting_unregister(caller)
      PROVE  LifetimeInv'
    BY <1>0, <1>3, FreshnessKept, RemoveFresh DEF lasting_unregister
<1>4. ASSUME NEW from \in Account, NEW creator \in Account, NEW token \in Token,
             NEW amount \in Amount, lasting_tip(from, creator, token, amount)
      PROVE  LifetimeInv'
    BY <1>4, TipKeepsLifetimeInv
<1>5. ASSUME NEW caller \in Account, NEW token \in Token, NEW amount \in Amount,
             lasting_withdraw(caller, token, amount)
      PROVE  LifetimeInv'
    <2>1. /\ \/ BalanceLife' = SetExtended(BalanceLife, <<caller, token>>)
             \/ BalanceLife' = Remove(BalanceLife, <<caller, token>>)
          /\ \/ CreatorTokensLife' = CreatorTokensLife
             \/ CreatorTokensLife' = SetExtended(CreatorTokensLife, caller)
             \/ CreatorTokensLife' = Remove(CreatorTokensLife, caller)
          /\ UNCHANGED <<TipCountLife, TipLife, sinceCredit>>
          /\ extend_instance_ttl
        BY <1>5
        DEF lasting_withdraw, BalanceLifeAfterWithdraw, TokensLifeAfterWithdraw
    <2>2. /\ NoLessFresh(BalanceLife, SetExtended(BalanceLife, <<caller, token>>))
          /\ NoLessFresh(BalanceLife, Remove(BalanceLife, <<caller, token>>))
          /\ NoLessFresh(CreatorTokensLife, SetExtended(CreatorTokensLife, caller))
          /\ NoLessFresh(CreatorTokensLife, Remove(CreatorTokensLife, caller))
        BY SetExtendedFresh, RemoveFresh
    <2> QED
        BY <1>0, <2>1, <2>2, FreshnessKept
<1>6. CASE LedgerCloses
    BY <1>6, LedgerKeepsLifetimeInv
<1>7. CASE restore
    BY <1>7, RestoreKeepsLifetimeInv
<1>8. CASE UNCHANGED lifetimeVars
    BY <1>8
    DEF lifetimeVars, lifetime, entryLife, RecentlyTippedFresh, FreshAt, Counted
<1> QED
    BY <1>1, <1>2, <1>3, <1>4, <1>5, <1>6, <1>7, <1>8 DEF LifetimeNext

LEMMA LifetimeInvariance == LifetimeSpec => []LifetimeInv
BY LifetimeInitInv, NextLifetimeInv, PTL DEF LifetimeSpec

------------------------------------------------------------------------------
(* The theorems.                                                           *)

\* Archival only ever refuses calls: whatever the contract does with it, it
\* may do without, so every property of Spec holds with archival too.
THEOREM LifetimeRestricts == LifetimeSpec => Spec
<1>1. LifetimeInit => Init
    BY DEF LifetimeInit
<1>2. [LifetimeNext]_lifetimeVars => [Next]_vars
    BY DEF LifetimeNext, lifetimeVars, InstanceCall, lasting_register,
           lasting_unregister, lasting_tip, lasting_withdraw, LedgerCloses, restore,
           Next, UserStep
<1> QED
    BY <1>1, <1>2, PTL DEF LifetimeSpec, Spec

\* For TTL_THRESHOLD ledgers after a tip nothing its creator needs is archived:
\* nothing takes ledgers from an entry but a ledger that closes, and whoever
\* writes an entry again extends it.
THEOREM TippedCreatorStaysLive == LifetimeSpec => []RecentlyTippedLive
<1>1. LifetimeInv /\ TypeOK => RecentlyTippedLive
    BY LifetimeAssumption
    DEF LifetimeInv, LifetimeTypeOK, RecentlyTippedFresh, RecentlyTippedLive,
        FreshAt, Fresh, FreshIn, Live, Counted, Recent, TypeOK, RegistryTypeOK, MapOf
<1> QED
    BY <1>1, LifetimeInvariance, LifetimeRestricts, TypeCorrectness, PTL

\* So the tips of the last TTL_THRESHOLD ledgers make the whole credit in their
\* tokens payable without a restoration: nothing the contract checks refuses
\* it, and no entry that withdraw reads is archived.
THEOREM RecentCreditsPayable == LifetimeSpec => []RecentCreditWithdrawable
<1>1. ASSUME RecentlyTippedLive, CreditWithdrawable,
             check_initialized_and_not_paused,
             NEW creator \in Account, NEW token \in Token,
             sinceCredit[<<creator, token>>] \in Recent,
             NEW amount \in 1 .. get_balance(creator, token)
      PROVE  /\ CanWithdraw(creator, token, amount)
             /\ instanceLife > 0 /\ WithdrawReadable(creator, token)
    <2>1. CanWithdraw(creator, token, amount)
        BY <1>1 DEF CreditWithdrawable
    <2>2. creator \in DOMAIN Profile
        BY <2>1 DEF CanWithdraw, WithdrawAccepted
    <2> QED
        BY <1>1, <2>1, <2>2 DEF RecentlyTippedLive, WithdrawReadable
<1>2. RecentlyTippedLive /\ CreditWithdrawable => RecentCreditWithdrawable
    BY <1>1 DEF RecentCreditWithdrawable
<1> QED
    BY <1>2, TippedCreatorStaysLive, LifetimeRestricts, CreditWithdrawal,
       PTL

\* The same for tips: of the five entries that tip reads, the four that an
\* earlier tip extended are live, so only the credit of a token not tipped in
\* lately and a record of an earlier registration can hold it up.
THEOREM TipHoldUps == LifetimeSpec => []TipHeldUpByOldEntriesOnly
<1>1. ASSUME RecentlyTippedLive,
             NEW creator \in Account, NEW token \in Token, NEW other \in Token,
             NEW from \in Account, NEW amount \in Amount,
             sinceCredit[<<creator, other>>] \in Recent,
             CanTip(from, creator, token, amount),
             ~(instanceLife > 0 /\ TipReadable(creator, token))
      PROVE  \/ token # other /\ ~Live(BalanceLife, <<creator, token>>)
             \/ ~Live(TipLife, <<creator, get_tip_count(creator)>>)
    <2>1. creator \in DOMAIN Profile
        BY <1>1 DEF CanTip, TipAccepted
    <2>2. /\ instanceLife > 0
          /\ Live(TipCountLife, creator)
          /\ Live(BalanceLife, <<creator, other>>)
          /\ Live(CreatorTokensLife, creator)
        BY <1>1, <2>1 DEF RecentlyTippedLive
    <2> QED
        BY <1>1, <2>2 DEF TipReadable
<1>2. RecentlyTippedLive => TipHeldUpByOldEntriesOnly
    BY <1>1 DEF TipHeldUpByOldEntriesOnly
<1> QED
    BY <1>2, TippedCreatorStaysLive, PTL

\* The written values of next have more than TTL_THRESHOLD ledgers left.
Lasting(map, next, nextLife) ==
    \A key \in Written(map, next) : nextLife[key] > TTL_THRESHOLD

LEMMA PutLasting ==
    ASSUME NEW map, NEW life, Counted(life), NEW key, NEW value
    PROVE  Lasting(map, Put(map, key, value), SetExtended(life, key))
<1>1. ASSUME NEW k \in Written(map, Put(map, key, value))
      PROVE  k = key
    BY <1>1 DEF Written, Put
<1> QED
    BY <1>1, SetExtendedFresh DEF Lasting

LEMMA RemoveLasting ==
    ASSUME NEW map, NEW key, NEW life
    PROVE  /\ Lasting(map, map, life)
           /\ Lasting(map, Remove(map, key), life)
BY DEF Lasting, Written, Remove

\* Every write of a persistent entry comes with its extension: no step leaves
\* a changed value in an entry with TTL_THRESHOLD ledgers or less.
THEOREM WritesAreExtended == LifetimeSpec => WritesOutliveThreshold
<1> DEFINE Extended == /\ Lasting(TipCount, TipCount', TipCountLife')
                       /\ Lasting(Balance, Balance', BalanceLife')
                       /\ Lasting(CreatorTokens, CreatorTokens', CreatorTokensLife')
                       /\ Lasting(Tip, Tip', TipLife')
<1>1. ASSUME TypeOK, LifetimeTypeOK, [LifetimeNext]_lifetimeVars
      PROVE  Extended
    <2> USE <1>1
    <2>1. ASSUME UNCHANGED funds
          PROVE  Extended
        BY <2>1, RemoveLasting DEF funds
    <2>2. ASSUME NEW caller \in Account, InstanceCall(caller)
          PROVE  UNCHANGED funds
        BY <2>2, AdminFrame DEF InstanceCall, update_profile
    <2>3. ASSUME NEW caller \in Account, NEW username \in Username, NEW text \in Text,
                 lasting_register(caller, username, text)
          PROVE  Extended
        <3>1. /\ TipCount' = Put(TipCount, caller, 0)
              /\ TipCountLife' = SetExtended(TipCountLife, caller)
              /\ UNCHANGED <<Balance, CreatorTokens, Tip>>
            BY <2>3 DEF lasting_register, register
        <3> QED
            BY <3>1, PutLasting, RemoveLasting DEF LifetimeTypeOK
    <2>4. ASSUME NEW caller \in Account, lasting_unregister(caller)
          PROVE  Extended
        <3>1. /\ TipCount' = Remove(TipCount, caller)
              /\ CreatorTokens' = Remove(CreatorTokens, caller)
              /\ UNCHANGED <<Balance, Tip>>
            BY <2>4 DEF lasting_unregister, unregister
        <3> QED
            BY <3>1, RemoveLasting
    <2>5. ASSUME NEW from \in Account, NEW creator \in Account, NEW token \in Token,
                 NEW amount \in Amount, lasting_tip(from, creator, token, amount)
          PROVE  Extended
        <3> DEFINE index == get_tip_count(creator)
                   credit == get_balance(creator, token)
                                + CreatorAmount(amount, FeeOf(amount))
                   record == [from |-> from, token |-> token, amount |-> amount]
                   tracked == TokensAfterTip(creator, token)
        <3>1. /\ Balance' = Put(Balance, <<creator, token>>, credit)
              /\ CreatorTokens' = Put(CreatorTokens, creator, tracked)
              /\ Tip' = Put(Tip, <<creator, RecordIndex(index)>>, record)
              /\ TipCount' = Put(TipCount, creator, index + 1)
            BY <2>5 DEF lasting_tip, tip, TipBooked
        <3>2. /\ BalanceLife' = SetExtended(BalanceLife, <<creator, token>>)
              /\ CreatorTokensLife' = SetExtended(CreatorTokensLife, creator)
              /\ TipLife' = SetExtended(TipLife, <<creator, RecordIndex(index)>>)
              /\ TipCountLife' = SetExtended(TipCountLife, creator)
            BY <2>5 DEF lasting_tip, TokensLifeAfterTip, TipCountLifeAfterTip
        <3> HIDE DEF index, credit, record, tracked
        <3> QED
            BY <3>1, <3>2, PutLasting DEF LifetimeTypeOK
    <2>6. ASSUME NEW caller \in Account, NEW token \in Token, NEW amount \in Amount,
                 lasting_withdraw(caller, token, amount)
          PROVE  Extended
        <3> DEFINE remaining == get_balance(caller, token) - amount
                   left == get_all_tokens(caller) \ {token}
        <3>1. remaining \in Int
            BY <2>6, NumberAssumption, CreditType
        <3>2. /\ Balance' = BalanceAfterWithdraw(caller, token, remaining)
              /\ CreatorTokens' = TokensAfterWithdraw(caller, token, remaining)
              /\ UNCHANGED <<TipCount, Tip>>
              /\ BalanceLife' = BalanceLifeAfterWithdraw(caller, token, remaining)
              /\ CreatorTokensLife' = TokensLifeAfterWithdraw(caller, token, remaining)
            BY <2>6 DEF lasting_withdraw, withdraw, WithdrawBooked
        <3> HIDE DEF remaining
        <3>3. Lasting(Balance, Balance', BalanceLife')
            BY <3>2, PutLasting, RemoveLasting
            DEF BalanceAfterWithdraw, BalanceLifeAfterWithdraw, LifetimeTypeOK
        <3>4. \/ CreatorTokens' = CreatorTokens
              \/ CreatorTokens' = Remove(CreatorTokens, caller)
              \/ /\ CreatorTokens' = Put(CreatorTokens, caller, left)
                 /\ CreatorTokensLife' = SetExtended(CreatorTokensLife, caller)
            BY <3>1, <3>2 DEF TokensAfterWithdraw, TokensLifeAfterWithdraw
        <3> HIDE DEF left
        <3>5. Lasting(CreatorTokens, CreatorTokens', CreatorTokensLife')
            BY <3>4, PutLasting, RemoveLasting DEF LifetimeTypeOK
        <3> QED
            BY <3>2, <3>3, <3>5, RemoveLasting
    <2>7. ASSUME LedgerCloses \/ restore \/ UNCHANGED lifetimeVars
          PROVE  UNCHANGED funds
        BY <2>7 DEF LedgerCloses, restore, lifetimeVars, vars
    <2> QED
        BY <2>1, <2>2, <2>3, <2>4, <2>5, <2>6, <2>7 DEF LifetimeNext
<1>2. ASSUME TypeOK, LifetimeInv, [LifetimeNext]_lifetimeVars
      PROVE  [/\ \A key \in Written(TipCount, TipCount') :
                    TipCountLife'[key] > TTL_THRESHOLD
              /\ \A key \in Written(Balance, Balance') :
                    BalanceLife'[key] > TTL_THRESHOLD
              /\ \A key \in Written(CreatorTokens, CreatorTokens') :
                    CreatorTokensLife'[key] > TTL_THRESHOLD
              /\ \A key \in Written(Tip, Tip') :
                    TipLife'[key] > TTL_THRESHOLD]_lifetimeVars
    BY <1>1, <1>2 DEF Lasting, LifetimeInv
<1> QED
    BY <1>2, LifetimeInvariance, LifetimeRestricts, TypeCorrectness, PTL
    DEF LifetimeSpec, WritesOutliveThreshold

==============================================================================
