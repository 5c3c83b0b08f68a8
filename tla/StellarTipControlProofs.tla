------------------------ MODULE StellarTipControlProofs ------------------------
(***************************************************************************)
(* Proofs about the administrator's powers, the caps, the pause, the token *)
(* sets and tokens that refuse transfers, for every value of the constants.*)
(***************************************************************************)
EXTENDS StellarTipRefinementProofs, TokenRejections

------------------------------------------------------------------------------
(* Administration.                                                         *)

\* After initialization a step of the administrator, who can sign, changes the
\* administrator or something else, never both, and never leaves the contract
\* without one.
LEMMA AdminHandover ==
    ASSUME NEW caller \in Account, AdminStep(caller), Admin # None
    PROVE  /\ Admin \in Account
           /\ Admin' # Admin => Admin' \notin {None, ZeroAddress}
           /\ Admin' # Admin => UNCHANGED <<FeeRecipient, FeeBps, Paused,
                                    MaxCreators, MaxTipsPerCreator, MinTipAmount,
                                    registry, funds>>
<1>1. ASSUME NEW newAdmin \in AdminInput, set_admin(caller, newAdmin)
      PROVE  /\ Admin \in Account /\ Admin' \notin {None, ZeroAddress}
             /\ UNCHANGED <<FeeRecipient, FeeBps, Paused, MaxCreators,
                            MaxTipsPerCreator, MinTipAmount, registry, funds>>
    BY <1>1, AddressAssumption DEF set_admin, AuthorizedAdmin
<1>2. ASSUME \/ pause(caller)
             \/ unpause(caller)
             \/ \E bps \in FeeInput : set_fee_percentage(caller, bps)
             \/ \E recipient \in RecipientInput : set_fee_recipient(caller, recipient)
             \/ \E cap \in CapInput : set_max_creators(caller, cap)
             \/ \E cap \in CapInput : set_max_tips_per_creator(caller, cap)
             \/ \E minimum \in MinInput : set_min_tip_amount(caller, minimum)
      PROVE  Admin \in Account /\ Admin' = Admin
    BY <1>2 DEF pause, unpause, set_fee_percentage, set_fee_recipient,
                set_max_creators, set_max_tips_per_creator, set_min_tip_amount,
                AuthorizedAdmin
<1> QED
    BY <1>1, <1>2 DEF AdminStep, init, NotYetInitialized

\* No other step touches the configuration.
LEMMA ConfigFrame ==
    ASSUME [Next]_vars, \A caller \in Account : ~AdminStep(caller)
    PROVE  UNCHANGED config
<1>1. ASSUME NEW caller \in Account, NEW username \in Username, NEW text \in Text,
             register(caller, username, text)
      PROVE  UNCHANGED config
    BY <1>1 DEF register
<1>2. ASSUME NEW caller \in Account, NEW text \in Text, update_profile(caller, text)
      PROVE  UNCHANGED config
    BY <1>2 DEF update_profile
<1>3. ASSUME NEW caller \in Account, unregister(caller)
      PROVE  UNCHANGED config
    BY <1>3 DEF unregister
<1>4. CASE MoneyStep \/ UNCHANGED vars
    BY <1>4, MoneyFrame DEF vars
<1> QED
    BY <1>1, <1>2, <1>3, <1>4, StepKinds

\* Neither init nor a handover gives the role to the zero address.
NotZeroAdmin == Admin # ZeroAddress

\* Initialization is final, the role passes on alone, and with an address that
\* cannot sign it rests.
THEOREM AdminFinality == Spec => AdminSuccession
<1> DEFINE Succession ==
        Admin # None =>
           /\ Admin' \notin {None, ZeroAddress}
           /\ Admin \notin Account => UNCHANGED config
           /\ Admin' # Admin => UNCHANGED <<FeeRecipient, FeeBps, Paused,
                                   MaxCreators, MaxTipsPerCreator, MinTipAmount,
                                   registry, funds>>
<1>1. Init => NotZeroAdmin
    BY AddressAssumption DEF Init, Address, NotZeroAdmin
<1>2. NotZeroAdmin /\ [Next]_vars => NotZeroAdmin' /\ Succession
    <2> SUFFICES ASSUME NotZeroAdmin, [Next]_vars
                 PROVE  NotZeroAdmin' /\ Succession
        OBVIOUS
    <2>1. CASE \E caller \in Account : AdminStep(caller)
        <3>1. CASE Admin # None
            BY <2>1, <3>1, AdminHandover DEF NotZeroAdmin
        <3>2. CASE Admin = None
            BY <2>1, <3>2, AddressAssumption DEF AdminStep, init, set_admin, pause, unpause,
               set_fee_percentage, set_fee_recipient, set_max_creators,
               set_max_tips_per_creator, set_min_tip_amount, AuthorizedAdmin, NotZeroAdmin
        <3> QED
            BY <3>1, <3>2
    <2>2. CASE \A caller \in Account : ~AdminStep(caller)
        BY <2>2, ConfigFrame DEF config, NotZeroAdmin
    <2> QED
        BY <2>1, <2>2
<1> QED
    BY <1>1, <1>2, PTL DEF Spec, AdminSuccession

\* Before init there is no creator, so init resets a count that is 0; while
\* paused every user entry point fails its first check.
THEOREM PauseFreeze == Spec => PausedFreezesUsers
<1>1. CountInv /\ [Next]_vars =>
         (Paused \/ Admin = None =>
            UNCHANGED <<registry, TipCount, Balance, CreatorTokens, Tip>>)
    <2> SUFFICES ASSUME CountInv, [Next]_vars, Paused \/ Admin = None
                 PROVE  UNCHANGED <<registry, TipCount, Balance, CreatorTokens, Tip>>
        OBVIOUS
    <2>1. ~check_initialized_and_not_paused
        BY DEF check_initialized_and_not_paused
    <2>2. ASSUME NEW caller \in Account, AdminStep(caller)
          PROVE  UNCHANGED <<registry, TipCount, Balance, CreatorTokens, Tip>>
        <3>1. UNCHANGED <<Profile, UsernameToAddress, funds>>
            BY <2>2, AdminFrame
        <3>2. CreatorCount' = CreatorCount
            <4>1. CASE Admin # None
                BY <2>2, <4>1, AdminFrame DEF registry
            <4>2. CASE Admin = None
                <5>1. CreatorCount = 0
                    BY <4>2, FS_EmptySet DEF CountInv
                <5> QED
                    BY <2>2, <4>2, <5>1, AdminFrame
            <4> QED
                BY <4>1, <4>2
        <3> QED
            BY <3>1, <3>2 DEF registry, funds
    <2>3. ASSUME NEW src \in Account, NEW dst \in DepositTarget, NEW token \in Token,
                 NEW amount \in Amount, direct_transfer(src, dst, token, amount)
          PROVE  UNCHANGED <<registry, TipCount, Balance, CreatorTokens, Tip>>
        BY <2>3 DEF direct_transfer
    <2>4. CASE UNCHANGED vars
        BY <2>4 DEF vars, funds
    <2> QED
        BY <2>1, <2>2, <2>3, <2>4, StepKinds
        DEF MoneyStep, register, update_profile, unregister, CanUnregister, tip, CanTip,
            TipAccepted, withdraw, CanWithdraw, WithdrawAccepted
<1> QED
    BY <1>1, CountInvariance, PTL DEF Spec, PausedFreezesUsers

\* A pause that nobody can end: the administrator's role is with an address that
\* cannot sign.
PausedForGood == Paused /\ Admin \notin Account \cup {None}

\* What the contract stores, the token balances being the token's own.
Stored == <<config, registry, TipCount, Balance, CreatorTokens, Tip>>

\* After a handover to an address that cannot sign, which set_admin accepts, a
\* pause has no end: the contract never changes again and every credit is locked.
THEOREM PauseForGood ==
    Spec => [](PausedForGood => []PausedForGood /\ [][UNCHANGED Stored]_vars)
<1>1. ASSUME PausedForGood, [Next]_vars,
             [Admin # None =>
                 /\ Admin' \notin {None, ZeroAddress}
                 /\ Admin \notin Account => UNCHANGED config
                 /\ Admin' # Admin => UNCHANGED <<FeeRecipient, FeeBps, Paused,
                                         MaxCreators, MaxTipsPerCreator, MinTipAmount,
                                         registry, funds>>]_vars,
             [Paused \/ Admin = None =>
                 UNCHANGED <<registry, TipCount, Balance, CreatorTokens, Tip>>]_vars
      PROVE  PausedForGood' /\ UNCHANGED Stored
    BY <1>1 DEF PausedForGood, Stored, vars, config, registry, funds
<1>2. Spec => AdminSuccession /\ PausedFreezesUsers
    BY AdminFinality, PauseFreeze
<1> QED
    BY <1>1, <1>2, PTL DEF Spec, AdminSuccession, PausedFreezesUsers

------------------------------------------------------------------------------
(* Caps.                                                                   *)

\* A count grows only in the step that checks its cap, with the value the check
\* has seen.
THEOREM CapEnforcement == Spec => CapsBoundGrowth
<1> DEFINE Bounded ==
        /\ CreatorCount' > CreatorCount =>
              MaxCreators = 0 \/ CreatorCount' <= MaxCreators
        /\ \A creator \in DOMAIN TipCount :
              get_tip_count(creator)' > get_tip_count(creator) =>
                 \/ MaxTipsPerCreator = 0
                 \/ get_tip_count(creator)' <= MaxTipsPerCreator
<1>1. TypeOK /\ HistoryInv /\ [Next]_vars => Bounded
    <2> SUFFICES ASSUME TypeOK, HistoryInv, [Next]_vars PROVE Bounded
        OBVIOUS
    <2>1. /\ CreatorCount \in Nat /\ MaxCreators \in Nat /\ MaxTipsPerCreator \in Nat
          /\ \A creator \in DOMAIN TipCount :
                get_tip_count(creator) = TipCount[creator] /\ TipCount[creator] \in Nat
        BY NumberAssumption
        DEF TypeOK, ConfigTypeOK, RegistryTypeOK, FundsTypeOK, MapOf, get_tip_count, GetOr
    <2>2. ASSUME CreatorCount' \in 0 .. CreatorCount, UNCHANGED TipCount
          PROVE  Bounded
        BY <2>1, <2>2 DEF get_tip_count
    <2>3. ASSUME NEW caller \in Account, AdminStep(caller)
          PROVE  Bounded
        <3>1. CreatorCount' = CreatorCount \/ CreatorCount' = 0
            BY <2>3, AdminFrame DEF registry
        <3> QED
            BY <2>1, <2>2, <2>3, <3>1, AdminFrame DEF funds
    <2>4. ASSUME NEW caller \in Account, NEW username \in Username, NEW text \in Text,
                 register(caller, username, text)
          PROVE  Bounded
        <3>1. MaxCreators = 0 \/ CreatorCount' <= MaxCreators
            BY <2>1, <2>4 DEF register, UnderCap
        <3>2. caller \notin DOMAIN TipCount /\ TipCount' = Put(TipCount, caller, 0)
            BY <2>4 DEF register, Registrable, HistoryInv
        <3>3. \A creator \in DOMAIN TipCount :
                 get_tip_count(creator)' = get_tip_count(creator)
            BY <3>2 DEF get_tip_count, GetOr, Put
        <3> QED
            BY <2>1, <3>1, <3>3
    <2>5. ASSUME NEW caller \in Account, NEW text \in Text, update_profile(caller, text)
          PROVE  Bounded
        BY <2>1, <2>2, <2>5 DEF update_profile, funds
    <2>6. ASSUME NEW caller \in Account, unregister(caller)
          PROVE  Bounded
        <3>1. CreatorCount' <= CreatorCount
            BY <2>1, <2>6 DEF unregister, CountAfterUnregister
        <3>2. TipCount' = Remove(TipCount, caller)
            BY <2>6 DEF unregister
        <3>3. \A creator \in DOMAIN TipCount :
                 get_tip_count(creator)' <= get_tip_count(creator)
            BY <2>1, <3>2 DEF get_tip_count, GetOr, Remove
        <3>4. \A creator \in DOMAIN TipCount : get_tip_count(creator)' \in Nat
            BY <2>1, <3>2 DEF get_tip_count, GetOr, Remove
        <3>5. CreatorCount' \in Nat
            BY <2>1, <2>6 DEF unregister, CountAfterUnregister
        <3> QED
            BY <2>1, <3>1, <3>3, <3>4, <3>5
    <2>7. ASSUME NEW from \in Account, NEW creator \in Account, NEW token \in Token,
                 NEW amount \in Amount, tip(from, creator, token, amount)
          PROVE  Bounded
        <3>1. /\ UnderCap(MaxTipsPerCreator, get_tip_count(creator))
              /\ TipCount' = Put(TipCount, creator, get_tip_count(creator) + 1)
              /\ UNCHANGED registry
            BY <2>7 DEF tip, CanTip, TipAccepted, TipBooked
        <3>2. creator \in DOMAIN TipCount
            BY <2>7 DEF tip, CanTip, TipAccepted, HistoryInv
        <3>3. get_tip_count(creator)' = get_tip_count(creator) + 1
            BY <3>1 DEF get_tip_count, GetOr, Put
        <3>4. \A other \in DOMAIN TipCount : other # creator =>
                 get_tip_count(other)' = get_tip_count(other)
            BY <3>1 DEF get_tip_count, GetOr, Put
        <3>5. \/ MaxTipsPerCreator = 0
              \/ get_tip_count(creator)' <= MaxTipsPerCreator
            BY <2>1, <3>1, <3>2, <3>3 DEF UnderCap
        <3> QED
            BY <2>1, <3>1, <3>4, <3>5 DEF registry
    <2>8. ASSUME NEW caller \in Account, NEW token \in Token, NEW amount \in Amount,
                 withdraw(caller, token, amount)
          PROVE  Bounded
        BY <2>1, <2>2, <2>8 DEF withdraw, WithdrawBooked, registry
    <2>9. ASSUME NEW src \in Account, NEW dst \in DepositTarget, NEW token \in Token,
                 NEW amount \in Amount, direct_transfer(src, dst, token, amount)
          PROVE  Bounded
        BY <2>1, <2>2, <2>9 DEF direct_transfer, registry
    <2>10. CASE UNCHANGED vars
        BY <2>1, <2>2, <2>10 DEF vars, registry, funds
    <2> QED
        BY <2>3, <2>4, <2>5, <2>6, <2>7, <2>8, <2>9, <2>10, StepKinds DEF MoneyStep
<1> QED
    BY <1>1, TypeCorrectness, HistoryInvariance, PTL DEF Spec, CapsBoundGrowth

------------------------------------------------------------------------------
(* Settlement.                                                             *)

\* Only a tip to the creator makes its history longer.
LEMMA AppendedByTip ==
    ASSUME TypeOK, HistoryInv, [Next]_vars, NEW owner \in Account, Appended(owner)
    PROVE  \E from \in Account, token \in Token, amount \in Amount :
              tip(from, owner, token, amount)
<1>1. /\ owner \in DOMAIN TipCount /\ TipCount[owner] \in Nat
      /\ get_tip_count(owner) = TipCount[owner]
    BY NumberAssumption
    DEF Appended, TypeOK, FundsTypeOK, MapOf, get_tip_count, GetOr
<1>2. ASSUME UNCHANGED TipCount PROVE FALSE
    BY <1>1, <1>2 DEF Appended, get_tip_count
<1>3. ASSUME NEW caller \in Account, NEW username \in Username, NEW text \in Text,
             register(caller, username, text)
      PROVE  FALSE
    <2>1. caller # owner /\ TipCount' = Put(TipCount, caller, 0)
        BY <1>1, <1>3 DEF register, Registrable, HistoryInv
    <2>2. get_tip_count(owner)' = get_tip_count(owner)
        BY <1>1, <2>1 DEF get_tip_count, GetOr, Put
    <2> QED
        BY <1>1, <2>2 DEF Appended
<1>4. ASSUME NEW caller \in Account, unregister(caller)
      PROVE  FALSE
    <2>1. TipCount' = Remove(TipCount, caller)
        BY <1>4 DEF unregister
    <2>2. get_tip_count(owner)' = get_tip_count(owner) \/ get_tip_count(owner)' = 0
        BY <1>1, <2>1 DEF get_tip_count, GetOr, Remove
    <2> QED
        BY <1>1, <2>2 DEF Appended
<1>5. ASSUME NEW from \in Account, NEW creator \in Account, NEW token \in Token,
             NEW amount \in Amount, tip(from, creator, token, amount)
      PROVE  creator = owner
    <2>1. TipCount' = Put(TipCount, creator, get_tip_count(creator) + 1)
        BY <1>5 DEF tip, TipBooked
    <2>2. creator # owner => get_tip_count(owner)' = get_tip_count(owner)
        BY <1>1, <2>1 DEF get_tip_count, GetOr, Put
    <2> QED
        BY <1>1, <2>2 DEF Appended
<1>6. ASSUME NEW caller \in Account,
             \/ AdminStep(caller)
             \/ \E text \in Text : update_profile(caller, text)
             \/ \E token \in Token, amount \in Amount : withdraw(caller, token, amount)
             \/ TokenStep(caller)
      PROVE  FALSE
    <2>1. UNCHANGED TipCount
        BY <1>6, AdminFrame
        DEF update_profile, withdraw, WithdrawBooked, TokenStep, direct_transfer, funds
    <2> QED
        BY <1>2, <2>1
<1>7. CASE UNCHANGED vars
    BY <1>2, <1>7 DEF vars, funds
<1> QED
    BY <1>3, <1>4, <1>5, <1>6, <1>7 DEF Next, UserStep

\* A tip settles to the unit, whoever the supporter, the creator and the fee
\* recipient are.
THEOREM TipSettlement == Spec => TipSettlesExactly
<1> DEFINE Settled(creator, token) ==
        LET index == get_tip_count(creator)
            record == Tip'[<<creator, index>>]
            credited == get_balance(creator, token)' - get_balance(creator, token)
            fee == record.amount - credited
            Gain(address) == tokenBalance'[<<address, token>>]
                                - tokenBalance[<<address, token>>]
        IN  Appended(creator) /\ record.token = token =>
               /\ record.amount >= 1 /\ record.amount >= MinTipAmount
               /\ fee * MAX_FEE_BPS <= record.amount * FeeBps
               /\ record.amount * FeeBps < (fee + 1) * MAX_FEE_BPS
               /\ \A address \in Address :
                     Gain(address) =
                        (IF address = Contract THEN credited ELSE 0)
                        + (IF address = FeeRecipient THEN fee ELSE 0)
                        - (IF address = record.from THEN record.amount ELSE 0)
<1>1. TypeOK /\ HistoryInv /\ FeeAlwaysPayable /\ [Next]_vars =>
         \A creator \in Account, token \in Token : Settled(creator, token)
    <2> SUFFICES ASSUME TypeOK, HistoryInv, FeeAlwaysPayable, [Next]_vars,
                        NEW creator \in Account, NEW token \in Token,
                        Appended(creator),
                        Tip'[<<creator, get_tip_count(creator)>>].token = token
                 PROVE  Settled(creator, token)
        OBVIOUS
    <2>1. PICK from \in Account, paid \in Token, amount \in Amount :
             tip(from, creator, paid, amount)
        BY AppendedByTip
    <2> DEFINE record == Tip'[<<creator, get_tip_count(creator)>>]
               credited == get_balance(creator, token)' - get_balance(creator, token)
    <2>2. record = [from |-> from, token |-> paid, amount |-> amount]
        BY <2>1 DEF tip, TipBooked, RecordIndex, Put
    <2>3. record.from = from /\ record.amount = amount /\ paid = token
        BY <2>2
    <2>4. tip(from, creator, token, amount)
        BY <2>1, <2>3
    <2>5. /\ amount \in Nat /\ amount >= 1 /\ amount >= MinTipAmount
          /\ get_balance(creator, token) \in Nat
        BY <2>4, GetOrType, NumberAssumption
        DEF tip, CanTip, TipAccepted, MeetsMinimum, TypeOK, ConfigTypeOK, FundsTypeOK, get_balance
    <2>6. credited = CreatorAmount(amount, FeeOf(amount)) /\ FeeOf(amount) \in 0 .. amount
        BY <2>4, <2>5, TipEffect, FeeFloor DEF CreatorAmount
    <2>7. amount - credited = FeeOf(amount)
        BY <2>5, <2>6 DEF CreatorAmount
    <2>8. /\ FeeOf(amount) * MAX_FEE_BPS <= amount * FeeBps
          /\ amount * FeeBps < (FeeOf(amount) + 1) * MAX_FEE_BPS
        BY <2>5, FeeFloor
    <2>9. \A address \in Address :
             tokenBalance'[<<address, token>>] - tokenBalance[<<address, token>>]
                = (IF address = Contract THEN credited ELSE 0)
                  + (IF address = FeeRecipient THEN FeeOf(amount) ELSE 0)
                  - (IF address = from THEN amount ELSE 0)
        BY <2>4, <2>6, TipGain
    <2> HIDE DEF credited
    <2>10. /\ record.amount >= 1 /\ record.amount >= MinTipAmount
           /\ (record.amount - credited) * MAX_FEE_BPS <= record.amount * FeeBps
           /\ record.amount * FeeBps < (record.amount - credited + 1) * MAX_FEE_BPS
           /\ \A address \in Address :
                 tokenBalance'[<<address, token>>] - tokenBalance[<<address, token>>]
                    = (IF address = Contract THEN credited ELSE 0)
                      + (IF address = FeeRecipient THEN record.amount - credited ELSE 0)
                      - (IF address = record.from THEN record.amount ELSE 0)
        <3> HIDE DEF record
        <3> QED
            BY <2>3, <2>5, <2>7, <2>8, <2>9
    <2> QED
        BY <2>10 DEF credited
<1> QED
    BY <1>1, TypeCorrectness, HistoryInvariance, FeePayability, PTL
    DEF Spec, TipSettlesExactly

------------------------------------------------------------------------------
(* Token sets.                                                             *)

\* TrackedTokensBacked is inductive given the types: a withdrawal that removes
\* a Balance entry stops tracking its token in the same step, and a set that
\* becomes empty is removed.
THEOREM TokenTracking == Spec => []TrackedTokensBacked
<1>1. Init => TrackedTokensBacked
    BY DEF Init, TrackedTokensBacked, EmptyMap
<1>2. TypeOK /\ TrackedTokensBacked /\ [Next]_vars => TrackedTokensBacked'
    <2> SUFFICES ASSUME TypeOK, TrackedTokensBacked, [Next]_vars
                 PROVE  TrackedTokensBacked'
        OBVIOUS
    <2>1. ASSUME UNCHANGED <<Balance, CreatorTokens>>,
                 DOMAIN Profile \subseteq DOMAIN Profile'
          PROVE  TrackedTokensBacked'
        BY <2>1 DEF TrackedTokensBacked, is_creator
    <2>2. ASSUME NEW caller \in Account, NEW username \in Username, NEW text \in Text,
                 register(caller, username, text)
          PROVE  TrackedTokensBacked'
        <3>1. DOMAIN Profile' = DOMAIN Profile \cup {caller}
            BY <2>2, PutMap DEF register
        <3> QED
            BY <2>1, <2>2, <3>1 DEF register
    <2>3. ASSUME NEW caller \in Account, NEW text \in Text, update_profile(caller, text)
          PROVE  TrackedTokensBacked'
        BY <2>1, <2>3 DEF update_profile, funds
    <2>4. ASSUME NEW caller \in Account, unregister(caller)
          PROVE  TrackedTokensBacked'
        <3>1. /\ CreatorTokens' = Remove(CreatorTokens, caller)
              /\ Profile' = Remove(Profile, caller)
              /\ Balance' = Balance
            BY <2>4 DEF unregister
        <3> QED
            BY <3>1 DEF TrackedTokensBacked, is_creator, Remove
    <2>5. ASSUME NEW from \in Account, NEW creator \in Account, NEW token \in Token,
                 NEW amount \in Amount, tip(from, creator, token, amount)
          PROVE  TrackedTokensBacked'
        <3> DEFINE credit == get_balance(creator, token)
                                + CreatorAmount(amount, FeeOf(amount))
        <3>1. /\ Balance' = Put(Balance, <<creator, token>>, credit)
              /\ CreatorTokens' = Put(CreatorTokens, creator,
                                      get_all_tokens(creator) \cup {token})
              /\ Profile' = Profile
              /\ is_creator(creator)
            BY <2>5 DEF tip, CanTip, TipAccepted, TipBooked, TokensAfterTip, registry, is_creator
        <3> HIDE DEF credit
        <3>2. DOMAIN Balance' = DOMAIN Balance \cup {<<creator, token>>}
            BY <3>1, PutMap
        <3>3. ASSUME NEW asset \in get_all_tokens(creator)
              PROVE  <<creator, asset>> \in DOMAIN Balance
            BY DEF TrackedTokensBacked, get_all_tokens, GetOr
        <3>4. /\ DOMAIN CreatorTokens' = DOMAIN CreatorTokens \cup {creator}
              /\ CreatorTokens'[creator] = get_all_tokens(creator) \cup {token}
              /\ \A other \in DOMAIN CreatorTokens :
                    other # creator => CreatorTokens'[other] = CreatorTokens[other]
            BY <3>1 DEF Put
        <3> QED
            BY <3>1, <3>2, <3>3, <3>4 DEF TrackedTokensBacked, is_creator
    <2>6. ASSUME NEW caller \in Account, NEW token \in Token, NEW amount \in Amount,
                 withdraw(caller, token, amount)
          PROVE  TrackedTokensBacked'
        <3> DEFINE remaining == get_balance(caller, token) - amount
                   left == get_all_tokens(caller) \ {token}
        <3>1. /\ Balance' = BalanceAfterWithdraw(caller, token, remaining)
              /\ CreatorTokens' = TokensAfterWithdraw(caller, token, remaining)
              /\ Profile' = Profile
            BY <2>6 DEF withdraw, WithdrawBooked, registry
        <3> HIDE DEF remaining
        <3>2. CASE remaining > 0
            <4>1. CreatorTokens' = CreatorTokens
                BY <3>1, <3>2 DEF TokensAfterWithdraw
            <4>2. Balance' = Put(Balance, <<caller, token>>, remaining)
                BY <3>1, <3>2 DEF BalanceAfterWithdraw
            <4>3. DOMAIN Balance \subseteq DOMAIN Balance'
                BY <4>2 DEF Put
            <4> QED
                BY <3>1, <4>1, <4>3 DEF TrackedTokensBacked, is_creator
        <3>3. CASE ~(remaining > 0)
            <4>1. DOMAIN Balance' = DOMAIN Balance \ {<<caller, token>>}
                BY <3>1, <3>3, RemoveMap DEF BalanceAfterWithdraw
            <4>2. \A other \in DOMAIN CreatorTokens : other # caller =>
                     \A asset \in CreatorTokens[other] :
                        <<other, asset>> \in DOMAIN Balance'
                BY <4>1 DEF TrackedTokensBacked
            <4>3. CASE token \notin get_all_tokens(caller)
                <5>1. CreatorTokens' = CreatorTokens
                    BY <3>1, <4>3 DEF TokensAfterWithdraw
                <5>2. \A asset \in get_all_tokens(caller) :
                         <<caller, asset>> \in DOMAIN Balance'
                    BY <4>1, <4>3 DEF TrackedTokensBacked, get_all_tokens, GetOr
                <5> QED
                    BY <3>1, <4>2, <5>1, <5>2
                    DEF TrackedTokensBacked, is_creator, get_all_tokens, GetOr
            <4>4. CASE token \in get_all_tokens(caller) /\ left = {}
                <5>1. CreatorTokens' = Remove(CreatorTokens, caller)
                    BY <3>1, <3>3, <4>4 DEF TokensAfterWithdraw
                <5> QED
                    BY <3>1, <4>2, <5>1 DEF TrackedTokensBacked, is_creator, Remove
            <4>5. CASE token \in get_all_tokens(caller) /\ left # {}
                <5>1. CreatorTokens' = Put(CreatorTokens, caller, left)
                    BY <3>1, <3>3, <4>5 DEF TokensAfterWithdraw
                <5>2. caller \in DOMAIN CreatorTokens
                    BY <4>5 DEF get_all_tokens, GetOr
                <5>3. \A asset \in left : <<caller, asset>> \in DOMAIN Balance'
                    BY <4>1, <5>2 DEF TrackedTokensBacked, get_all_tokens, GetOr
                <5> HIDE DEF left
                <5>4. /\ DOMAIN CreatorTokens' = DOMAIN CreatorTokens
                      /\ CreatorTokens'[caller] = left
                      /\ \A other \in DOMAIN CreatorTokens :
                            other # caller => CreatorTokens'[other] = CreatorTokens[other]
                    BY <5>1, <5>2 DEF Put
                <5> QED
                    BY <3>1, <4>2, <4>5, <5>3, <5>4 DEF TrackedTokensBacked, is_creator
            <4> QED
                BY <4>3, <4>4, <4>5
        <3> QED
            BY <3>2, <3>3
    <2>7. ASSUME NEW caller \in Account, AdminStep(caller)
          PROVE  TrackedTokensBacked'
        BY <2>1, <2>7, AdminFrame DEF funds
    <2>8. ASSUME NEW src \in Account, NEW dst \in DepositTarget, NEW token \in Token,
                 NEW amount \in Amount, direct_transfer(src, dst, token, amount)
          PROVE  TrackedTokensBacked'
        BY <2>1, <2>8 DEF direct_transfer, registry
    <2>9. CASE UNCHANGED vars
        BY <2>1, <2>9 DEF vars, registry, funds
    <2> QED
        BY <2>2, <2>3, <2>4, <2>5, <2>6, <2>7, <2>8, <2>9, StepKinds DEF MoneyStep
<1> QED
    BY <1>1, <1>2, TypeCorrectness, PTL DEF Spec

------------------------------------------------------------------------------
(* Errors that never occur.                                                *)

\* A table answers with its first failing check: the checks before it pass.
LEMMA FirstFailure ==
    ASSUME NEW checks, NEW n \in Nat, DOMAIN checks = 1 .. n,
           FirstError(checks) # Ok
    PROVE  \E i \in 1 .. n : /\ ~checks[i][1]
                             /\ FirstError(checks) = checks[i][2]
                             /\ \A j \in 1 .. n : j < i => checks[j][1]
<1> DEFINE failing == {i \in DOMAIN checks : ~checks[i][1]}
           first == Min(failing)
<1>1. FirstError(checks) = IF failing = {} THEN Ok ELSE checks[first][2]
    BY DEF FirstError
<1>2. failing \in SUBSET Nat /\ failing # {}
    BY <1>1
<1>3. first \in failing /\ \A i \in failing : first <= i
    <2> HIDE DEF failing
    <2> QED
        BY <1>2, LeastPosition
<1>4. FirstError(checks) = checks[first][2]
    BY <1>1, <1>2, Zenon
<1>5. first \in 1 .. n /\ ~checks[first][1]
    BY <1>3, Zenon
<1>6. ASSUME NEW j \in 1 .. n, j < first
      PROVE  checks[j][1]
    <2>1. j \notin failing
        <3> HIDE DEF failing, first
        <3>1. first \in Nat /\ j \in Nat
            BY <1>2, <1>3
        <3> QED
            BY <1>3, <1>6, <3>1
    <2> QED
        BY <2>1, Zenon
<1> QED
    BY <1>4, <1>5, <1>6, Zenon

\* The codes of the other errors differ from those of a corrupted contract.
LEMMA CorruptionCodes ==
    /\ \A code \in {Ok, NotInitialized, ContractPaused, InvalidAmount, InvalidInput,
                    CreatorNotFound, CreatorAlreadyExists, UsernameTaken, CapExceeded,
                    BalanceNotEmpty, BelowMinimum, InsufficientBalance} :
          code \notin {FeeRecipientNotSet, HostTrap}
    /\ HostTrap # FeeRecipientNotSet
BY DEF Ok, InvalidAmount, InvalidInput, NotInitialized, ContractPaused,
       CreatorNotFound, CreatorAlreadyExists, UsernameTaken, CapExceeded, HostTrap,
       BalanceNotEmpty, BelowMinimum, FeeRecipientNotSet, InsufficientBalance

\* The tables of the registry raise no such error.
LEMMA RegistryNeverCorrupt ==
    ASSUME NEW call
    PROVE  /\ registerError(call) # FeeRecipientNotSet
           /\ update_profileError(call) # FeeRecipientNotSet
           /\ unregisterError(call) # FeeRecipientNotSet
<1>1. ASSUME NEW checks, NEW n \in Nat, DOMAIN checks = 1 .. n,
             \A i \in 1 .. n : checks[i][2] # FeeRecipientNotSet
      PROVE  FirstError(checks) # FeeRecipientNotSet
    <2>1. Ok # FeeRecipientNotSet
        BY CorruptionCodes
    <2>2. CASE FirstError(checks) # Ok
        <3>1. PICK i \in 1 .. n : FirstError(checks) = checks[i][2]
            BY <1>1, <2>2, FirstFailure, Zenon
        <3> QED
            BY <1>1, <3>1, Zenon
    <2> QED
        BY <2>1, <2>2, Zenon
<1>2. registerError(call) # FeeRecipientNotSet
    <2> DEFINE c1 == Admin # None
               c2 == check_initialized_and_not_paused
               c3 == validate_input(call.text)
               c4 == call.caller \notin DOMAIN Profile
               c5 == Registrable(call.caller, call.username)
               c6 == UnderCap(MaxCreators, CreatorCount)
               c7 == CreatorCount + 1 <= MAX_U32
               checks == << <<c1, NotInitialized>>,
                            <<c2, ContractPaused>>,
                            <<c3, InvalidInput>>,
                            <<c4, CreatorAlreadyExists>>,
                            <<c5, UsernameTaken>>,
                            <<c6, CapExceeded>>,
                            <<c7, HostTrap>> >>
    <2>1. registerError(call) = FirstError(checks)
        BY DEF registerError, Initialized, Unpaused
    <2> HIDE DEF c1, c2, c3, c4, c5, c6, c7
    <2>2. DOMAIN checks = 1 .. 7 /\ 7 \in Nat
        OBVIOUS
    <2>3. /\ checks[1][2] = NotInitialized
          /\ checks[2][2] = ContractPaused
          /\ checks[3][2] = InvalidInput
          /\ checks[4][2] = CreatorAlreadyExists
          /\ checks[5][2] = UsernameTaken
          /\ checks[6][2] = CapExceeded
          /\ checks[7][2] = HostTrap
        OBVIOUS
    <2> HIDE DEF checks
    <2>4. \A i \in 1 .. 7 : i = 1 \/ i = 2 \/ i = 3 \/ i = 4 \/ i = 5 \/ i = 6 \/ i = 7
        OBVIOUS
    <2>5. \A i \in 1 .. 7 : checks[i][2] # FeeRecipientNotSet
        BY <2>3, <2>4, CorruptionCodes, Zenon
    <2>6. FirstError(checks) # FeeRecipientNotSet
        BY <1>1, <2>2, <2>5
    <2> QED
        BY <2>1, <2>6, Zenon
<1>3. update_profileError(call) # FeeRecipientNotSet
    <2> DEFINE c1 == Admin # None
               c2 == check_initialized_and_not_paused
               c3 == validate_input(call.text)
               c4 == is_creator(call.caller)
               checks == << <<c1, NotInitialized>>,
                            <<c2, ContractPaused>>,
                            <<c3, InvalidInput>>,
                            <<c4, CreatorNotFound>> >>
    <2>1. update_profileError(call) = FirstError(checks)
        BY DEF update_profileError, Initialized, Unpaused
    <2> HIDE DEF c1, c2, c3, c4
    <2>2. DOMAIN checks = 1 .. 4 /\ 4 \in Nat
        OBVIOUS
    <2>3. /\ checks[1][2] = NotInitialized
          /\ checks[2][2] = ContractPaused
          /\ checks[3][2] = InvalidInput
          /\ checks[4][2] = CreatorNotFound
        OBVIOUS
    <2> HIDE DEF checks
    <2>4. \A i \in 1 .. 4 : i = 1 \/ i = 2 \/ i = 3 \/ i = 4
        OBVIOUS
    <2>5. \A i \in 1 .. 4 : checks[i][2] # FeeRecipientNotSet
        BY <2>3, <2>4, CorruptionCodes, Zenon
    <2>6. FirstError(checks) # FeeRecipientNotSet
        BY <1>1, <2>2, <2>5
    <2> QED
        BY <2>1, <2>6, Zenon
<1>4. unregisterError(call) # FeeRecipientNotSet
    <2> DEFINE c1 == Admin # None
               c2 == check_initialized_and_not_paused
               c3 == is_creator(call.caller)
               c4 == TrackedBalancesZero(call.caller)
               checks == << <<c1, NotInitialized>>,
                            <<c2, ContractPaused>>,
                            <<c3, CreatorNotFound>>,
                            <<c4, BalanceNotEmpty>> >>
    <2>1. unregisterError(call) = FirstError(checks)
        BY DEF unregisterError, Initialized, Unpaused
    <2> HIDE DEF c1, c2, c3, c4
    <2>2. DOMAIN checks = 1 .. 4 /\ 4 \in Nat
        OBVIOUS
    <2>3. /\ checks[1][2] = NotInitialized
          /\ checks[2][2] = ContractPaused
          /\ checks[3][2] = CreatorNotFound
          /\ checks[4][2] = BalanceNotEmpty
        OBVIOUS
    <2> HIDE DEF checks
    <2>4. \A i \in 1 .. 4 : i = 1 \/ i = 2 \/ i = 3 \/ i = 4
        OBVIOUS
    <2>5. \A i \in 1 .. 4 : checks[i][2] # FeeRecipientNotSet
        BY <2>3, <2>4, CorruptionCodes, Zenon
    <2>6. FirstError(checks) # FeeRecipientNotSet
        BY <1>1, <2>2, <2>5
    <2> QED
        BY <2>1, <2>6, Zenon
<1> QED
    BY <1>2, <1>3, <1>4, Zenon

\* A tip that finds an administrator finds a fee recipient, and one that has
\* brought in its amount can pay the fee out of it.
LEMMA TipNeverCorrupt ==
    ASSUME TypeOK, FeeAlwaysPayable, NEW call, call.fn = "tip",
           call.caller \in Account, call.creator \in Account,
           call.token \in Token, call.amount \in Amount
    PROVE  /\ tipError(call) # FeeRecipientNotSet
           /\ tipError(call) = HostTrap => TipUnpayable(call)
<1> DEFINE index == get_tip_count(call.creator)
           fee == FeeOf(call.amount)
           received == Transferred(tokenBalance, call.token,
                                   call.caller, Contract, call.amount)
           c1 == Admin # None
           c2 == check_initialized_and_not_paused
           c3 == call.amount > 0
           c4 == MeetsMinimum(call.amount)
           c5 == is_creator(call.creator)
           c6 == UnderCap(MaxTipsPerCreator, index)
           c7 == call.amount * FeeBps <= MAX_I128
           c8 == FeeBps > 0 => FeeRecipient # None
           c9 == CanTransfer(tokenBalance, call.token, call.caller, call.amount)
           c10 == fee > 0 => CanTransfer(received, call.token, Contract, fee)
           c11 == get_balance(call.creator, call.token)
                     + CreatorAmount(call.amount, fee) <= MAX_I128
           c12 == index + 1 <= MAX_U64
           checks == << <<c1, NotInitialized>>,
                        <<c2, ContractPaused>>,
                        <<c3, InvalidAmount>>,
                        <<c4, BelowMinimum>>,
                        <<c5, CreatorNotFound>>,
                        <<c6, CapExceeded>>,
                        <<c7, HostTrap>>,
                        <<c8, FeeRecipientNotSet>>,
                        <<c9, HostTrap>>,
                        <<c10, HostTrap>>,
                        <<c11, HostTrap>>,
                        <<c12, HostTrap>> >>
<1>1. c1 => c8
    BY DEF FeeAlwaysPayable
<1>2. tipError(call) = FirstError(checks)
    BY DEF tipError, Initialized, Unpaused
<1>3. c3 => c10
    <2> SUFFICES ASSUME c3 PROVE CanTransfer(received, call.token, Contract, fee)
        OBVIOUS
    <2>1. call.amount \in Nat /\ fee \in 0 .. call.amount
        <3>1. call.amount \in Nat
            <4>1. call.amount \in Int
                BY NumberAssumption
            <4> QED
                BY <4>1
        <3>2. fee \in 0 .. call.amount
            BY <3>1, FeeFloor, Zenon
        <3> HIDE DEF fee
        <3> QED
            BY <3>1, <3>2
    <2>2. received[<<Contract, call.token>>] =
             tokenBalance[<<Contract, call.token>>] + call.amount
        BY AddressAssumption DEF Transferred, TypeOK, FundsTypeOK, Address
    <2>3. tokenBalance[<<Contract, call.token>>] \in Nat
        BY DEF TypeOK, FundsTypeOK, Address
    <2> QED
        <3> HIDE DEF fee, received
        <3> QED
            BY <2>1, <2>2, <2>3 DEF CanTransfer
<1>4. c3 => (c7 /\ c9 /\ c11 /\ c12) \/ TipUnpayable(call)
    <2> SUFFICES ASSUME c3
                 PROVE  (c7 /\ c9 /\ c11 /\ c12) \/ TipUnpayable(call)
        OBVIOUS
    <2>1. /\ call.amount \in Nat /\ FeeBps \in Nat /\ index \in Nat /\ fee \in Nat
          /\ get_balance(call.creator, call.token) \in Nat
        <3>1. call.amount \in Nat /\ FeeBps \in Nat /\ index \in Nat
            BY NumberAssumption
            DEF TypeOK, ConfigTypeOK, FundsTypeOK, MapOf, get_tip_count, GetOr
        <3>2. fee \in 0 .. call.amount
            BY <3>1, FeeFloor, Zenon
        <3>3. get_balance(call.creator, call.token) \in Nat
            BY CreditType
        <3> HIDE DEF fee, index
        <3> QED
            BY <3>1, <3>2, <3>3
    <2> DEFINE product == call.amount * FeeBps
               credit == get_balance(call.creator, call.token)
                            + CreatorAmount(call.amount, fee)
    <2>2. product \in Int /\ credit \in Int
        <3> HIDE DEF fee
        <3> QED
            BY <2>1 DEF CreatorAmount
    <2> HIDE DEF index
    <2>3. /\ product > MAX_I128 \/ c7
          /\ credit > MAX_I128 \/ c11
          /\ index + 1 > MAX_U64 \/ c12
        <3> HIDE DEF fee
        <3> QED
            BY <2>1, <2>2, NumberAssumption
    <2> QED
        BY <2>3 DEF TipUnpayable, index
<1> HIDE DEF c1, c2, c3, c4, c5, c6, c7, c8, c9, c10, c11, c12
<1>5. /\ DOMAIN checks = 1 .. 12 /\ 12 \in Nat
      /\ 1 \in 1 .. 12 /\ 3 \in 1 .. 12 /\ 1 < 8 /\ 3 < 10
      /\ 3 < 7 /\ 3 < 9 /\ 3 < 11 /\ 3 < 12
    OBVIOUS
<1>6. /\ checks[1][2] = NotInitialized
      /\ checks[2][2] = ContractPaused
      /\ checks[3][2] = InvalidAmount
      /\ checks[4][2] = BelowMinimum
      /\ checks[5][2] = CreatorNotFound
      /\ checks[6][2] = CapExceeded
      /\ checks[7][2] = HostTrap
      /\ checks[9][2] = HostTrap
      /\ checks[10][2] = HostTrap
      /\ checks[11][2] = HostTrap
      /\ checks[12][2] = HostTrap
      /\ checks[1][1] = c1
      /\ checks[3][1] = c3
      /\ checks[7][1] = c7
      /\ checks[8][1] = c8
      /\ checks[9][1] = c9
      /\ checks[10][1] = c10
      /\ checks[11][1] = c11
      /\ checks[12][1] = c12
    OBVIOUS
<1> HIDE DEF checks
<1>7. CASE FirstError(checks) = Ok
    BY <1>2, <1>7, CorruptionCodes, Zenon
<1>8. CASE FirstError(checks) # Ok
    <2>1. PICK i \in 1 .. 12 : /\ ~checks[i][1]
                               /\ FirstError(checks) = checks[i][2]
                               /\ \A j \in 1 .. 12 : j < i => checks[j][1]
        BY <1>5, <1>8, FirstFailure
    <2>2. i # 8
        BY <1>1, <1>5, <1>6, <2>1, Zenon
    <2>3. i # 10
        BY <1>5, <1>6, <1>3, <2>1, Zenon
    <2>4. CASE i \in {7, 9, 11, 12}
        <3>1. c3
            BY <1>5, <1>6, <2>1, <2>4
        <3>2. ~(c7 /\ c9 /\ c11 /\ c12)
            BY <1>6, <2>1, <2>4
        <3>3. tipError(call) = HostTrap /\ TipUnpayable(call)
            BY <1>2, <1>6, <1>4, <2>1, <2>4, <3>1, <3>2
        <3> QED
            BY <3>3, CorruptionCodes, Zenon
    <2>5. CASE i \in 1 .. 6
        <3>1. i = 1 \/ i = 2 \/ i = 3 \/ i = 4 \/ i = 5 \/ i = 6
            BY <2>5
        <3> QED
            BY <1>2, <1>6, <2>1, <3>1, CorruptionCodes, Zenon
    <2> QED
        BY <2>2, <2>3, <2>4, <2>5
<1> QED
    BY <1>7, <1>8

\* A withdrawal that passes the checks of the contract is paid: the contract
\* holds the credit, and the owner of a credit has a token set to extend.
LEMMA WithdrawNeverTraps ==
    ASSUME TypeOK, NoStrandedCredit, FiniteBalance, Solvent, NEW call, call.fn = "withdraw",
           call.caller \in Account, call.token \in Token, call.amount \in Amount
    PROVE  withdrawError(call) \notin {FeeRecipientNotSet, HostTrap}
<1> DEFINE credit == get_balance(call.caller, call.token)
           c1 == Admin # None
           c2 == check_initialized_and_not_paused
           c3 == is_creator(call.caller)
           c4 == call.amount > 0
           c5 == SufficientBalance(call.caller, call.token, call.amount)
           c6 == CanTransfer(tokenBalance, call.token, Contract, call.amount)
           c7 == credit > call.amount => call.caller \in DOMAIN CreatorTokens
           checks == << <<c1, NotInitialized>>,
                        <<c2, ContractPaused>>,
                        <<c3, CreatorNotFound>>,
                        <<c4, InvalidAmount>>,
                        <<c5, InsufficientBalance>>,
                        <<c6, HostTrap>>,
                        <<c7, HostTrap>> >>
<1>1. call.amount \in Int /\ credit \in Nat
      /\ tokenBalance[<<Contract, call.token>>] \in Nat
    <2>1. credit \in Nat
        BY CreditType
    <2> QED
        BY <2>1, NumberAssumption, AddressAssumption DEF TypeOK, FundsTypeOK, Address
<1>2. c4 /\ c5 => c6
    <2>1. credit <= tokenBalance[<<Contract, call.token>>]
        BY CreditCovered DEF Solvent
    <2> QED
        BY <1>1, <2>1 DEF SufficientBalance, CanTransfer
<1>3. c4 => c7
    <2>1. credit > 0 => call.token \in get_all_tokens(call.caller)
        BY DEF NoStrandedCredit
    <2>2. call.token \in get_all_tokens(call.caller) => call.caller \in DOMAIN CreatorTokens
        BY DEF get_all_tokens, GetOr
    <2> HIDE DEF credit
    <2> QED
        BY <1>1, <2>1, <2>2
<1>4. withdrawError(call) = FirstError(checks)
    BY DEF withdrawError, Initialized, Unpaused
<1> HIDE DEF c1, c2, c3, c4, c5, c6, c7
<1>5. DOMAIN checks = 1 .. 7 /\ 7 \in Nat /\ 4 \in 1 .. 7 /\ 5 \in 1 .. 7
      /\ 4 < 6 /\ 5 < 6 /\ 4 < 7
    OBVIOUS
<1>6. /\ checks[1][2] = NotInitialized
      /\ checks[2][2] = ContractPaused
      /\ checks[3][2] = CreatorNotFound
      /\ checks[4][2] = InvalidAmount
      /\ checks[5][2] = InsufficientBalance
      /\ checks[4][1] = c4 /\ checks[5][1] = c5
      /\ checks[6][1] = c6 /\ checks[7][1] = c7
    OBVIOUS
<1> HIDE DEF checks
<1>7. CASE FirstError(checks) = Ok
    BY <1>4, <1>7, CorruptionCodes, Zenon
<1>8. CASE FirstError(checks) # Ok
    <2>1. PICK i \in 1 .. 7 : /\ ~checks[i][1]
                              /\ FirstError(checks) = checks[i][2]
                              /\ \A j \in 1 .. 7 : j < i => checks[j][1]
        BY <1>5, <1>8, FirstFailure
    <2>2. i # 6
        BY <1>2, <1>5, <1>6, <2>1, Zenon
    <2>3. i # 7
        BY <1>3, <1>5, <1>6, <2>1, Zenon
    <2>4. i = 1 \/ i = 2 \/ i = 3 \/ i = 4 \/ i = 5
        BY <2>2, <2>3
    <2> QED
        BY <1>4, <1>6, <2>1, <2>4, CorruptionCodes, Zenon
<1> QED
    BY <1>7, <1>8

------------------------------------------------------------------------------
(* Tokens that refuse transfers.                                           *)

\* Refusals of a token only take steps away from the contract: whatever holds of
\* every behaviour of the contract holds with them.
THEOREM RejectionsHarmless == RejectionSpec => Spec
<1>1. RejectionInit => Init
    BY DEF RejectionInit
<1>2. [RejectionNext]_rejectionVars => [Next]_vars
    <2> SUFFICES ASSUME [RejectionNext]_rejectionVars
                 PROVE  [Next]_vars
        OBVIOUS
    <2>1. ASSUME NEW caller \in Account, AdminStep(caller) \/ RegistrationStep(caller)
          PROVE  Next
        BY <2>1 DEF RegistrationStep, Next, UserStep
    <2>2. ASSUME NEW from \in Account, NEW creator \in Account, NEW token \in Token,
                 NEW amount \in Amount, accepted_tip(from, creator, token, amount)
          PROVE  Next
        BY <2>2 DEF accepted_tip, Next, UserStep
    <2>3. ASSUME NEW caller \in Account, NEW token \in Token, NEW amount \in Amount,
                 accepted_withdraw(caller, token, amount)
          PROVE  Next
        BY <2>3 DEF accepted_withdraw, Next, UserStep
    <2>4. ASSUME NEW src \in Account, NEW dst \in DepositTarget, NEW token \in Token,
                 NEW amount \in Amount, accepted_transfer(src, dst, token, amount)
          PROVE  Next
        BY <2>4 DEF accepted_transfer, Next, TokenStep
    <2>5. ASSUME \/ \E caller \in Account, token \in Token, amount \in Amount :
                       rejected_withdraw(caller, token, amount)
                 \/ \E holding \in Freezable : freeze(holding) \/ thaw(holding)
                 \/ UNCHANGED rejectionVars
          PROVE  UNCHANGED vars
        BY <2>5 DEF rejected_withdraw, freeze, thaw, rejectionVars
    <2> QED
        BY <2>1, <2>2, <2>3, <2>4, <2>5 DEF RejectionNext
<1> QED
    BY <1>1, <1>2, PTL DEF RejectionSpec, Spec

\* A refusal of the token is a trap; otherwise the table answers.
LEMMA AnswerCases ==
    ASSUME NEW call
    PROVE  /\ outcome(call) # Ok => answer(call) = outcome(call)
           /\ TransfersAccepted(call) => answer(call) = outcome(call)
           /\ ~TransfersAccepted(call) => answer(call) \in {outcome(call), HostTrap}
           /\ answer(call) \in {outcome(call), HostTrap}
BY Zenon DEF answer

\* A refusal of a token holds up the calls that move that token from or to the
\* refused holding and no others.
THEOREM RejectionConfinement == RejectionSpec => []RejectionsConfined
<1>1. TypeOK /\ FeeAlwaysPayable /\ NoStrandedCredit /\ FiniteBalance /\ Solvent
         => RejectionsConfined
    <2> SUFFICES ASSUME TypeOK, FeeAlwaysPayable, NoStrandedCredit, FiniteBalance,
                        Solvent, NEW call \in UserCall
                 PROVE  /\ answer(call) # FeeRecipientNotSet
                        /\ call.fn = "withdraw" /\ answer(call) = HostTrap =>
                              ~Accepts(call.token, Contract, call.caller)
                        /\ call.fn = "tip" /\ answer(call) = HostTrap =>
                              \/ TipUnpayable(call)
                              \/ ~TipTransfersAccepted(call.caller, call.token, call.amount)
        BY DEF RejectionsConfined, Accepts, TipTransfersAccepted
    <2>1. CASE call.fn \in {"register", "update_profile", "unregister"}
        <3>1. outcome(call) # FeeRecipientNotSet
            BY <2>1, OutcomeTable, RegistryNeverCorrupt
        <3>2. answer(call) # FeeRecipientNotSet
            BY <3>1, AnswerCases, CorruptionCodes
        <3> QED
            BY <2>1, <3>2
    <2>2. CASE call.fn = "tip"
        <3>1. /\ call.caller \in Account /\ call.creator \in Account
              /\ call.token \in Token /\ call.amount \in Amount
            BY <2>2 DEF UserCall
        <3>2. /\ outcome(call) # FeeRecipientNotSet
              /\ outcome(call) = HostTrap => TipUnpayable(call)
            BY <2>2, <3>1, OutcomeTable, TipNeverCorrupt
        <3>3. TransfersAccepted(call)
                 = TipTransfersAccepted(call.caller, call.token, call.amount)
            BY <2>2 DEF TransfersAccepted
        <3>4. answer(call) # FeeRecipientNotSet
            BY <3>2, AnswerCases, CorruptionCodes
        <3>5. answer(call) = HostTrap
                 => TipUnpayable(call) \/ ~TransfersAccepted(call)
            BY <3>2, AnswerCases
        <3> QED
            BY <2>2, <3>3, <3>4, <3>5, Zenon
    <2>3. CASE call.fn = "withdraw"
        <3>1. call.caller \in Account /\ call.token \in Token /\ call.amount \in Amount
            BY <2>3 DEF UserCall
        <3>2. outcome(call) \notin {FeeRecipientNotSet, HostTrap}
            BY <2>3, <3>1, OutcomeTable, WithdrawNeverTraps
        <3>3. TransfersAccepted(call) = Accepts(call.token, Contract, call.caller)
            BY <2>3 DEF TransfersAccepted
        <3>4. answer(call) # FeeRecipientNotSet
            BY <3>2, AnswerCases, CorruptionCodes
        <3>5. answer(call) = HostTrap => ~TransfersAccepted(call)
            BY <3>2, AnswerCases
        <3> QED
            BY <2>3, <3>3, <3>4, <3>5, Zenon
    <2> QED
        BY <2>1, <2>2, <2>3 DEF UserCall
<1> QED
    BY <1>1, RejectionsHarmless, TypeCorrectness, FeePayability, CreditSafety,
       FiniteBalanceInvariance, Solvency, PTL

\* The inductive form of RejectedWithdrawalStands: the credit of a withdrawal the
\* token refused still covers it.
RejectedCovered ==
    rejected # None =>
        /\ rejected.fn = "withdraw"
        /\ rejected.caller \in Account /\ rejected.token \in Token
        /\ rejected.amount \in Int /\ rejected.amount > 0
        /\ get_balance(rejected.caller, rejected.token) >= rejected.amount

\* Only a withdrawal by its owner lowers a credit, and that one is no longer
\* remembered.
LEMMA NextRejectedCovered ==
    TypeOK /\ RejectedCovered /\ [RejectionNext]_rejectionVars => RejectedCovered'
<1> SUFFICES ASSUME TypeOK, RejectedCovered, [RejectionNext]_rejectionVars
             PROVE  RejectedCovered'
    OBVIOUS
<1>1. ASSUME UNCHANGED <<Balance, rejected>>
      PROVE  RejectedCovered'
    BY <1>1 DEF RejectedCovered, get_balance
<1>2. ASSUME NEW caller \in Account, AdminStep(caller), UNCHANGED rejected
      PROVE  RejectedCovered'
    BY <1>1, <1>2, AdminFrame DEF funds
<1>3. ASSUME NEW caller \in Account, RegistrationStep(caller), UNCHANGED rejected
      PROVE  RejectedCovered'
    BY <1>1, <1>3 DEF RegistrationStep, register, update_profile, unregister, funds
<1>4. ASSUME NEW from \in Account, NEW creator \in Account, NEW token \in Token,
             NEW amount \in Amount, accepted_tip(from, creator, token, amount)
      PROVE  RejectedCovered'
    <2>1. tip(from, creator, token, amount) /\ rejected' = rejected
        BY <1>4 DEF accepted_tip
    <2>2. CreatorAmount(amount, FeeOf(amount)) \in Nat
        <3>1. amount \in Nat
            BY <2>1, NumberAssumption DEF tip, CanTip, TipAccepted, MeetsMinimum
        <3>2. FeeOf(amount) \in 0 .. amount
            BY <3>1, FeeFloor, Zenon
        <3> HIDE DEF FeeOf
        <3> QED
            BY <3>1, <3>2 DEF CreatorAmount
    <2>3. ASSUME NEW owner \in Account, NEW asset \in Token
          PROVE  /\ get_balance(owner, asset) \in Nat
                 /\ get_balance(owner, asset)' \in Nat
                 /\ get_balance(owner, asset)' >= get_balance(owner, asset)
        BY <2>1, <2>2, TipEffect, CreditType
    <2> SUFFICES ASSUME rejected # None, NEW owner \in Account, NEW asset \in Token,
                        rejected.caller = owner, rejected.token = asset,
                        rejected.amount \in Int,
                        get_balance(owner, asset) >= rejected.amount
                 PROVE  get_balance(owner, asset)' >= rejected.amount
        BY <2>1 DEF RejectedCovered, get_balance
    <2> DEFINE credit == get_balance(owner, asset)
               creditNext == get_balance(owner, asset)'
    <2>4. credit \in Nat /\ creditNext \in Nat /\ creditNext >= credit
        BY <2>3, Zenon
    <2>5. credit >= rejected.amount
        OBVIOUS
    <2> HIDE DEF credit
    <2>6. creditNext >= rejected.amount
        <3> HIDE DEF creditNext
        <3> QED
            BY <2>4, <2>5
    <2> QED
        BY <2>6
<1>5. ASSUME NEW caller \in Account, NEW token \in Token, NEW amount \in Amount,
             accepted_withdraw(caller, token, amount)
      PROVE  RejectedCovered'
    <2>1. withdraw(caller, token, amount)
        BY <1>5 DEF accepted_withdraw
    <2>2. CASE rejected' = None
        BY <2>2 DEF RejectedCovered
    <2>3. CASE rejected' # None
        <3>1. /\ rejected' = rejected /\ rejected # None
              /\ ~(rejected.caller = caller /\ rejected.token = token)
            BY <1>5, <2>3 DEF accepted_withdraw
        <3>2. rejected.caller \in Account /\ rejected.token \in Token
            BY <3>1 DEF RejectedCovered
        <3>3. get_balance(rejected.caller, rejected.token)'
                 = get_balance(rejected.caller, rejected.token)
            BY <2>1, <3>1, <3>2, WithdrawEffect
        <3> QED
            BY <3>1, <3>3 DEF RejectedCovered, get_balance
    <2> QED
        BY <2>2, <2>3
<1>6. ASSUME NEW caller \in Account, NEW token \in Token, NEW amount \in Amount,
             rejected_withdraw(caller, token, amount)
      PROVE  RejectedCovered'
    <2>1. /\ rejected' = [fn |-> "withdraw", caller |-> caller,
                          token |-> token, amount |-> amount]
          /\ UNCHANGED Balance
          /\ amount > 0 /\ get_balance(caller, token) >= amount
        BY <1>6 DEF rejected_withdraw, vars, funds, CanWithdraw, WithdrawAccepted,
                    SufficientBalance
    <2>2. amount \in Int
        BY NumberAssumption
    <2> QED
        BY <2>1, <2>2 DEF RejectedCovered, get_balance
<1>7. ASSUME NEW src \in Account, NEW dst \in DepositTarget, NEW token \in Token,
             NEW amount \in Amount, accepted_transfer(src, dst, token, amount),
             UNCHANGED rejected
      PROVE  RejectedCovered'
    BY <1>1, <1>7 DEF accepted_transfer, direct_transfer
<1>8. ASSUME NEW holding \in Freezable, freeze(holding) \/ thaw(holding)
      PROVE  RejectedCovered'
    BY <1>1, <1>8 DEF freeze, thaw, vars, funds
<1>9. CASE UNCHANGED rejectionVars
    BY <1>1, <1>9 DEF rejectionVars, vars, funds
<1> QED
    BY <1>2, <1>3, <1>4, <1>5, <1>6, <1>7, <1>8, <1>9 DEF RejectionNext

\* A withdrawal the token has refused succeeds when it is repeated after the
\* refusal has ended, for any number of creators and tokens and whatever
\* happened in between.
THEOREM RejectedWithdrawals == RejectionSpec => []RejectedWithdrawalStands
<1>1. RejectionInit => RejectedCovered
    BY DEF RejectionInit, RejectedCovered
<1>2. TypeOK /\ CountInv /\ NoStrandedCredit /\ CreditWithdrawable /\ RejectedCovered
         => RejectedWithdrawalStands
    <2> SUFFICES ASSUME TypeOK, CountInv, NoStrandedCredit, CreditWithdrawable,
                        RejectedCovered, rejected # None, ~Paused,
                        Accepts(rejected.token, Contract, rejected.caller)
                 PROVE  answer(rejected) = Ok
        BY DEF RejectedWithdrawalStands
    <2> DEFINE credit == get_balance(rejected.caller, rejected.token)
    <2>1. /\ rejected.fn = "withdraw"
          /\ rejected.caller \in Account /\ rejected.token \in Token
          /\ rejected.amount \in Int /\ rejected.amount > 0
          /\ credit >= rejected.amount
        BY DEF RejectedCovered
    <2>2. credit \in Nat
        BY <2>1, CreditType
    <2>3. rejected.amount \in 1 .. credit /\ credit > 0
        <3> HIDE DEF credit
        <3> QED
            BY <2>1, <2>2
    <2>4. check_initialized_and_not_paused
        <3>1. rejected.caller \in DOMAIN Profile
            BY <2>1, <2>3 DEF NoStrandedCredit, is_creator
        <3> QED
            BY <3>1 DEF CountInv, check_initialized_and_not_paused
    <2>5. CanWithdraw(rejected.caller, rejected.token, rejected.amount)
        BY <2>1, <2>3, <2>4 DEF CreditWithdrawable
    <2>6. outcome(rejected) = Ok
        BY <2>1, <2>5, OutcomeTable, WithdrawOk
    <2>7. TransfersAccepted(rejected)
        BY <2>1 DEF TransfersAccepted
    <2> QED
        BY <2>6, <2>7, AnswerCases
<1> QED
    BY <1>1, <1>2, NextRejectedCovered, RejectionsHarmless, TypeCorrectness,
       CountInvariance, CreditSafety, CreditWithdrawal, PTL DEF RejectionSpec

==============================================================================
