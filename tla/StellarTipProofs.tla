--------------------------- MODULE StellarTipProofs ---------------------------
(***************************************************************************)
(* Proofs, for every value of the constants, of the safety properties of   *)
(* StellarTip that its runs check on small instances.                      *)
(***************************************************************************)
EXTENDS StellarTipRefinement, StellarTipErrors, FiniteSetTheorems,
        WellFoundedInduction, TLAPS

------------------------------------------------------------------------------
(* The operators the actions are built from.                               *)

\* A fee of at most 100% is a natural number no larger than the amount.
LEMMA FeeBounds ==
    ASSUME NEW amount \in Nat, NEW bps \in 0 .. MAX_FEE_BPS
    PROVE  (amount * bps) \div MAX_FEE_BPS \in 0 .. amount
<1> DEFINE product == amount * bps
<1>1. product \in Nat /\ product <= amount * 10000
    BY DEF MAX_FEE_BPS
<1> HIDE DEF product
<1>2. product \div 10000 \in 0 .. amount
    BY <1>1
<1> QED
    BY <1>2 DEF MAX_FEE_BPS, product

\* Put writes one entry, keeps the others, and keeps the type of a map.
LEMMA PutMap ==
    ASSUME NEW map, NEW key, NEW value
    PROVE  /\ DOMAIN Put(map, key, value) = DOMAIN map \cup {key}
           /\ Put(map, key, value)[key] = value
           /\ \A k \in DOMAIN map : k # key => Put(map, key, value)[k] = map[k]
BY DEF Put

\* Putting an entry of the right type keeps the type of a map.
LEMMA PutType ==
    ASSUME NEW map, NEW K, NEW R, MapOf(map, K, R), NEW key \in K, NEW value \in R
    PROVE  MapOf(Put(map, key, value), K, R)
BY DEF Put, MapOf

\* Remove drops one entry, keeps the others, and keeps the type of a map.
LEMMA RemoveMap ==
    ASSUME NEW map, NEW key
    PROVE  /\ DOMAIN Remove(map, key) = DOMAIN map \ {key}
           /\ \A k \in DOMAIN map : k # key => Remove(map, key)[k] = map[k]
BY DEF Remove

\* Removing an entry keeps the type of a map.
LEMMA RemoveType ==
    ASSUME NEW map, NEW K, NEW R, MapOf(map, K, R), NEW key
    PROVE  MapOf(Remove(map, key), K, R)
BY DEF Remove, MapOf

\* A read with a default returns a value of the map's type or the default.
LEMMA GetOrType ==
    ASSUME NEW map, NEW K, NEW R, MapOf(map, K, R), NEW key, NEW default \in R
    PROVE  GetOr(map, key, default) \in R
BY DEF GetOr, MapOf

\* The empty map has every map type.
LEMMA EmptyMapType ==
    ASSUME NEW K, NEW R
    PROVE  MapOf(EmptyMap, K, R)
BY DEF MapOf, EmptyMap

\* A transfer the sender can afford keeps every holding a natural number.
LEMMA TransferType ==
    ASSUME NEW held \in [Address \X Token -> Nat],
           NEW token \in Token, NEW src \in Address, NEW dst \in Address,
           NEW amount \in Nat, CanTransfer(held, token, src, amount)
    PROVE  Transferred(held, token, src, dst, amount) \in [Address \X Token -> Nat]
<1>1. [held EXCEPT ![<<src, token>>] = @ - amount] \in [Address \X Token -> Nat]
    BY DEF CanTransfer
<1> QED
    BY <1>1 DEF Transferred

------------------------------------------------------------------------------
(* Type correctness.                                                       *)

\* Each part of TypeOK depends on its own variables only.
LEMMA TypeOKUnchanged ==
    /\ ConfigTypeOK /\ UNCHANGED config => ConfigTypeOK'
    /\ RegistryTypeOK /\ UNCHANGED registry => RegistryTypeOK'
    /\ FundsTypeOK /\ UNCHANGED funds => FundsTypeOK'
<1>1. ConfigTypeOK /\ UNCHANGED config => ConfigTypeOK'
    BY DEF ConfigTypeOK, config
<1>2. RegistryTypeOK /\ UNCHANGED registry => RegistryTypeOK'
    BY DEF RegistryTypeOK, registry
<1>3. FundsTypeOK /\ UNCHANGED funds => FundsTypeOK'
    BY DEF FundsTypeOK, funds
<1> QED
    BY <1>1, <1>2, <1>3

\* Nothing is stored at first, and accounts hold the supply.
LEMMA InitTypeOK == Init => TypeOK
<1> SUFFICES ASSUME Init PROVE TypeOK
    OBVIOUS
<1> USE NumberAssumption DEF Init
<1>1. ConfigTypeOK
    <2>1. Paused \in BOOLEAN
        OBVIOUS
    <2> QED
        BY <2>1 DEF ConfigTypeOK, MAX_FEE_BPS
<1>2. RegistryTypeOK
    BY EmptyMapType DEF RegistryTypeOK
<1>3. FundsTypeOK
    BY EmptyMapType DEF FundsTypeOK
<1> QED
    BY <1>1, <1>2, <1>3 DEF TypeOK

\* An administrator's call keeps the types of the configuration; init also
\* writes the creator count.
LEMMA AdminTypeOK ==
    ASSUME TypeOK, NEW caller \in Account, AdminStep(caller)
    PROVE  TypeOK'
<1> USE AddressAssumption, NumberAssumption
<1>1. ASSUME NEW recipient \in RecipientInput, NEW bps \in FeeInput,
             NEW maxCreators \in CapInput, NEW maxTips \in CapInput,
             NEW minTip \in MinInput,
             init(caller, recipient, bps, maxCreators, maxTips, minTip)
      PROVE  TypeOK'
    <2>1. ConfigTypeOK'
        <3>1. Paused' \in BOOLEAN
            BY <1>1 DEF init
        <3>2. FeeBps' \in 0 .. MAX_FEE_BPS
            BY <1>1 DEF init, ValidFee
        <3> QED
            BY <1>1, <3>1, <3>2 DEF ConfigTypeOK, init, Address
    <2>2. RegistryTypeOK'
        BY <1>1 DEF TypeOK, RegistryTypeOK, init
    <2>3. FundsTypeOK'
        BY <1>1, TypeOKUnchanged DEF TypeOK, init
    <2> QED
        BY <2>1, <2>2, <2>3 DEF TypeOK
<1>2. ASSUME UNCHANGED <<registry, funds>>, ConfigTypeOK'
      PROVE  TypeOK'
    BY <1>2, TypeOKUnchanged DEF TypeOK
<1>3. ASSUME NEW newAdmin \in AdminInput, set_admin(caller, newAdmin)
      PROVE  TypeOK'
    BY <1>2, <1>3 DEF TypeOK, ConfigTypeOK, set_admin
<1>4. ASSUME pause(caller) \/ unpause(caller)
      PROVE  TypeOK'
    BY <1>2, <1>4 DEF TypeOK, ConfigTypeOK, pause, unpause
<1>5. ASSUME NEW bps \in FeeInput, set_fee_percentage(caller, bps)
      PROVE  TypeOK'
    BY <1>2, <1>5 DEF TypeOK, ConfigTypeOK, set_fee_percentage, ValidFee
<1>6. ASSUME NEW recipient \in RecipientInput, set_fee_recipient(caller, recipient)
      PROVE  TypeOK'
    BY <1>2, <1>6 DEF TypeOK, ConfigTypeOK, set_fee_recipient
<1>7. ASSUME NEW cap \in CapInput,
             set_max_creators(caller, cap) \/ set_max_tips_per_creator(caller, cap)
      PROVE  TypeOK'
    BY <1>2, <1>7 DEF TypeOK, ConfigTypeOK, set_max_creators,
                      set_max_tips_per_creator
<1>8. ASSUME NEW minimum \in MinInput, set_min_tip_amount(caller, minimum)
      PROVE  TypeOK'
    BY <1>2, <1>8 DEF TypeOK, ConfigTypeOK, set_min_tip_amount
<1> QED
    BY <1>1, <1>3, <1>4, <1>5, <1>6, <1>7, <1>8 DEF AdminStep

\* Registering, updating and leaving keep the types.
LEMMA RegistrationTypeOK ==
    ASSUME TypeOK, NEW caller \in Account,
           \/ \E username \in Username, text \in Text :
                 register(caller, username, text)
           \/ \E text \in Text : update_profile(caller, text)
           \/ unregister(caller)
    PROVE  TypeOK'
<1> USE NumberAssumption DEF TypeOK
<1>1. ASSUME NEW username \in Username, NEW text \in Text,
             register(caller, username, text)
      PROVE  TypeOK'
    <2>1. RegistryTypeOK'
        <3> DEFINE profile == [username |-> username, text |-> text]
        <3>1. profile \in [username : Username, text : Text]
            OBVIOUS
        <3>2. Profile' = Put(Profile, caller, profile)
            BY <1>1 DEF register
        <3>3. CreatorCount' \in 0 .. MAX_U32
            BY <1>1 DEF RegistryTypeOK, register
        <3>4. UsernameToAddress' = Put(UsernameToAddress, username, caller)
            BY <1>1 DEF register
        <3> HIDE DEF profile
        <3> QED
            BY <3>1, <3>2, <3>3, <3>4, PutType DEF RegistryTypeOK
    <2>2. FundsTypeOK'
        <3>1. MapOf(TipCount', Account, 0 .. MAX_U64)
            BY <1>1, PutType DEF FundsTypeOK, register
        <3> QED
            BY <1>1, <3>1 DEF FundsTypeOK, register
    <2> QED
        BY <1>1, <2>1, <2>2, TypeOKUnchanged DEF register
<1>2. ASSUME NEW text \in Text, update_profile(caller, text)
      PROVE  TypeOK'
    <2>1. RegistryTypeOK'
        BY <1>2 DEF RegistryTypeOK, MapOf, update_profile
    <2> QED
        BY <1>2, <2>1, TypeOKUnchanged DEF update_profile
<1>3. CASE unregister(caller)
    <2>1. RegistryTypeOK'
        BY <1>3, RemoveType
        DEF RegistryTypeOK, unregister, CountAfterUnregister, FreedUsernames
    <2>2. FundsTypeOK'
        BY <1>3, RemoveType DEF FundsTypeOK, unregister
    <2> QED
        BY <1>3, <2>1, <2>2, TypeOKUnchanged DEF unregister
<1> QED
    BY <1>1, <1>2, <1>3

\* A credit is a natural number within i128, recorded or not.
LEMMA CreditType ==
    ASSUME TypeOK, NEW creator \in Account, NEW token \in Token
    PROVE  /\ get_balance(creator, token) \in 0 .. MAX_I128
           /\ get_balance(creator, token) \in Nat
<1>1. /\ MapOf(Balance, Account \X Token, 0 .. MAX_I128)
      /\ <<creator, token>> \in Account \X Token
    BY DEF TypeOK, FundsTypeOK
<1>2. 0 \in 0 .. MAX_I128
    BY NumberAssumption
<1>3. get_balance(creator, token) \in 0 .. MAX_I128
    BY <1>1, <1>2, GetOrType DEF get_balance
<1> QED
    BY <1>3, NumberAssumption

\* A tip's credit and index keep their types: the fee leaves a natural number
\* for the creator, and the overflow guards bound what is stored.
LEMMA TipBooksTypeOK ==
    ASSUME TypeOK, NEW from \in Account, NEW creator \in Account,
           NEW token \in Token, NEW amount \in Amount,
           TipAccepted(creator, token, amount),
           TipBooked(from, creator, token, amount),
           tokenBalance' \in [Address \X Token -> Nat]
    PROVE  TypeOK'
<1> DEFINE index == get_tip_count(creator)
           fee == FeeOf(amount)
           credit == get_balance(creator, token) + CreatorAmount(amount, fee)
           record == [from |-> from, token |-> token, amount |-> amount]
<1> USE AddressAssumption, NumberAssumption
<1>1. amount \in Nat /\ fee \in 0 .. amount
    BY FeeBounds DEF TipAccepted, TipBooked, MeetsMinimum, FeeOf, TypeOK, ConfigTypeOK
<1>2. index \in 0 .. MAX_U64 /\ index + 1 \in 0 .. MAX_U64
    BY GetOrType DEF TipAccepted, TipBooked, get_tip_count, TypeOK, FundsTypeOK
<1>3. credit \in 0 .. MAX_I128
    <2>1. get_balance(creator, token) \in 0 .. MAX_I128
        BY CreditType
    <2>2. credit <= MAX_I128
        BY DEF TipAccepted
    <2> QED
        BY <1>1, <2>1, <2>2 DEF CreatorAmount
<1>4. TipCount' = Put(TipCount, creator, index + 1)
    BY DEF TipAccepted, TipBooked
<1>5. Balance' = Put(Balance, <<creator, token>>, credit)
    BY DEF TipAccepted, TipBooked
<1>6. Tip' = Put(Tip, <<creator, index>>, record)
    BY DEF TipAccepted, TipBooked, RecordIndex
<1>7. CreatorTokens' = Put(CreatorTokens, creator, TokensAfterTip(creator, token))
    BY DEF TipAccepted, TipBooked
<1>8. TokensAfterTip(creator, token) \in SUBSET Token
    BY GetOrType DEF TokensAfterTip, get_all_tokens, TypeOK, FundsTypeOK
<1> HIDE DEF index, fee, credit
<1>9. FundsTypeOK'
    <2>1. MapOf(TipCount', Account, 0 .. MAX_U64)
        BY <1>2, <1>4, PutType DEF TypeOK, FundsTypeOK
    <2>2. MapOf(Balance', Account \X Token, 0 .. MAX_I128)
        <3>1. <<creator, token>> \in Account \X Token
            OBVIOUS
        <3> QED
            BY <1>3, <1>5, <3>1, PutType DEF TypeOK, FundsTypeOK
    <2>3. MapOf(CreatorTokens', Account, SUBSET Token)
        BY <1>7, <1>8, PutType DEF TypeOK, FundsTypeOK
    <2>4. MapOf(Tip', Account \X (0 .. MAX_U64),
                [from : Account, token : Token, amount : Int])
        <3>1. /\ record \in [from : Account, token : Token, amount : Int]
              /\ <<creator, index>> \in Account \X (0 .. MAX_U64)
            BY <1>2
        <3> HIDE DEF record
        <3> QED
            BY <3>1, <1>6, PutType DEF TypeOK, FundsTypeOK
    <2> QED
        BY <2>1, <2>2, <2>3, <2>4 DEF FundsTypeOK
<1> QED
    BY <1>9, TypeOKUnchanged DEF TipAccepted, TipBooked, TypeOK

\* The transfers of a tip leave natural balances.
LEMMA TipTypeOK ==
    ASSUME TypeOK, NEW from \in Account, NEW creator \in Account,
           NEW token \in Token, NEW amount \in Amount,
           tip(from, creator, token, amount)
    PROVE  TypeOK'
<1> DEFINE fee == FeeOf(amount)
           received == Transferred(tokenBalance, token, from, Contract, amount)
<1> USE AddressAssumption, NumberAssumption
<1>1. amount \in Nat /\ fee \in 0 .. amount
    BY FeeBounds DEF tip, CanTip, TipAccepted, MeetsMinimum, FeeOf, TypeOK, ConfigTypeOK
<1>2. tokenBalance' \in [Address \X Token -> Nat]
    <2>1. received \in [Address \X Token -> Nat]
        BY <1>1, TransferType DEF tip, CanTip, TipAccepted, TypeOK, FundsTypeOK, Address
    <2>2. CASE fee > 0
        <3>1. FeeBps > 0
            BY <1>1, <2>2 DEF FeeOf, MAX_FEE_BPS, TypeOK, ConfigTypeOK
        <3>2. FeeRecipient \in Address /\ Contract \in Address /\ fee \in Nat
            BY <1>1, <3>1 DEF tip, CanTip, TipAccepted, TypeOK, ConfigTypeOK, Address
        <3>3. CanTransfer(received, token, Contract, fee)
            BY <2>2 DEF tip, CanTip, TipAccepted
        <3>4. tokenBalance'
                 = Transferred(received, token, Contract, FeeRecipient, fee)
            BY <2>2 DEF tip, CanTip, TipAccepted
        <3> QED
            BY <2>1, <3>2, <3>3, <3>4, TransferType
    <2>3. CASE ~(fee > 0)
        BY <2>1, <2>3 DEF tip, CanTip, TipAccepted
    <2> QED
        BY <2>2, <2>3
<1> HIDE DEF fee, received
<1> QED
    BY <1>2, TipBooksTypeOK DEF tip, CanTip

\* A withdrawal within the balance leaves a credit that is not negative.
LEMMA WithdrawBooksTypeOK ==
    ASSUME TypeOK, NEW caller \in Account, NEW token \in Token,
           NEW amount \in Amount, WithdrawAccepted(caller, token, amount),
           WithdrawBooked(caller, token, amount),
           tokenBalance' \in [Address \X Token -> Nat]
    PROVE  TypeOK'
<1> DEFINE remaining == get_balance(caller, token) - amount
<1> USE AddressAssumption, NumberAssumption
<1>1. amount \in Nat /\ remaining \in 0 .. MAX_I128
    <2>1. get_balance(caller, token) \in 0 .. MAX_I128
        BY CreditType
    <2> QED
        BY <2>1 DEF WithdrawAccepted, WithdrawBooked, SufficientBalance
<1>2. MapOf(Balance', Account \X Token, 0 .. MAX_I128)
    <2>1. \/ Balance' = Put(Balance, <<caller, token>>, remaining)
          \/ Balance' = Remove(Balance, <<caller, token>>)
        BY DEF WithdrawAccepted, WithdrawBooked, BalanceAfterWithdraw
    <2>2. <<caller, token>> \in Account \X Token
        OBVIOUS
    <2>3. MapOf(Balance, Account \X Token, 0 .. MAX_I128)
        BY DEF TypeOK, FundsTypeOK
    <2> HIDE DEF remaining
    <2> QED
        BY <1>1, <2>1, <2>2, <2>3, PutType, RemoveType
<1>3. MapOf(CreatorTokens', Account, SUBSET Token)
    <2> DEFINE left == get_all_tokens(caller) \ {token}
    <2>1. left \in SUBSET Token
        BY GetOrType DEF get_all_tokens, TypeOK, FundsTypeOK
    <2>2. \/ CreatorTokens' = CreatorTokens
          \/ CreatorTokens' = Remove(CreatorTokens, caller)
          \/ CreatorTokens' = Put(CreatorTokens, caller, left)
        BY DEF WithdrawAccepted, WithdrawBooked, TokensAfterWithdraw
    <2> HIDE DEF left
    <2> QED
        BY <2>1, <2>2, PutType, RemoveType DEF TypeOK, FundsTypeOK
<1>4. FundsTypeOK'
    BY <1>2, <1>3 DEF FundsTypeOK, TypeOK, WithdrawAccepted, WithdrawBooked
<1> QED
    BY <1>4, TypeOKUnchanged DEF WithdrawAccepted, WithdrawBooked, TypeOK

LEMMA WithdrawTypeOK ==
    ASSUME TypeOK, NEW caller \in Account, NEW token \in Token,
           NEW amount \in Amount, withdraw(caller, token, amount)
    PROVE  TypeOK'
<1>1. amount \in Nat
    BY NumberAssumption DEF withdraw, CanWithdraw, WithdrawAccepted
<1>2. tokenBalance' \in [Address \X Token -> Nat]
    BY <1>1, AddressAssumption, TransferType
    DEF withdraw, CanWithdraw, TypeOK, FundsTypeOK, Address
<1> QED
    BY <1>2, WithdrawBooksTypeOK DEF withdraw, CanWithdraw

\* Every step keeps the types.
LEMMA NextTypeOK == TypeOK /\ [Next]_vars => TypeOK'
<1> SUFFICES ASSUME TypeOK, [Next]_vars PROVE TypeOK'
    OBVIOUS
<1>1. ASSUME NEW caller \in Account, UserStep(caller)
      PROVE  TypeOK'
    BY <1>1, RegistrationTypeOK, TipTypeOK, WithdrawTypeOK DEF UserStep
<1>2. ASSUME NEW src \in Account, TokenStep(src)
      PROVE  TypeOK'
    <2>1. PICK dst \in DepositTarget, token \in Token, amount \in Amount :
             direct_transfer(src, dst, token, amount)
        BY <1>2 DEF TokenStep
    <2>2. tokenBalance' \in [Address \X Token -> Nat]
        <3>1. amount \in Nat /\ src \in Address /\ dst \in Address
            BY <2>1, AddressAssumption, NumberAssumption DEF direct_transfer, Address
        <3>2. /\ CanTransfer(tokenBalance, token, src, amount)
              /\ tokenBalance' = Transferred(tokenBalance, token, src, dst, amount)
            BY <2>1 DEF direct_transfer
        <3> QED
            BY <3>1, <3>2, TransferType DEF TypeOK, FundsTypeOK
    <2>3. FundsTypeOK'
        BY <2>1, <2>2 DEF direct_transfer, TypeOK, FundsTypeOK
    <2> QED
        BY <2>1, <2>3, TypeOKUnchanged DEF direct_transfer, TypeOK
<1>3. CASE UNCHANGED vars
    BY <1>3, TypeOKUnchanged DEF TypeOK, vars
<1> QED
    BY <1>1, <1>2, <1>3, AdminTypeOK DEF Next

\* Type correctness of the contract's storage in every reachable state.
THEOREM TypeCorrectness == Spec => []TypeOK
<1> QED
    BY InitTypeOK, NextTypeOK, PTL DEF Spec

------------------------------------------------------------------------------
(* Which entry points touch what.                                          *)

\* An administrator's call leaves profiles, usernames and all funds alone, and
\* after initialization the creator count too.
LEMMA AdminFrame ==
    ASSUME NEW caller \in Account, AdminStep(caller)
    PROVE  /\ UNCHANGED <<Profile, UsernameToAddress, funds>>
           /\ Admin # None => UNCHANGED registry
           /\ Admin = None => CreatorCount' = 0
           /\ Admin' # None
<1> USE AddressAssumption DEF registry, funds
<1>1. ASSUME NEW recipient \in RecipientInput, NEW bps \in FeeInput,
             NEW maxCreators \in CapInput, NEW maxTips \in CapInput,
             NEW minTip \in MinInput,
             init(caller, recipient, bps, maxCreators, maxTips, minTip)
      PROVE  /\ Admin = None /\ Admin' # None /\ CreatorCount' = 0
             /\ UNCHANGED <<Profile, UsernameToAddress, funds>>
    BY <1>1 DEF init, NotYetInitialized, Address
<1>2. ASSUME NEW newAdmin \in AdminInput, set_admin(caller, newAdmin)
      PROVE  Admin # None /\ Admin' # None /\ UNCHANGED <<registry, funds>>
    BY <1>2 DEF set_admin, AuthorizedAdmin
<1>3. ASSUME \/ pause(caller)
             \/ unpause(caller)
             \/ \E bps \in FeeInput : set_fee_percentage(caller, bps)
             \/ \E recipient \in RecipientInput : set_fee_recipient(caller, recipient)
             \/ \E cap \in CapInput : set_max_creators(caller, cap)
             \/ \E cap \in CapInput : set_max_tips_per_creator(caller, cap)
             \/ \E minimum \in MinInput : set_min_tip_amount(caller, minimum)
      PROVE  Admin # None /\ UNCHANGED <<Admin, registry, funds>>
    BY <1>3 DEF AuthorizedAdmin, pause, unpause, set_fee_percentage,
                set_fee_recipient, set_max_creators, set_max_tips_per_creator,
                set_min_tip_amount
<1> QED
    BY <1>1, <1>2, <1>3 DEF AdminStep

\* The steps that move tokens.
MoneyStep ==
    \/ \E from, creator \in Account, token \in Token, amount \in Amount :
          tip(from, creator, token, amount)
    \/ \E caller \in Account, token \in Token, amount \in Amount :
          withdraw(caller, token, amount)
    \/ \E src \in Account, dst \in DepositTarget, token \in Token, amount \in Amount :
          direct_transfer(src, dst, token, amount)

\* Moving tokens changes neither the configuration nor the registry.
LEMMA MoneyFrame ==
    ASSUME MoneyStep
    PROVE  UNCHANGED <<config, registry>>
<1>1. ASSUME NEW from \in Account, NEW creator \in Account, NEW token \in Token,
             NEW amount \in Amount, tip(from, creator, token, amount)
      PROVE  UNCHANGED <<config, registry>>
    BY <1>1 DEF tip, CanTip, TipAccepted, TipBooked
<1>2. ASSUME NEW caller \in Account, NEW token \in Token, NEW amount \in Amount,
             withdraw(caller, token, amount)
      PROVE  UNCHANGED <<config, registry>>
    BY <1>2 DEF withdraw, CanWithdraw, WithdrawAccepted, WithdrawBooked
<1>3. ASSUME NEW src \in Account, NEW dst \in DepositTarget, NEW token \in Token,
             NEW amount \in Amount, direct_transfer(src, dst, token, amount)
      PROVE  UNCHANGED <<config, registry>>
    BY <1>3 DEF direct_transfer
<1> QED
    BY <1>1, <1>2, <1>3 DEF MoneyStep

\* A step administers, registers a creator, updates a profile, unregisters a
\* creator, moves tokens, or changes nothing.
LEMMA StepKinds ==
    ASSUME [Next]_vars
    PROVE  \/ \E caller \in Account : AdminStep(caller)
           \/ \E caller \in Account, username \in Username, text \in Text :
                 register(caller, username, text)
           \/ \E caller \in Account, text \in Text : update_profile(caller, text)
           \/ \E caller \in Account : unregister(caller)
           \/ MoneyStep
           \/ UNCHANGED vars
BY DEF Next, UserStep, TokenStep, MoneyStep

------------------------------------------------------------------------------
(* The registry.                                                           *)

\* RegistryConsistent is inductive once the types are known: the only steps
\* that write a username or a profile keep the two maps inverse.
LEMMA NextRegistryConsistent ==
    TypeOK /\ RegistryConsistent /\ [Next]_vars => RegistryConsistent'
<1> SUFFICES ASSUME TypeOK, RegistryConsistent, [Next]_vars
             PROVE  RegistryConsistent'
    OBVIOUS
<1> USE AddressAssumption DEF TypeOK, RegistryTypeOK, MapOf, Address
<1>1. ASSUME UNCHANGED <<Profile, UsernameToAddress>>
      PROVE  RegistryConsistent'
    BY <1>1 DEF RegistryConsistent, get_creator_from_username, is_creator
<1>2. ASSUME NEW caller \in Account, NEW username \in Username,
             NEW text \in Text, register(caller, username, text)
      PROVE  RegistryConsistent'
    BY <1>2 DEF RegistryConsistent, get_creator_from_username, is_creator,
                GetOr, register, Registrable, Put
<1>3. ASSUME NEW caller \in Account, NEW text \in Text,
             update_profile(caller, text)
      PROVE  RegistryConsistent'
    BY <1>3 DEF RegistryConsistent, get_creator_from_username, is_creator,
                update_profile
<1>4. ASSUME NEW caller \in Account, unregister(caller)
      PROVE  RegistryConsistent'
    BY <1>4 DEF RegistryConsistent, get_creator_from_username, is_creator,
                GetOr, unregister, CanUnregister, FreedUsernames, Remove
<1>5. ASSUME NEW caller \in Account, AdminStep(caller)
      PROVE  RegistryConsistent'
    BY <1>1, <1>5, AdminFrame
<1>6. CASE MoneyStep \/ UNCHANGED vars
    BY <1>1, <1>6, MoneyFrame DEF vars, registry
<1> QED
    BY <1>2, <1>3, <1>4, <1>5, <1>6, StepKinds

\* Profiles and usernames are inverse to each other in every reachable state.
THEOREM RegistryConsistency == Spec => []RegistryConsistent
<1>1. Init => RegistryConsistent
    BY DEF Init, RegistryConsistent, EmptyMap
<1> QED
    BY <1>1, NextRegistryConsistent, TypeCorrectness, PTL DEF Spec

\* The inductive form of CreatorCountExact: the registered creators are finitely
\* many, and none is registered before init resets the count.
CountInv ==
    /\ IsFiniteSet(DOMAIN Profile)
    /\ CreatorCount = Cardinality(DOMAIN Profile)
    /\ Admin = None => DOMAIN Profile = {}

\* Only register and unregister change the number of profiles, and each counts.
LEMMA NextCountInv == TypeOK /\ CountInv /\ [Next]_vars => CountInv'
<1> SUFFICES ASSUME TypeOK, CountInv, [Next]_vars
             PROVE  CountInv'
    OBVIOUS
<1>1. ASSUME UNCHANGED <<Admin, CreatorCount>>, DOMAIN Profile' = DOMAIN Profile
      PROVE  CountInv'
    BY <1>1 DEF CountInv
<1>2. ASSUME NEW caller \in Account, NEW username \in Username,
             NEW text \in Text, register(caller, username, text)
      PROVE  CountInv'
    <2>1. /\ Admin' # None
          /\ caller \notin DOMAIN Profile
          /\ CreatorCount' = CreatorCount + 1
        BY <1>2 DEF register, check_initialized_and_not_paused, Registrable, config
    <2>2. DOMAIN Profile' = DOMAIN Profile \cup {caller}
        BY <1>2, PutMap DEF register
    <2> QED
        BY <2>1, <2>2, FS_AddElement DEF CountInv
<1>3. ASSUME NEW caller \in Account, NEW text \in Text,
             update_profile(caller, text)
      PROVE  CountInv'
    BY <1>1, <1>3 DEF update_profile, config
<1>4. ASSUME NEW caller \in Account, unregister(caller)
      PROVE  CountInv'
    <2>1. /\ Admin' # None
          /\ caller \in DOMAIN Profile
          /\ CreatorCount' = CountAfterUnregister(CreatorCount)
        BY <1>4 DEF unregister, CanUnregister, check_initialized_and_not_paused, config
    <2>2. DOMAIN Profile' = DOMAIN Profile \ {caller}
        BY <1>4, RemoveMap DEF unregister
    <2>3. /\ IsFiniteSet(DOMAIN Profile')
          /\ Cardinality(DOMAIN Profile') = Cardinality(DOMAIN Profile) - 1
        BY <2>1, <2>2, FS_RemoveElement DEF CountInv
    <2>4. Cardinality(DOMAIN Profile') \in Nat
        BY <2>3, FS_CardinalityType
    <2> QED
        BY <2>1, <2>3, <2>4 DEF CountInv, CountAfterUnregister, TypeOK,
                                RegistryTypeOK
<1>5. ASSUME NEW caller \in Account, AdminStep(caller)
      PROVE  CountInv'
    <2>1. CASE Admin = None
        BY <1>5, <2>1, AdminFrame, FS_EmptySet DEF CountInv
    <2>2. CASE Admin # None
        BY <1>5, <2>2, AdminFrame DEF CountInv, registry
    <2> QED
        BY <2>1, <2>2
<1>6. CASE MoneyStep \/ UNCHANGED vars
    BY <1>1, <1>6, MoneyFrame DEF vars, registry, config
<1> QED
    BY <1>2, <1>3, <1>4, <1>5, <1>6, StepKinds

\* No creator is registered before init.
LEMMA InitCountInv == Init => CountInv
BY FS_EmptySet DEF Init, CountInv, EmptyMap

\* CountInv holds in every reachable state.
LEMMA CountInvariance == Spec => []CountInv
BY InitCountInv, NextCountInv, TypeCorrectness, PTL DEF Spec

\* The creator count is the number of profiles.
THEOREM CreatorCountExactness == Spec => []CreatorCountExact
<1>1. CountInv => CreatorCountExact
    BY DEF CountInv, CreatorCountExact
<1> QED
    BY <1>1, CountInvariance, PTL

------------------------------------------------------------------------------
(* What tip and withdraw do to credits and tracked tokens, read through    *)
(* the views.                                                              *)

\* A tip adds the amount less the fee to one credit, and tracks its token.
LEMMA TipBooksEffect ==
    ASSUME NEW from \in Account, NEW creator \in Account, NEW token \in Token,
           NEW amount \in Amount, TipBooked(from, creator, token, amount),
           NEW other \in Account, NEW asset \in Token
    PROVE  /\ get_balance(other, asset)' =
                 IF other = creator /\ asset = token
                 THEN get_balance(other, asset) + CreatorAmount(amount, FeeOf(amount))
                 ELSE get_balance(other, asset)
           /\ get_all_tokens(other)' =
                 IF other = creator
                 THEN get_all_tokens(other) \cup {token}
                 ELSE get_all_tokens(other)
<1> DEFINE credit == get_balance(creator, token)
                        + CreatorAmount(amount, FeeOf(amount))
           tracked == get_all_tokens(creator) \cup {token}
<1>1. Balance' = Put(Balance, <<creator, token>>, credit)
    BY DEF TipBooked
<1>2. CreatorTokens' = Put(CreatorTokens, creator, tracked)
    BY DEF TipBooked, TokensAfterTip
<1> HIDE DEF credit, tracked
<1>3. get_balance(other, asset)' =
         IF other = creator /\ asset = token THEN credit ELSE get_balance(other, asset)
    BY <1>1 DEF get_balance, GetOr, Put
<1>4. get_all_tokens(other)' =
         IF other = creator THEN tracked ELSE get_all_tokens(other)
    BY <1>2 DEF get_all_tokens, GetOr, Put
<1> QED
    BY <1>3, <1>4 DEF credit, tracked

LEMMA TipEffect ==
    ASSUME NEW from \in Account, NEW creator \in Account, NEW token \in Token,
           NEW amount \in Amount, tip(from, creator, token, amount),
           NEW other \in Account, NEW asset \in Token
    PROVE  /\ get_balance(other, asset)' =
                 IF other = creator /\ asset = token
                 THEN get_balance(other, asset) + CreatorAmount(amount, FeeOf(amount))
                 ELSE get_balance(other, asset)
           /\ get_all_tokens(other)' =
                 IF other = creator
                 THEN get_all_tokens(other) \cup {token}
                 ELSE get_all_tokens(other)
BY TipBooksEffect DEF tip

\* A withdrawal takes the amount from one credit, and stops tracking its token
\* when nothing remains.
LEMMA WithdrawBooksEffect ==
    ASSUME TypeOK, NEW caller \in Account, NEW token \in Token,
           NEW amount \in Amount, WithdrawAccepted(caller, token, amount),
           WithdrawBooked(caller, token, amount),
           NEW other \in Account, NEW asset \in Token
    PROVE  /\ get_balance(other, asset)' =
                 IF other = caller /\ asset = token
                 THEN get_balance(other, asset) - amount
                 ELSE get_balance(other, asset)
           /\ get_all_tokens(other)' =
                 IF other = caller /\ get_balance(caller, token) = amount
                 THEN get_all_tokens(other) \ {token}
                 ELSE get_all_tokens(other)
<1> DEFINE remaining == get_balance(caller, token) - amount
           left == get_all_tokens(caller) \ {token}
<1>1. remaining \in Nat /\ get_balance(caller, token) \in Nat /\ amount \in Nat
    BY NumberAssumption, CreditType DEF WithdrawAccepted, SufficientBalance
<1>2. Balance' = IF remaining > 0
                 THEN Put(Balance, <<caller, token>>, remaining)
                 ELSE Remove(Balance, <<caller, token>>)
    BY DEF WithdrawAccepted, WithdrawBooked, BalanceAfterWithdraw
<1>3. CASE remaining > 0
    <2>1. CreatorTokens' = CreatorTokens
        BY <1>3 DEF WithdrawAccepted, WithdrawBooked, TokensAfterWithdraw
    <2>2. get_balance(caller, token) # amount
        BY <1>1, <1>3
    <2>3. get_all_tokens(other)' = get_all_tokens(other)
        BY <2>1 DEF get_all_tokens, GetOr
    <2>4. Balance' = Put(Balance, <<caller, token>>, remaining)
        BY <1>2, <1>3
    <2> HIDE DEF remaining
    <2>5. get_balance(other, asset)' =
             IF other = caller /\ asset = token THEN remaining
                                                ELSE get_balance(other, asset)
        BY <2>4 DEF get_balance, GetOr, Put
    <2> QED
        BY <2>2, <2>3, <2>5 DEF remaining
<1>4. CASE ~(remaining > 0)
    <2>1. remaining = 0 /\ get_balance(caller, token) = amount
        BY <1>1, <1>4
    <2>2. CreatorTokens' =
             CASE token \notin get_all_tokens(caller) -> CreatorTokens
               [] OTHER -> IF left = {} THEN Remove(CreatorTokens, caller)
                                        ELSE Put(CreatorTokens, caller, left)
        BY <1>4 DEF WithdrawAccepted, WithdrawBooked, TokensAfterWithdraw
    <2>3. get_all_tokens(other)' =
             IF other = caller THEN left ELSE get_all_tokens(other)
        <3>1. CASE token \notin get_all_tokens(caller)
            BY <2>2, <3>1 DEF get_all_tokens, GetOr
        <3>2. CASE token \in get_all_tokens(caller) /\ left = {}
            <4>1. CreatorTokens' = Remove(CreatorTokens, caller)
                BY <2>2, <3>2
            <4> QED
                BY <3>2, <4>1 DEF get_all_tokens, GetOr, Remove
        <3>3. CASE token \in get_all_tokens(caller) /\ left # {}
            <4>1. CreatorTokens' = Put(CreatorTokens, caller, left)
                BY <2>2, <3>3
            <4> HIDE DEF left
            <4> QED
                BY <4>1 DEF get_all_tokens, GetOr, Put
        <3> QED
            BY <3>1, <3>2, <3>3
    <2>4. get_balance(other, asset)' =
             IF other = caller /\ asset = token THEN 0 ELSE get_balance(other, asset)
        <3>1. Balance' = Remove(Balance, <<caller, token>>)
            BY <1>2, <1>4
        <3> QED
            BY <3>1 DEF get_balance, GetOr, Remove
    <2> QED
        BY <1>1, <2>1, <2>3, <2>4
<1> QED
    BY <1>3, <1>4

LEMMA WithdrawEffect ==
    ASSUME TypeOK, NEW caller \in Account, NEW token \in Token,
           NEW amount \in Amount, withdraw(caller, token, amount),
           NEW other \in Account, NEW asset \in Token
    PROVE  /\ get_balance(other, asset)' =
                 IF other = caller /\ asset = token
                 THEN get_balance(other, asset) - amount
                 ELSE get_balance(other, asset)
           /\ get_all_tokens(other)' =
                 IF other = caller /\ get_balance(caller, token) = amount
                 THEN get_all_tokens(other) \ {token}
                 ELSE get_all_tokens(other)
BY WithdrawBooksEffect DEF withdraw, CanWithdraw

------------------------------------------------------------------------------
(* Credits.                                                                *)

\* Whoever is tipped is registered, and the token of the tip is tracked.
LEMMA TipKeepsCreditsTracked ==
    ASSUME NoStrandedCredit, NEW from \in Account,
           NEW creator \in Account, NEW token \in Token, NEW amount \in Amount,
           TipAccepted(creator, token, amount), TipBooked(from, creator, token, amount)
    PROVE  NoStrandedCredit'
<1> SUFFICES ASSUME NEW owner \in Account, NEW asset \in Token,
                    get_balance(owner, asset)' > 0
             PROVE  is_creator(owner)' /\ asset \in get_all_tokens(owner)'
    BY DEF NoStrandedCredit
<1>1. is_creator(creator) /\ Profile' = Profile
    BY DEF TipAccepted, TipBooked, is_creator, registry
<1>2. CASE owner = creator /\ asset = token
    BY <1>1, <1>2, TipBooksEffect DEF is_creator
<1>3. CASE ~(owner = creator /\ asset = token)
    BY <1>1, <1>3, TipBooksEffect DEF is_creator, NoStrandedCredit
<1> QED
    BY <1>2, <1>3

\* A withdrawal stops tracking a token only when it takes the whole credit.
LEMMA WithdrawKeepsCreditsTracked ==
    ASSUME TypeOK, NoStrandedCredit, NEW caller \in Account, NEW token \in Token,
           NEW amount \in Amount, WithdrawAccepted(caller, token, amount),
           WithdrawBooked(caller, token, amount)
    PROVE  NoStrandedCredit'
<1> SUFFICES ASSUME NEW owner \in Account, NEW asset \in Token,
                    get_balance(owner, asset)' > 0
             PROVE  is_creator(owner)' /\ asset \in get_all_tokens(owner)'
    BY DEF NoStrandedCredit
<1>1. Profile' = Profile /\ amount > 0 /\ amount \in Int
    BY NumberAssumption DEF WithdrawAccepted, WithdrawBooked, registry
<1>2. get_balance(owner, asset) \in Nat
    BY CreditType
<1>3. get_balance(owner, asset) > 0
    BY <1>1, <1>2, WithdrawBooksEffect
<1>4. ~(owner = caller /\ asset = token /\ get_balance(caller, token) = amount)
    BY <1>1, <1>2, WithdrawBooksEffect
<1> QED
    BY <1>1, <1>3, <1>4, WithdrawBooksEffect DEF is_creator, NoStrandedCredit

\* NoStrandedCredit is inductive once the types are known.  The step that could
\* break it is unregister: the credits it does not look at are those of tokens
\* it does not track, and the invariant says they are 0.
LEMMA NextCreditsTracked ==
    TypeOK /\ NoStrandedCredit /\ [Next]_vars => NoStrandedCredit'
<1> SUFFICES ASSUME TypeOK, NoStrandedCredit, [Next]_vars,
                    NEW owner \in Account, NEW asset \in Token,
                    get_balance(owner, asset)' > 0
             PROVE  /\ is_creator(owner)'
                    /\ asset \in get_all_tokens(owner)'
    BY DEF NoStrandedCredit
<1>1. get_balance(owner, asset) \in Nat
    BY CreditType
<1>2. get_balance(owner, asset) > 0 =>
         is_creator(owner) /\ asset \in get_all_tokens(owner)
    BY DEF NoStrandedCredit
<1>3. ASSUME UNCHANGED <<Balance, CreatorTokens>>,
             DOMAIN Profile \subseteq DOMAIN Profile'
      PROVE  is_creator(owner)' /\ asset \in get_all_tokens(owner)'
    BY <1>2, <1>3 DEF get_balance, get_all_tokens, is_creator
<1>4. ASSUME NEW caller \in Account, NEW username \in Username,
             NEW text \in Text, register(caller, username, text)
      PROVE  is_creator(owner)' /\ asset \in get_all_tokens(owner)'
    <2>1. DOMAIN Profile' = DOMAIN Profile \cup {caller}
        BY <1>4, PutMap DEF register
    <2>2. UNCHANGED <<Balance, CreatorTokens>>
        BY <1>4 DEF register
    <2> QED
        BY <1>3, <2>1, <2>2
<1>5. ASSUME NEW caller \in Account, NEW text \in Text,
             update_profile(caller, text)
      PROVE  is_creator(owner)' /\ asset \in get_all_tokens(owner)'
    BY <1>3, <1>5 DEF update_profile, funds
<1>6. ASSUME NEW caller \in Account, unregister(caller)
      PROVE  is_creator(owner)' /\ asset \in get_all_tokens(owner)'
    <2>1. /\ CreatorTokens' = Remove(CreatorTokens, caller)
          /\ Profile' = Remove(Profile, caller)
          /\ Balance' = Balance
          /\ TrackedBalancesZero(caller)
        BY <1>6 DEF unregister, CanUnregister
    <2>2. get_balance(owner, asset) > 0
        BY <2>1 DEF get_balance
    <2>3. owner # caller
        BY <1>1, <1>2, <2>1, <2>2 DEF TrackedBalancesZero
    <2> QED
        BY <1>2, <2>1, <2>2, <2>3 DEF is_creator, get_all_tokens, GetOr, Remove
<1>7. ASSUME NEW from \in Account, NEW creator \in Account, NEW token \in Token,
             NEW amount \in Amount, tip(from, creator, token, amount)
      PROVE  is_creator(owner)' /\ asset \in get_all_tokens(owner)'
    BY <1>7, TipKeepsCreditsTracked DEF tip, CanTip, NoStrandedCredit
<1>8. ASSUME NEW caller \in Account, NEW token \in Token, NEW amount \in Amount,
             withdraw(caller, token, amount)
      PROVE  is_creator(owner)' /\ asset \in get_all_tokens(owner)'
    BY <1>8, WithdrawKeepsCreditsTracked DEF withdraw, CanWithdraw, NoStrandedCredit
<1>9. ASSUME NEW caller \in Account, AdminStep(caller)
      PROVE  is_creator(owner)' /\ asset \in get_all_tokens(owner)'
    BY <1>3, <1>9, AdminFrame DEF funds
<1>10. ASSUME NEW src \in Account, NEW dst \in DepositTarget, NEW token \in Token,
              NEW amount \in Amount, direct_transfer(src, dst, token, amount)
       PROVE  is_creator(owner)' /\ asset \in get_all_tokens(owner)'
    BY <1>3, <1>10 DEF direct_transfer, registry
<1>11. CASE UNCHANGED vars
    BY <1>3, <1>11 DEF vars, registry, funds
<1> QED
    BY <1>4, <1>5, <1>6, <1>7, <1>8, <1>9, <1>10, <1>11, StepKinds DEF MoneyStep

\* No credit is lost from sight, for any number of creators and tokens: its
\* owner is registered and its token is tracked.
THEOREM CreditSafety == Spec => []NoStrandedCredit
<1>1. Init => NoStrandedCredit
    BY DEF Init, NoStrandedCredit, EmptyMap, get_balance, GetOr
<1> QED
    BY <1>1, NextCreditsTracked, TypeCorrectness, PTL DEF Spec

------------------------------------------------------------------------------
(* Tip history.                                                            *)

\* The inductive form of HistoryContiguous.
HistoryInv ==
    /\ DOMAIN TipCount = DOMAIN Profile
    /\ \A creator \in DOMAIN TipCount :
          \A i \in 0 .. TipCount[creator] - 1 : <<creator, i>> \in DOMAIN Tip

\* A tip's record goes to the first free index, and TipCount moves past it.
LEMMA TipBooksHistory ==
    ASSUME TypeOK, NEW from \in Account, NEW creator \in Account,
           NEW token \in Token, NEW amount \in Amount,
           creator \in DOMAIN Profile,
           TipBooked(from, creator, token, amount), HistoryInv
    PROVE  /\ DOMAIN TipCount' = DOMAIN TipCount
           /\ TipCount'[creator] = TipCount[creator] + 1
           /\ \A other \in DOMAIN TipCount \ {creator} :
                 TipCount'[other] = TipCount[other]
           /\ DOMAIN Tip' = DOMAIN Tip \cup {<<creator, TipCount[creator]>>}
           /\ \A key \in DOMAIN Tip : key # <<creator, TipCount[creator]>> =>
                 Tip'[key] = Tip[key]
<1> DEFINE index == get_tip_count(creator)
           record == [from |-> from, token |-> token, amount |-> amount]
<1>1. creator \in DOMAIN TipCount /\ index = TipCount[creator]
    BY DEF HistoryInv, get_tip_count, GetOr
<1>2. TipCount' = Put(TipCount, creator, index + 1)
    BY DEF TipBooked
<1>3. Tip' = Put(Tip, <<creator, index>>, record)
    BY DEF TipBooked, RecordIndex
<1> HIDE DEF index, record
<1>4. /\ DOMAIN TipCount' = DOMAIN TipCount
      /\ TipCount'[creator] = TipCount[creator] + 1
      /\ \A other \in DOMAIN TipCount \ {creator} : TipCount'[other] = TipCount[other]
    BY <1>1, <1>2 DEF Put
<1>5. /\ DOMAIN Tip' = DOMAIN Tip \cup {<<creator, TipCount[creator]>>}
      /\ \A key \in DOMAIN Tip : key # <<creator, TipCount[creator]>> =>
            Tip'[key] = Tip[key]
    <2>1. Tip' = Put(Tip, <<creator, TipCount[creator]>>, record)
        BY <1>1, <1>3
    <2> QED
        BY <2>1 DEF Put
<1> QED
    BY <1>4, <1>5

\* Booking a tip keeps the history without a hole.
LEMMA TipBooksKeepHistory ==
    ASSUME TypeOK, HistoryInv, NEW from \in Account, NEW creator \in Account,
           NEW token \in Token, NEW amount \in Amount, creator \in DOMAIN Profile,
           TipBooked(from, creator, token, amount)
    PROVE  HistoryInv'
<1>1. Profile' = Profile
    BY DEF TipBooked, registry
<1>2. ASSUME NEW other \in DOMAIN TipCount
      PROVE  TipCount[other] \in Nat
    BY NumberAssumption DEF TypeOK, FundsTypeOK, MapOf
<1>3. /\ DOMAIN TipCount' = DOMAIN TipCount
      /\ TipCount'[creator] = TipCount[creator] + 1
      /\ \A other \in DOMAIN TipCount \ {creator} :
            TipCount'[other] = TipCount[other]
      /\ DOMAIN Tip' = DOMAIN Tip \cup {<<creator, TipCount[creator]>>}
    BY TipBooksHistory
<1>4. ASSUME NEW other \in DOMAIN TipCount, NEW i \in 0 .. TipCount'[other] - 1
      PROVE  <<other, i>> \in DOMAIN Tip'
    <2>1. CASE other = creator /\ i = TipCount[creator]
        BY <1>3, <2>1
    <2>2. CASE ~(other = creator /\ i = TipCount[creator])
        <3>1. i \in 0 .. TipCount[other] - 1
            BY <1>2, <1>3, <1>4, <2>2
        <3> QED
            BY <1>3, <3>1 DEF HistoryInv
    <2> QED
        BY <2>1, <2>2
<1> QED
    BY <1>1, <1>3, <1>4 DEF HistoryInv

\* Every step keeps HistoryInv: only register, unregister and tip write a
\* creator's TipCount, and a record once written is never removed.
LEMMA NextHistoryInv == TypeOK /\ HistoryInv /\ [Next]_vars => HistoryInv'
<1> SUFFICES ASSUME TypeOK, HistoryInv, [Next]_vars PROVE HistoryInv'
    OBVIOUS
<1>1. ASSUME UNCHANGED <<TipCount, Tip>>, DOMAIN Profile' = DOMAIN Profile
      PROVE  HistoryInv'
    BY <1>1 DEF HistoryInv
<1>2. ASSUME NEW caller \in Account, NEW username \in Username, NEW text \in Text,
             register(caller, username, text)
      PROVE  HistoryInv'
    <2>1. TipCount' = Put(TipCount, caller, 0) /\ Tip' = Tip
        BY <1>2 DEF register
    <2>2. DOMAIN Profile' = DOMAIN Profile \cup {caller}
        BY <1>2, PutMap DEF register
    <2> QED
        BY <2>1, <2>2 DEF HistoryInv, Put
<1>3. ASSUME NEW caller \in Account, NEW text \in Text, update_profile(caller, text)
      PROVE  HistoryInv'
    BY <1>1, <1>3 DEF update_profile, funds
<1>4. ASSUME NEW caller \in Account, unregister(caller)
      PROVE  HistoryInv'
    <2>1. /\ TipCount' = Remove(TipCount, caller)
          /\ Profile' = Remove(Profile, caller)
          /\ Tip' = Tip
        BY <1>4 DEF unregister
    <2> QED
        BY <2>1 DEF HistoryInv, Remove
<1>5. ASSUME NEW from \in Account, NEW creator \in Account, NEW token \in Token,
             NEW amount \in Amount, tip(from, creator, token, amount)
      PROVE  HistoryInv'
    BY <1>5, TipBooksKeepHistory DEF tip, CanTip, TipAccepted
<1>6. ASSUME NEW caller \in Account, NEW token \in Token, NEW amount \in Amount,
             withdraw(caller, token, amount)
      PROVE  HistoryInv'
    BY <1>1, <1>6 DEF withdraw, CanWithdraw, WithdrawAccepted, WithdrawBooked, registry
<1>7. ASSUME NEW src \in Account, NEW dst \in DepositTarget, NEW token \in Token,
             NEW amount \in Amount, direct_transfer(src, dst, token, amount)
      PROVE  HistoryInv'
    BY <1>1, <1>7 DEF direct_transfer, registry
<1>8. ASSUME NEW caller \in Account, AdminStep(caller)
      PROVE  HistoryInv'
    BY <1>1, <1>8, AdminFrame DEF funds
<1>9. CASE UNCHANGED vars
    BY <1>1, <1>9 DEF vars, registry, funds
<1> QED
    BY <1>2, <1>3, <1>4, <1>5, <1>6, <1>7, <1>8, <1>9, StepKinds DEF MoneyStep

\* HistoryInv holds in every reachable state.
LEMMA HistoryInvariance == Spec => []HistoryInv
<1>1. Init => HistoryInv
    BY DEF Init, HistoryInv, EmptyMap
<1> QED
    BY <1>1, NextHistoryInv, TypeCorrectness, PTL DEF Spec

\* No page of get_tips has a hole when no index below TipCount is without a record.
LEMMA HistoryHasNoHoles == TypeOK /\ HistoryInv => HistoryContiguous
<1> SUFFICES ASSUME TypeOK, HistoryInv, NEW creator \in DOMAIN TipCount,
                    NEW start \in 0 .. MAX_U64, NEW limit \in 0 .. MAX_U64
             PROVE  get_tips_indices(creator, start, limit) =
                       IF start + limit > MAX_U64 THEN None
                       ELSE {i \in 0 .. TipCount[creator] - 1 :
                                start <= i /\ i < start + limit}
    BY DEF HistoryInv, HistoryContiguous
<1> USE NumberAssumption
<1>1. TipCount[creator] \in 0 .. MAX_U64 /\ get_tip_count(creator) = TipCount[creator]
    BY DEF TypeOK, FundsTypeOK, MapOf, get_tip_count, GetOr
<1>2. CASE start + limit > MAX_U64
    BY <1>2 DEF get_tips_indices, get_tipsTraps
<1>3. CASE ~(start + limit > MAX_U64)
    BY <1>1, <1>3 DEF get_tips_indices, get_tipsTraps, HistoryInv
<1> QED
    BY <1>2, <1>3

\* A creator's history has a record at every index below TipCount, and every page
\* of it that does not trap is whole.
THEOREM HistoryContiguity == Spec => []HistoryContiguous
BY HistoryHasNoHoles, HistoryInvariance, TypeCorrectness, PTL

\* What a step may do to the histories of creators that stay registered.
OnlyAppended ==
    \A creator \in DOMAIN TipCount :
        creator \in DOMAIN TipCount' =>
            /\ TipCount'[creator] >= TipCount[creator]
            /\ \A i \in 0 .. TipCount[creator] - 1 :
                  get_tip(creator, i)' = get_tip(creator, i)

\* Booking a tip writes above every live record.
LEMMA TipBooksAppend ==
    ASSUME TypeOK, HistoryInv, NEW from \in Account, NEW creator \in Account,
           NEW token \in Token, NEW amount \in Amount, creator \in DOMAIN Profile,
           TipBooked(from, creator, token, amount), NEW owner \in DOMAIN TipCount
    PROVE  /\ TipCount'[owner] >= TipCount[owner]
           /\ \A i \in 0 .. TipCount[owner] - 1 :
                 get_tip(owner, i)' = get_tip(owner, i)
<1>0. TipCount[owner] \in Nat
    BY NumberAssumption DEF TypeOK, FundsTypeOK, MapOf
<1>1. TipCount'[owner] >= TipCount[owner]
    <2>1. /\ TipCount'[creator] = TipCount[creator] + 1
          /\ \A other \in DOMAIN TipCount \ {creator} :
                TipCount'[other] = TipCount[other]
        BY TipBooksHistory
    <2> QED
        BY <1>0, <2>1
<1>2. ASSUME NEW i \in 0 .. TipCount[owner] - 1
      PROVE  get_tip(owner, i)' = get_tip(owner, i)
    <2>1. <<owner, i>> \in DOMAIN Tip
        BY DEF HistoryInv
    <2>2. <<owner, i>> # <<creator, TipCount[creator]>>
        BY <1>0
    <2> QED
        BY <2>1, <2>2, TipBooksHistory DEF get_tip, GetOr
<1> QED
    BY <1>1, <1>2

\* No step changes a live record or shortens the history of a creator that stays.
LEMMA NextOnlyAppended == TypeOK /\ HistoryInv /\ [Next]_vars => OnlyAppended
<1> SUFFICES ASSUME TypeOK, HistoryInv, [Next]_vars, NEW owner \in DOMAIN TipCount,
                    owner \in DOMAIN TipCount'
             PROVE  /\ TipCount'[owner] >= TipCount[owner]
                    /\ \A i \in 0 .. TipCount[owner] - 1 :
                          get_tip(owner, i)' = get_tip(owner, i)
    BY DEF OnlyAppended
<1>1. TipCount[owner] \in Nat
    BY NumberAssumption DEF TypeOK, FundsTypeOK, MapOf
<1>2. CASE TipCount'[owner] = TipCount[owner] /\ Tip' = Tip
    BY <1>1, <1>2 DEF get_tip
<1>3. ASSUME NEW caller \in Account, NEW username \in Username,
             NEW text \in Text, register(caller, username, text)
      PROVE  TipCount'[owner] = TipCount[owner] /\ Tip' = Tip
    <2>1. caller \notin DOMAIN TipCount
        BY <1>3 DEF register, Registrable, HistoryInv
    <2> QED
        BY <1>3, <2>1 DEF register, Put
<1>4. ASSUME NEW caller \in Account, unregister(caller)
      PROVE  TipCount'[owner] = TipCount[owner] /\ Tip' = Tip
    <2>1. TipCount' = Remove(TipCount, caller) /\ Tip' = Tip
        BY <1>4 DEF unregister
    <2> QED
        BY <2>1, RemoveMap
<1>5. ASSUME NEW from \in Account, NEW creator \in Account, NEW token \in Token,
             NEW amount \in Amount, tip(from, creator, token, amount)
      PROVE  /\ TipCount'[owner] >= TipCount[owner]
             /\ \A i \in 0 .. TipCount[owner] - 1 :
                   get_tip(owner, i)' = get_tip(owner, i)
    BY <1>5, TipBooksAppend DEF tip, CanTip, TipAccepted
<1>6. ASSUME NEW caller \in Account,
             \/ AdminStep(caller)
             \/ \E text \in Text : update_profile(caller, text)
             \/ \E token \in Token, amount \in Amount :
                   withdraw(caller, token, amount)
             \/ TokenStep(caller)
      PROVE  TipCount'[owner] = TipCount[owner] /\ Tip' = Tip
    BY <1>6, AdminFrame
    DEF update_profile, withdraw, CanWithdraw, WithdrawAccepted, WithdrawBooked, TokenStep, direct_transfer, funds
<1>7. CASE UNCHANGED vars
    BY <1>2, <1>7 DEF vars, funds
<1> QED
    BY <1>2, <1>3, <1>4, <1>5, <1>6, <1>7 DEF Next, UserStep

\* No step changes a live record or shortens a history.
THEOREM LiveHistoryImmutability == Spec => LiveHistoryImmutable
<1>1. TypeOK /\ HistoryInv /\ [Next]_vars => [OnlyAppended]_vars
    BY NextOnlyAppended
<1> QED
    BY <1>1, HistoryInvariance, TypeCorrectness, PTL
    DEF Spec, LiveHistoryImmutable, OnlyAppended

------------------------------------------------------------------------------
(* Fees.                                                                   *)

\* Every setter checks the address it stores.
LEMMA NextFeePayable == FeeAlwaysPayable /\ [Next]_vars => FeeAlwaysPayable'
<1> SUFFICES ASSUME FeeAlwaysPayable, [Next]_vars
             PROVE  FeeAlwaysPayable'
    OBVIOUS
<1>1. ASSUME UNCHANGED <<Admin, FeeRecipient>>
      PROVE  FeeAlwaysPayable'
    BY <1>1 DEF FeeAlwaysPayable
<1>2. ASSUME NEW caller \in Account, AdminStep(caller)
      PROVE  FeeAlwaysPayable'
    <2> USE AddressAssumption DEF FeeAlwaysPayable, ValidFeeRecipient, Address
    <2>1. ASSUME NEW recipient \in RecipientInput, NEW bps \in FeeInput,
                 NEW maxCreators \in CapInput, NEW maxTips \in CapInput,
                 NEW minTip \in MinInput,
                 init(caller, recipient, bps, maxCreators, maxTips, minTip)
          PROVE  FeeAlwaysPayable'
        BY <2>1 DEF init
    <2>2. ASSUME NEW newAdmin \in AdminInput, set_admin(caller, newAdmin)
          PROVE  FeeAlwaysPayable'
        BY <2>2 DEF set_admin, AuthorizedAdmin
    <2>3. ASSUME NEW recipient \in RecipientInput,
                 set_fee_recipient(caller, recipient)
          PROVE  FeeAlwaysPayable'
        BY <2>3 DEF set_fee_recipient
    <2>4. ASSUME \/ pause(caller)
                 \/ unpause(caller)
                 \/ \E bps \in FeeInput : set_fee_percentage(caller, bps)
                 \/ \E cap \in CapInput : set_max_creators(caller, cap)
                 \/ \E cap \in CapInput : set_max_tips_per_creator(caller, cap)
                 \/ \E minimum \in MinInput : set_min_tip_amount(caller, minimum)
          PROVE  FeeAlwaysPayable'
        BY <1>1, <2>4 DEF pause, unpause, set_fee_percentage, set_max_creators,
                          set_max_tips_per_creator, set_min_tip_amount
    <2> QED
        BY <1>2, <2>1, <2>2, <2>3, <2>4 DEF AdminStep
<1>3. ASSUME NEW caller \in Account, UserStep(caller) \/ TokenStep(caller)
      PROVE  FeeAlwaysPayable'
    <2>1. UNCHANGED config
        BY <1>3, MoneyFrame
        DEF UserStep, TokenStep, MoneyStep, register, update_profile, unregister
    <2> QED
        BY <1>1, <2>1 DEF config
<1> QED
    BY <1>1, <1>2, <1>3 DEF Next, vars, config

\* After init the fee recipient is set and is never the contract itself, so
\* FeeRecipientNotSet is unreachable and a forwarded fee leaves the contract.
THEOREM FeePayability == Spec => []FeeAlwaysPayable
<1>1. Init => FeeAlwaysPayable
    BY DEF Init, FeeAlwaysPayable
<1> QED
    BY <1>1, NextFeePayable, PTL DEF Spec

\* The fee is the floor of its share of the amount.
LEMMA FeeFloor ==
    ASSUME NEW amount \in Nat, TypeOK
    PROVE  /\ FeeOf(amount) \in 0 .. amount
           /\ FeeOf(amount) * MAX_FEE_BPS <= amount * FeeBps
           /\ amount * FeeBps < (FeeOf(amount) + 1) * MAX_FEE_BPS
<1> DEFINE product == amount * FeeBps
<1>1. FeeBps \in 0 .. MAX_FEE_BPS
    BY DEF TypeOK, ConfigTypeOK
<1>2. FeeOf(amount) \in 0 .. amount
    BY <1>1, FeeBounds DEF FeeOf
<1>3. product \in Nat
    BY <1>1 DEF MAX_FEE_BPS
<1> HIDE DEF product
<1>4. /\ (product \div 10000) * 10000 <= product
      /\ product < (product \div 10000 + 1) * 10000
    BY <1>3
<1> QED
    BY <1>2, <1>4 DEF product, FeeOf, MAX_FEE_BPS

\* What a tip brings or costs every address in its token.
LEMMA TipGain ==
    ASSUME TypeOK, FeeAlwaysPayable, NEW from \in Account, NEW creator \in Account,
           NEW token \in Token, NEW amount \in Amount,
           tip(from, creator, token, amount), NEW address \in Address
    PROVE  tokenBalance'[<<address, token>>] - tokenBalance[<<address, token>>]
              = (IF address = Contract THEN CreatorAmount(amount, FeeOf(amount)) ELSE 0)
                + (IF address = FeeRecipient THEN FeeOf(amount) ELSE 0)
                - (IF address = from THEN amount ELSE 0)
<1> DEFINE fee == FeeOf(amount)
           received == Transferred(tokenBalance, token, from, Contract, amount)
<1>1. amount \in Nat /\ fee \in 0 .. amount
    BY FeeFloor, NumberAssumption DEF tip, CanTip, TipAccepted, MeetsMinimum
<1>2. /\ from \in Address /\ Contract \in Address /\ from # Contract
      /\ FeeRecipient # Contract /\ FeeRecipient # None /\ FeeRecipient \in Address
      /\ tokenBalance \in [Address \X Token -> Nat]
    BY AddressAssumption
    DEF Address, FeeAlwaysPayable, tip, CanTip, TipAccepted, check_initialized_and_not_paused,
        TypeOK, ConfigTypeOK, FundsTypeOK
<1>3. CanTransfer(tokenBalance, token, from, amount)
    BY DEF tip, CanTip
<1>4. tokenBalance' = IF fee > 0
                      THEN Transferred(received, token, Contract, FeeRecipient, fee)
                      ELSE received
    BY DEF tip
<1> HIDE DEF fee
<1>5. received \in [Address \X Token -> Nat]
    BY <1>1, <1>2, <1>3, TransferType
<1>6. received[<<address, token>>] =
         tokenBalance[<<address, token>>]
            + (IF address = Contract THEN amount ELSE 0)
            - (IF address = from THEN amount ELSE 0)
    <2>1. /\ tokenBalance \in [Address \X Token -> Nat] /\ amount \in Nat
          /\ from \in Address /\ Contract \in Address
        BY <1>1, <1>2
    <2>2. <<address, token>> \in Address \X Token
          /\ tokenBalance[<<address, token>>] \in Nat
        BY <2>1
    <2> QED
        BY <2>1, <2>2 DEF Transferred
<1> HIDE DEF received
<1>7. tokenBalance'[<<address, token>>] =
         received[<<address, token>>]
            + (IF address = FeeRecipient THEN fee ELSE 0)
            - (IF address = Contract THEN fee ELSE 0)
    <2>1. CASE fee > 0
        <3>1. fee \in Nat
            BY <1>1
        <3>2. <<address, token>> \in Address \X Token
              /\ received[<<address, token>>] \in Nat
            BY <1>5
        <3>3. tokenBalance' = Transferred(received, token, Contract, FeeRecipient, fee)
            BY <1>4, <2>1
        <3>4. Transferred(received, token, Contract, FeeRecipient, fee)[<<address, token>>]
                 = received[<<address, token>>]
                      + (IF address = FeeRecipient THEN fee ELSE 0)
                      - (IF address = Contract THEN fee ELSE 0)
            BY <1>2, <1>5, <3>1, <3>2 DEF Transferred
        <3> QED
            BY <3>3, <3>4
    <2>2. CASE ~(fee > 0)
        <3>1. fee = 0 /\ received[<<address, token>>] \in Nat
            BY <1>1, <1>5, <2>2
        <3> QED
            BY <1>4, <2>2, <3>1
    <2> QED
        BY <2>1, <2>2
<1>8. /\ received[<<address, token>>] \in Nat
      /\ tokenBalance[<<address, token>>] \in Nat
    BY <1>2, <1>5
<1> QED
    BY <1>1, <1>2, <1>6, <1>7, <1>8 DEF CreatorAmount, fee

------------------------------------------------------------------------------
(* Answers: a call is answered without an error exactly when the guard of  *)
(* its entry point holds.                                                  *)

\* A nonempty set of positions in a table has a least element.
LEMMA LeastPosition ==
    ASSUME NEW S \in SUBSET Nat, S # {}
    PROVE  Min(S) \in S /\ \A x \in S : Min(S) =< x
<1> DEFINE R == OpToRel(<, Nat)
<1>1. \A x, y \in S : <<x, y>> \in R <=> x < y
    BY DEF OpToRel
<1>2. IsWellFoundedOn(R, Nat)
    BY NatLessThanWellFounded
<1> HIDE DEF R
<1>3. \E x \in S : \A y \in S : ~(<<y, x>> \in R)
    BY <1>2, WFMin
<1>4. \E x \in S : \A y \in S : ~(y < x)
    BY <1>1, <1>3, Zenon
<1>5. \E x \in S : \A y \in S : x =< y
    BY <1>4
<1> QED
    BY <1>5 DEF Min

\* A table answers with the error of a check that fails, and with none only if
\* no check fails.
LEMMA TableAnswer ==
    ASSUME NEW checks, NEW n \in Nat, DOMAIN checks = 1 .. n,
           \A i \in 1 .. n : checks[i][2] # Ok
    PROVE  /\ FirstError(checks) # Ok =>
                 \E i \in 1 .. n : ~checks[i][1] /\ FirstError(checks) = checks[i][2]
           /\ \A i \in 1 .. n : ~checks[i][1] => FirstError(checks) # Ok
<1> DEFINE failing == {i \in DOMAIN checks : ~checks[i][1]}
<1>1. FirstError(checks) = IF failing = {} THEN Ok ELSE checks[Min(failing)][2]
    BY DEF FirstError
<1>2. failing \in SUBSET Nat
    OBVIOUS
<1>3. failing # {} => Min(failing) \in failing
    <2> HIDE DEF failing
    <2> QED
        BY <1>2, LeastPosition
<1>4. CASE failing = {}
    BY <1>1, <1>4, Zenon
<1>5. CASE failing # {}
    <2>1. /\ Min(failing) \in 1 .. n
          /\ ~checks[Min(failing)][1]
        BY <1>3, <1>5, Zenon
    <2> QED
        BY <1>1, <1>5, <2>1, Zenon
<1> QED
    BY <1>4, <1>5

LEMMA TableOk ==
    ASSUME NEW checks, NEW n \in Nat, DOMAIN checks = 1 .. n,
           \A i \in 1 .. n : checks[i][2] # Ok
    PROVE  FirstError(checks) = Ok <=> \A i \in 1 .. n : checks[i][1]
BY TableAnswer, Zenon

\* No error is the answer to a success.
LEMMA ErrorsAreNotOk ==
    Ok \notin {CreatorAlreadyExists, CreatorNotFound, UsernameTaken,
               InsufficientBalance, InvalidAmount, NotInitialized,
               AlreadyInitialized, ContractPaused, NotAuthorized, InvalidInput,
               BalanceNotEmpty, CapExceeded, FeeRecipientNotSet, BelowMinimum,
               HostTrap}
BY DEF Ok, CreatorAlreadyExists, CreatorNotFound, UsernameTaken,
       InsufficientBalance, InvalidAmount, NotInitialized,
       AlreadyInitialized, ContractPaused, NotAuthorized, InvalidInput,
       BalanceNotEmpty, CapExceeded, FeeRecipientNotSet, BelowMinimum, HostTrap

\* tip: its twelve checks are the guard of the action.
LEMMA TipOk ==
    ASSUME NEW call
    PROVE  tipError(call) = Ok
              <=> CanTip(call.caller, call.creator, call.token, call.amount)
<1> DEFINE index == get_tip_count(call.creator)
           fee == FeeOf(call.amount)
           received == Transferred(tokenBalance, call.token,
                                   call.caller, Contract, call.amount)
           c1 == Admin # None
           c2 == check_initialized_and_not_paused
           c3 == call.amount > 0
           c4 == MeetsMinimum(call.amount)
           c5 == is_creator(call.creator)
           c6 == UnderCap(MaxTipsPerCreator, index)
           c7 == call.amount * FeeBps <= MAX_I128
           c8 == FeeBps > 0 => FeeRecipient # None
           c9 == CanTransfer(tokenBalance, call.token, call.caller, call.amount)
           c10 == fee > 0 => CanTransfer(received, call.token, Contract, fee)
           c11 == get_balance(call.creator, call.token)
                     + CreatorAmount(call.amount, fee) <= MAX_I128
           c12 == index + 1 <= MAX_U64
           checks == << <<c1, NotInitialized>>,
                        <<c2, ContractPaused>>,
                        <<c3, InvalidAmount>>,
                        <<c4, BelowMinimum>>,
                        <<c5, CreatorNotFound>>,
                        <<c6, CapExceeded>>,
                        <<c7, HostTrap>>,
                        <<c8, FeeRecipientNotSet>>,
                        <<c9, HostTrap>>,
                        <<c10, HostTrap>>,
                        <<c11, HostTrap>>,
                        <<c12, HostTrap>> >>
<1>1. tipError(call) = FirstError(checks)
    BY DEF tipError, Initialized, Unpaused
<1>2. CanTip(call.caller, call.creator, call.token, call.amount)
         <=> /\ c1 /\ c2 /\ c3 /\ c4 /\ c5 /\ c6
             /\ c7 /\ c8 /\ c9 /\ c10 /\ c11 /\ c12
    BY DEF CanTip, TipAccepted, check_initialized_and_not_paused, MeetsMinimum,
           is_creator
<1> HIDE DEF c1, c2, c3, c4, c5, c6, c7, c8, c9, c10, c11, c12
<1>3. DOMAIN checks = 1 .. 12 /\ 12 \in Nat
    OBVIOUS
<1>4. /\ checks[1] = <<c1, NotInitialized>>
      /\ checks[2] = <<c2, ContractPaused>>
      /\ checks[3] = <<c3, InvalidAmount>>
      /\ checks[4] = <<c4, BelowMinimum>>
      /\ checks[5] = <<c5, CreatorNotFound>>
      /\ checks[6] = <<c6, CapExceeded>>
      /\ checks[7] = <<c7, HostTrap>>
      /\ checks[8] = <<c8, FeeRecipientNotSet>>
      /\ checks[9] = <<c9, HostTrap>>
      /\ checks[10] = <<c10, HostTrap>>
      /\ checks[11] = <<c11, HostTrap>>
      /\ checks[12] = <<c12, HostTrap>>
    OBVIOUS
<1> HIDE DEF checks
<1>5. \A i \in 1 .. 12 : i \in {1, 2, 3, 4, 5, 6, 7, 8, 9, 10, 11, 12}
    OBVIOUS
<1>6. \A i \in 1 .. 12 : checks[i][2] # Ok
    BY <1>4, <1>5, ErrorsAreNotOk
<1>7. FirstError(checks) = Ok <=> \A i \in 1 .. 12 : checks[i][1]
    BY <1>3, <1>6, TableOk
<1>8. (\A i \in 1 .. 12 : checks[i][1])
         <=> /\ c1 /\ c2 /\ c3 /\ c4 /\ c5 /\ c6
             /\ c7 /\ c8 /\ c9 /\ c10 /\ c11 /\ c12
    BY <1>4, <1>5
<1> QED
    BY <1>1, <1>2, <1>7, <1>8, Zenon

\* A table of seven checks.
LEMMA SevenChecks ==
    ASSUME NEW c1, NEW c2, NEW c3, NEW c4, NEW c5, NEW c6, NEW c7,
           NEW e1, NEW e2, NEW e3, NEW e4, NEW e5, NEW e6, NEW e7,
           Ok \notin {e1, e2, e3, e4, e5, e6, e7}
    PROVE  FirstError(<< <<c1, e1>>, <<c2, e2>>, <<c3, e3>>, <<c4, e4>>,
                         <<c5, e5>>, <<c6, e6>>, <<c7, e7>> >>) = Ok
              <=> c1 /\ c2 /\ c3 /\ c4 /\ c5 /\ c6 /\ c7
<1> DEFINE checks == << <<c1, e1>>, <<c2, e2>>, <<c3, e3>>, <<c4, e4>>,
                        <<c5, e5>>, <<c6, e6>>, <<c7, e7>> >>
<1>1. DOMAIN checks = 1 .. 7 /\ 7 \in Nat
    OBVIOUS
<1>2. /\ checks[1] = <<c1, e1>> /\ checks[2] = <<c2, e2>>
      /\ checks[3] = <<c3, e3>> /\ checks[4] = <<c4, e4>>
      /\ checks[5] = <<c5, e5>> /\ checks[6] = <<c6, e6>>
      /\ checks[7] = <<c7, e7>>
    OBVIOUS
<1> HIDE DEF checks
<1>3. \A i \in 1 .. 7 : i \in {1, 2, 3, 4, 5, 6, 7}
    OBVIOUS
<1>4. \A i \in 1 .. 7 : checks[i][2] # Ok
    BY <1>2, <1>3
<1>5. (\A i \in 1 .. 7 : checks[i][1])
         <=> c1 /\ c2 /\ c3 /\ c4 /\ c5 /\ c6 /\ c7
    BY <1>2, <1>3
<1>6. FirstError(checks) = Ok <=> \A i \in 1 .. 7 : checks[i][1]
    BY <1>1, <1>4, TableOk
<1> QED
    BY <1>5, <1>6 DEF checks

\* withdraw.
LEMMA WithdrawOk ==
    ASSUME NEW call
    PROVE  withdrawError(call) = Ok
              <=> CanWithdraw(call.caller, call.token, call.amount)
<1> DEFINE c1 == Admin # None
           c2 == check_initialized_and_not_paused
           c3 == is_creator(call.caller)
           c4 == call.amount > 0
           c5 == SufficientBalance(call.caller, call.token, call.amount)
           c6 == CanTransfer(tokenBalance, call.token, Contract, call.amount)
           c7 == get_balance(call.caller, call.token) > call.amount
                    => call.caller \in DOMAIN CreatorTokens
<1>1. withdrawError(call) = FirstError(
         << <<c1, NotInitialized>>, <<c2, ContractPaused>>,
            <<c3, CreatorNotFound>>, <<c4, InvalidAmount>>,
            <<c5, InsufficientBalance>>, <<c6, HostTrap>>, <<c7, HostTrap>> >>)
    BY DEF withdrawError, Initialized, Unpaused
<1>2. CanWithdraw(call.caller, call.token, call.amount)
         <=> c1 /\ c2 /\ c3 /\ c4 /\ c5 /\ c6 /\ c7
    BY DEF CanWithdraw, WithdrawAccepted, check_initialized_and_not_paused, is_creator
<1> HIDE DEF c1, c2, c3, c4, c5, c6, c7
<1> QED
    BY <1>1, <1>2, SevenChecks, ErrorsAreNotOk

\* register.
LEMMA RegisterOk ==
    ASSUME NEW call
    PROVE  registerError(call) = Ok
              <=> /\ check_initialized_and_not_paused
                  /\ validate_input(call.text)
                  /\ Registrable(call.caller, call.username)
                  /\ UnderCap(MaxCreators, CreatorCount)
                  /\ CreatorCount + 1 <= MAX_U32
<1> DEFINE c1 == Admin # None
           c2 == check_initialized_and_not_paused
           c3 == validate_input(call.text)
           c4 == call.caller \notin DOMAIN Profile
           c5 == Registrable(call.caller, call.username)
           c6 == UnderCap(MaxCreators, CreatorCount)
           c7 == CreatorCount + 1 <= MAX_U32
<1>1. registerError(call) = FirstError(
         << <<c1, NotInitialized>>, <<c2, ContractPaused>>,
            <<c3, InvalidInput>>, <<c4, CreatorAlreadyExists>>,
            <<c5, UsernameTaken>>, <<c6, CapExceeded>>, <<c7, HostTrap>> >>)
    BY DEF registerError, Initialized, Unpaused
<1>2. (c2 => c1) /\ (c5 => c4)
    BY DEF check_initialized_and_not_paused, Registrable
<1> HIDE DEF c1, c2, c3, c4, c5, c6, c7
<1>3. registerError(call) = Ok <=> c1 /\ c2 /\ c3 /\ c4 /\ c5 /\ c6 /\ c7
    BY <1>1, SevenChecks, ErrorsAreNotOk
<1> QED
    BY <1>2, <1>3 DEF c1, c2, c3, c4, c5, c6, c7

\* The table that answers a call.
LEMMA OutcomeTable ==
    ASSUME NEW call
    PROVE  /\ call.fn = "init" => outcome(call) = initError(call)
           /\ call.fn \in Setter => outcome(call) = adminError(call)
           /\ call.fn = "register" => outcome(call) = registerError(call)
           /\ call.fn = "update_profile" => outcome(call) = update_profileError(call)
           /\ call.fn = "unregister" => outcome(call) = unregisterError(call)
           /\ call.fn = "tip" => outcome(call) = tipError(call)
           /\ call.fn = "withdraw" => outcome(call) = withdrawError(call)
BY DEF outcome, Setter

==============================================================================
