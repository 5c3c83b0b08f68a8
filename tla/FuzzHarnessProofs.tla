--------------------------- MODULE FuzzHarnessProofs ---------------------------
(***************************************************************************)
(* Proofs about the interleaved property test: what its oracle claims      *)
(* holds for every fee, every amount and batches of any length, not only   *)
(* for the seeds a test run draws.                                         *)
(***************************************************************************)
EXTENDS FuzzHarness, StellarTipRefinementProofs

\* A tip that is pending can be drawn, and the contract has the configuration
\* FuzzEnv gave it.
BatchInv ==
    /\ pending # None => /\ pending.creator \in Creators
                         /\ pending.amount \in Amount
    /\ Admin # None => /\ FeeBps = fee_bps
                       /\ FeeRecipient = BatchRecipient
    /\ expected_balance \in [Creators -> Int]
    /\ cumulative_fee \in Int

------------------------------------------------------------------------------
(* The harness uses the contract and nothing else.                         *)

LEMMA BatchRoles ==
    /\ BatchRecipient \in Address
    /\ BatchRecipient \notin {None, Contract, Tipper, Creator1, Creator2}
    /\ Creators \subseteq Account
    /\ Tipper \in Account
    /\ BatchToken \in Token
BY BatchAssumption, AddressAssumption DEF Address, Creators

\* Every operation of a batch is a step of the contract, or leaves it alone.
LEMMA BatchContractStep ==
    ASSUME BatchInv, [BatchNext]_batchVars
    PROVE  [Next]_vars
<1> USE BatchRoles, BatchAssumption
<1>1. ASSUME NEW bps \in FeeInput, new(bps)
      PROVE  [Next]_vars
    <2>1. AdminStep(BatchAdmin)
        BY <1>1 DEF new, AdminStep
    <2> QED
        BY <2>1 DEF Next
<1>2. ASSUME NEW creator \in Creators, preregister(creator)
      PROVE  [Next]_vars
    BY <1>2 DEF preregister, Next, UserStep
<1>3. ASSUME pause_op
      PROVE  [Next]_vars
    BY <1>3 DEF pause_op, Next, AdminStep
<1>4. ASSUME NEW creator \in Creators, NEW amount \in Amount,
             choose_tip(creator, amount)
      PROVE  [Next]_vars
    BY <1>4 DEF choose_tip
<1>5. ASSUME NEW creator \in Creators, NEW amount \in Amount,
             withdraw_op(creator, amount)
      PROVE  [Next]_vars
    BY <1>5 DEF withdraw_op, Next, UserStep
<1>6. ASSUME tip_succeeds
      PROVE  [Next]_vars
    BY <1>6 DEF tip_succeeds, BatchInv, Next, UserStep
<1>7. ASSUME tip_panics \/ UNCHANGED batchVars
      PROVE  [Next]_vars
    BY <1>7 DEF tip_panics, batchVars
<1> QED
    BY <1>1, <1>2, <1>3, <1>4, <1>5, <1>6, <1>7 DEF BatchNext

\* No operation after new changes the fee or its recipient.
LEMMA NextBatchInv ==
    ASSUME TypeOK, BatchInv, [BatchNext]_batchVars
    PROVE  BatchInv'
<1> USE BatchRoles, BatchAssumption DEF BatchInv
<1>1. ASSUME NEW bps \in FeeInput, new(bps)
      PROVE  BatchInv'
    BY <1>1 DEF new, init
<1>2. ASSUME UNCHANGED <<Admin, FeeBps, FeeRecipient, fee_bps, expected_balance,
                         cumulative_fee, pending>>
      PROVE  BatchInv'
    BY <1>2
<1>3. ASSUME NEW creator \in Creators, preregister(creator)
      PROVE  BatchInv'
    BY <1>2, <1>3 DEF preregister, register, config, oracle
<1>4. ASSUME pause_op
      PROVE  BatchInv'
    BY <1>2, <1>4 DEF pause_op, pause, unpause, oracle
<1>5. ASSUME NEW creator \in Creators, NEW amount \in Amount,
             choose_tip(creator, amount)
      PROVE  BatchInv'
    BY <1>5 DEF choose_tip, vars, config, oracle
<1>6. ASSUME NEW creator \in Creators, NEW amount \in Amount,
             withdraw_op(creator, amount)
      PROVE  BatchInv'
    <2>1. expected_balance' \in [Creators -> Int]
        BY <1>6, NumberAssumption DEF withdraw_op
    <2> QED
        BY <1>6, <2>1 DEF withdraw_op, withdraw, WithdrawBooked, config
<1>7. ASSUME tip_succeeds
      PROVE  BatchInv'
    <2> DEFINE fee == ExpectedFee(pending.amount)
    <2>1. pending.amount \in Int /\ fee \in Int
        <3>1. /\ Admin # None /\ pending.amount \in Int /\ pending.amount > 0
            BY <1>7, NumberAssumption
            DEF tip_succeeds, tip, CanTip, TipAccepted, MeetsMinimum,
                check_initialized_and_not_paused
        <3>2. fee_bps \in 0 .. MAX_FEE_BPS
            BY <3>1 DEF TypeOK, ConfigTypeOK
        <3>3. fee \in 0 .. pending.amount
            <4>1. pending.amount \in Nat
                BY <3>1
            <4>2. (pending.amount * fee_bps) \div MAX_FEE_BPS \in 0 .. pending.amount
                BY <3>2, <4>1, FeeBounds
            <4> QED
                BY <4>2 DEF ExpectedFee, MAX_FEE_BPS
        <3> QED
            BY <3>1, <3>3
    <2>2. /\ pending # None
          /\ expected_balance' = [expected_balance EXCEPT
                ![pending.creator] = @ + (pending.amount - fee)]
          /\ cumulative_fee' = cumulative_fee + fee
          /\ pending' = None /\ fee_bps' = fee_bps /\ UNCHANGED config
        BY <1>7 DEF tip_succeeds, tip, TipBooked
    <2> HIDE DEF fee
    <2> QED
        BY <2>1, <2>2 DEF config
<1>8. ASSUME tip_panics \/ UNCHANGED batchVars
      PROVE  BatchInv'
    BY <1>8 DEF tip_panics, batchVars, vars, config, oracle
<1> QED
    BY <1>1, <1>3, <1>4, <1>5, <1>6, <1>7, <1>8 DEF BatchNext

\* The harness implements the contract's specification, so every theorem about
\* the contract holds of a batch.
THEOREM HarnessUsesContract == BatchSpec => Spec /\ []BatchInv
<1>1. BatchInit => Init /\ BatchInv
    BY DEF BatchInit, Init, BatchInv
<1>2. BatchInv /\ [BatchNext]_batchVars => [Next]_vars
    BY BatchContractStep
<1>3. TypeOK /\ [Next]_vars => TypeOK'
    BY NextTypeOK
<1>4. TypeOK /\ BatchInv /\ [BatchNext]_batchVars => BatchInv'
    BY NextBatchInv
<1> QED
    BY <1>1, <1>2, <1>3, <1>4, InitTypeOK, PTL DEF BatchSpec, Spec

------------------------------------------------------------------------------
(* The oracle.                                                             *)

\* What a tip brings the fee recipient: the fee the oracle computes.
LEMMA RecipientGain ==
    ASSUME TypeOK, BatchInv, tip_succeeds
    PROVE  TokensOf(BatchRecipient)' = TokensOf(BatchRecipient)
                                          + ExpectedFee(pending.amount)
<1>1. /\ tip(Tipper, pending.creator, BatchToken, pending.amount)
      /\ FeeBps = fee_bps /\ FeeRecipient = BatchRecipient
      /\ pending.amount \in Amount /\ pending.creator \in Account
    BY BatchRoles
    DEF tip_succeeds, BatchInv, tip, CanTip, TipAccepted, check_initialized_and_not_paused
<1>2. FeeAlwaysPayable
    BY <1>1, BatchRoles DEF FeeAlwaysPayable
<1>3. TokensOf(BatchRecipient)' - TokensOf(BatchRecipient) = FeeOf(pending.amount)
    <2>1. /\ BatchRecipient \in Address /\ BatchRecipient # Contract
          /\ BatchRecipient # Tipper
        BY BatchRoles
    <2>2. FeeOf(pending.amount) \in Nat
        <3>1. pending.amount \in Nat
            <4>1. pending.amount > 0
                BY <1>1 DEF tip, CanTip, TipAccepted, MeetsMinimum
            <4>2. pending.amount \in Int
                BY <1>1, NumberAssumption
            <4> QED
                BY <4>1, <4>2
        <3>2. FeeOf(pending.amount) \in 0 .. pending.amount
            BY <3>1, FeeFloor
        <3> QED
            BY <3>1, <3>2
    <2>3. \A address \in Address :
             tokenBalance'[<<address, BatchToken>>] - tokenBalance[<<address, BatchToken>>]
                = (IF address = Contract
                   THEN CreatorAmount(pending.amount, FeeOf(pending.amount)) ELSE 0)
                  + (IF address = FeeRecipient THEN FeeOf(pending.amount) ELSE 0)
                  - (IF address = Tipper THEN pending.amount ELSE 0)
        BY <1>1, <1>2, TipGain, BatchRoles
    <2>4. tokenBalance'[<<BatchRecipient, BatchToken>>]
             - tokenBalance[<<BatchRecipient, BatchToken>>]
             = 0 + FeeOf(pending.amount) - 0
        BY <1>1, <2>1, <2>3
    <2> QED
        BY <2>2, <2>4 DEF TokensOf
<1>4. FeeOf(pending.amount) = ExpectedFee(pending.amount)
    BY <1>1 DEF FeeOf, ExpectedFee, MAX_FEE_BPS
<1>5. TokensOf(BatchRecipient) \in Nat /\ TokensOf(BatchRecipient)' \in Nat
    <2>1. TypeOK'
        <3>1. [Next]_vars
            BY BatchContractStep DEF BatchNext
        <3> QED
            BY <3>1, NextTypeOK
    <2> QED
        BY <2>1, BatchRoles DEF TokensOf, TypeOK, FundsTypeOK
<1> QED
    BY <1>3, <1>4, <1>5

\* A successful tip changes credits, holdings and fees as the oracle says.
LEMMA TipAgrees ==
    ASSUME TypeOK, BatchInv, OracleAgrees, tip_succeeds
    PROVE  OracleAgrees'
<1> DEFINE amount == pending.amount
           receiver == pending.creator
           credited == CreatorAmount(amount, FeeOf(amount))
           fee == ExpectedFee(amount)
<1>1. /\ tip(Tipper, receiver, BatchToken, amount)
      /\ Admin # None /\ FeeBps = fee_bps /\ FeeRecipient = BatchRecipient
      /\ amount \in Amount /\ receiver \in Creators /\ receiver \in Account
      /\ expected_balance' = [expected_balance EXCEPT ![receiver] = @ + (amount - fee)]
      /\ cumulative_fee' = cumulative_fee + fee
    BY BatchRoles
    DEF tip_succeeds, BatchInv, tip, CanTip, TipAccepted, check_initialized_and_not_paused
<1>2. credited = amount - fee
    BY <1>1 DEF CreatorAmount, FeeOf, ExpectedFee, MAX_FEE_BPS
<1>3. FeeAlwaysPayable
    BY <1>1, BatchRoles DEF FeeAlwaysPayable
<1>4. TokensOf(BatchRecipient)' = TokensOf(BatchRecipient) + fee
    BY RecipientGain
<1> HIDE DEF amount, receiver, fee
<1>5. /\ credited \in Nat
      /\ TokensOf(Contract)' = TokensOf(Contract) + credited
    BY <1>1, <1>3, TipHeld, BatchRoles DEF TokensOf
<1>6. \A creator \in Creators :
         get_balance(creator, BatchToken)' =
            IF creator = receiver THEN get_balance(creator, BatchToken) + credited
                                  ELSE get_balance(creator, BatchToken)
    BY <1>1, TipEffect, BatchRoles
<1> HIDE DEF credited
<1>7. expected_balance \in [Creators -> Int] /\ cumulative_fee \in Int
    BY DEF BatchInv
<1>8. \A creator \in Creators :
         get_balance(creator, BatchToken)' = expected_balance'[creator]
    BY <1>1, <1>2, <1>5, <1>6, <1>7 DEF OracleAgrees
<1>9. expected_balance'[Creator1] + expected_balance'[Creator2]
         = expected_balance[Creator1] + expected_balance[Creator2] + credited
    BY <1>1, <1>2, <1>5, <1>7, BatchAssumption DEF Creators
<1>10. fee \in Int /\ Supply \in Int
    <2>1. amount \in Int
        BY <1>1, NumberAssumption
    <2>2. fee_bps \in Int
        BY <1>1 DEF TypeOK, ConfigTypeOK
    <2> QED
        BY <2>1, <2>2, NumberAssumption DEF fee, ExpectedFee
<1>11. TokensOf(BatchRecipient)' = Supply + cumulative_fee'
    BY <1>1, <1>4, <1>7, <1>10 DEF OracleAgrees
<1> QED
    BY <1>5, <1>8, <1>9, <1>11 DEF OracleAgrees

\* So does a withdrawal.
LEMMA WithdrawAgrees ==
    ASSUME TypeOK, BatchInv, OracleAgrees, NEW payee \in Creators,
           NEW wd \in Amount, withdraw_op(payee, wd)
    PROVE  OracleAgrees'
<1>1. /\ withdraw(payee, BatchToken, wd)
      /\ expected_balance' = [expected_balance EXCEPT ![payee] = @ - wd]
      /\ cumulative_fee' = cumulative_fee
      /\ wd \in Int /\ payee \in Account
    BY BatchRoles, NumberAssumption DEF withdraw_op
<1>2. \A creator \in Creators :
         get_balance(creator, BatchToken)' =
            IF creator = payee THEN get_balance(creator, BatchToken) - wd
                               ELSE get_balance(creator, BatchToken)
    BY <1>1, WithdrawEffect, BatchRoles
<1>3. TokensOf(Contract)' = TokensOf(Contract) - wd
    BY <1>1, WithdrawMoves, BatchRoles DEF TokensOf, Held
<1>4. TokensOf(BatchRecipient)' = TokensOf(BatchRecipient)
    <2>1. BatchRecipient # payee /\ BatchRecipient \in Account
        BY BatchAssumption, BatchRoles DEF Creators
    <2>2. Wallet'[<<BatchRecipient, BatchToken>>] = Wallet[<<BatchRecipient, BatchToken>>]
        BY <1>1, <2>1, WithdrawMoves, BatchRoles
    <2> QED
        BY <2>1, <2>2, BatchRoles DEF Wallet, TokensOf
<1>5. expected_balance \in [Creators -> Int]
    BY DEF BatchInv
<1>6. \A creator \in Creators :
         get_balance(creator, BatchToken)' = expected_balance'[creator]
    BY <1>1, <1>2, <1>5 DEF OracleAgrees
<1>7. expected_balance'[Creator1] + expected_balance'[Creator2]
         = expected_balance[Creator1] + expected_balance[Creator2] - wd
    BY <1>1, <1>5, BatchAssumption DEF Creators
<1>8. TokensOf(Contract)' = expected_balance'[Creator1] + expected_balance'[Creator2]
    BY <1>1, <1>3, <1>5, <1>7 DEF OracleAgrees, Creators
<1>9. TokensOf(BatchRecipient)' = Supply + cumulative_fee'
    BY <1>1, <1>4 DEF OracleAgrees
<1> QED
    BY <1>6, <1>8, <1>9 DEF OracleAgrees

\* Every other operation leaves the compared quantities alone.
LEMMA NextAgrees ==
    ASSUME TypeOK, BatchInv, OracleAgrees, [BatchNext]_batchVars
    PROVE  OracleAgrees'
<1>1. ASSUME UNCHANGED <<Balance, tokenBalance, expected_balance, cumulative_fee>>
      PROVE  OracleAgrees'
    BY <1>1 DEF OracleAgrees, TokensOf, get_balance
<1>2. ASSUME NEW bps \in FeeInput, new(bps)
      PROVE  OracleAgrees'
    BY <1>1, <1>2 DEF new, init, funds
<1>3. ASSUME NEW creator \in Creators, preregister(creator)
      PROVE  OracleAgrees'
    BY <1>1, <1>3 DEF preregister, register, oracle
<1>4. ASSUME pause_op
      PROVE  OracleAgrees'
    BY <1>1, <1>4 DEF pause_op, pause, unpause, oracle, funds
<1>5. ASSUME NEW creator \in Creators, NEW amount \in Amount,
             choose_tip(creator, amount)
      PROVE  OracleAgrees'
    BY <1>1, <1>5 DEF choose_tip, oracle, vars, funds
<1>6. ASSUME tip_panics \/ UNCHANGED batchVars
      PROVE  OracleAgrees'
    BY <1>1, <1>6 DEF tip_panics, batchVars, oracle, vars, funds
<1> QED
    BY <1>2, <1>3, <1>4, <1>5, <1>6, TipAgrees, WithdrawAgrees DEF BatchNext

\* After every operation of every batch the credits, the tokens held and the
\* fees forwarded are what the oracle of the property test adds up.
THEOREM OracleSoundness == BatchSpec => []OracleAgrees
<1>1. BatchInit => OracleAgrees
    <2> SUFFICES ASSUME BatchInit PROVE OracleAgrees
        OBVIOUS
    <2>1. \A creator \in Creators :
             /\ get_balance(creator, BatchToken) = 0
             /\ expected_balance[creator] = 0
        BY DEF BatchInit, Init, EmptyMap, get_balance, GetOr
    <2>2. TokensOf(Contract) = 0 /\ TokensOf(BatchRecipient) = Supply
        BY AddressAssumption, BatchAssumption, BatchRoles
        DEF BatchInit, Init, TokensOf, Address
    <2> QED
        BY <2>1, <2>2, NumberAssumption DEF OracleAgrees, Creators, BatchInit
<1>2. TypeOK /\ BatchInv /\ OracleAgrees /\ [BatchNext]_batchVars => OracleAgrees'
    BY NextAgrees
<1> QED
    BY <1>1, <1>2, HarnessUsesContract, TypeCorrectness, PTL DEF BatchSpec

------------------------------------------------------------------------------
(* Tips.                                                                   *)

\* While a tip is pending nothing else moves, so what was drawn still holds;
\* and what the creators were tipped the supporters no longer hold, so neither
\* a credit nor a tip index outgrows what they started with.
TipReadyInv ==
    /\ Admin # None => MaxTipsPerCreator = 0 /\ MinTipAmount = 0
    /\ pending # None =>
          /\ BatchStarted
          /\ pending.caller = Tipper /\ pending.token = BatchToken
          /\ pending.amount > 0
          /\ pending.amount <= TokensOf(Tipper)
          /\ pending.is_paused = Paused
    /\ \A creator \in Creators :
          /\ get_tip_count(creator) + TokensOf(Tipper) <= Supply
          /\ get_balance(creator, BatchToken) + TokensOf(Tipper) <= Supply

\* The numbers the invariant compares.
LEMMA ReadyTypes ==
    ASSUME TypeOK
    PROVE  /\ Supply \in Nat
           /\ TokensOf(Tipper) \in Nat
           /\ \A creator \in Creators :
                 /\ get_tip_count(creator) \in Nat
                 /\ get_balance(creator, BatchToken) \in Nat
BY GetOrType, BatchRoles, NumberAssumption
DEF TypeOK, FundsTypeOK, TokensOf, Address, get_tip_count, get_balance, MapOf, GetOr

\* A step that leaves the funds and the pending tip alone.
LEMMA ReadyFrame ==
    ASSUME TipReadyInv, UNCHANGED <<TipCount, Balance, tokenBalance, pending>>,
           Profile' = Profile, pending # None => UNCHANGED Paused,
           Admin' # None => MaxTipsPerCreator' = 0 /\ MinTipAmount' = 0
    PROVE  TipReadyInv'
BY DEF TipReadyInv, TokensOf, get_tip_count, get_balance, BatchStarted

\* A tip takes its amount from the supporters, and brings the creator one more
\* record and at most the amount.
LEMMA TipKeepsReady ==
    ASSUME TypeOK, TypeOK', BatchInv, TipReadyInv, tip_succeeds
    PROVE  TipReadyInv'
<1> DEFINE amount == pending.amount
           receiver == pending.creator
           credited == CreatorAmount(amount, FeeOf(amount))
<1>1. /\ tip(Tipper, receiver, BatchToken, amount)
      /\ FeeRecipient = BatchRecipient
      /\ receiver \in Creators /\ receiver \in Account
      /\ amount \in Amount /\ amount > 0
      /\ pending' = None
    BY BatchRoles
    DEF tip_succeeds, BatchInv, tip, CanTip, TipAccepted, MeetsMinimum,
        check_initialized_and_not_paused
<1>2. UNCHANGED config
    BY <1>1 DEF tip, TipBooked
<1> HIDE DEF amount, receiver
<1>3. FeeAlwaysPayable
    BY <1>1, BatchRoles DEF FeeAlwaysPayable
<1>4. amount \in Nat \ {0}
    <2>1. amount \in Int
        BY <1>1, NumberAssumption
    <2> QED
        BY <1>1, <2>1
<1>5. credited \in 0 .. amount
    <2>1. FeeOf(amount) \in 0 .. amount
        BY <1>4, FeeFloor
    <2> QED
        BY <1>4, <2>1 DEF CreatorAmount
<1>6. TokensOf(Tipper)' - TokensOf(Tipper) = 0 - amount
    <2>1. \A address \in Address :
             tokenBalance'[<<address, BatchToken>>] - tokenBalance[<<address, BatchToken>>]
                = (IF address = Contract THEN credited ELSE 0)
                  + (IF address = FeeRecipient THEN FeeOf(amount) ELSE 0)
                  - (IF address = Tipper THEN amount ELSE 0)
        BY <1>1, <1>3, TipGain, BatchRoles
    <2>2. /\ Tipper \in Address /\ Tipper # Contract /\ Tipper # FeeRecipient
        BY <1>1, BatchRoles, AddressAssumption DEF Address
    <2> HIDE DEF credited
    <2>3. tokenBalance'[<<Tipper, BatchToken>>] - tokenBalance[<<Tipper, BatchToken>>]
             = 0 + 0 - amount
        BY <2>1, <2>2
    <2> QED
        BY <1>4, <2>3 DEF TokensOf
<1>7. ASSUME NEW creator \in Creators
      PROVE  /\ get_tip_count(creator)' \in {get_tip_count(creator),
                                             get_tip_count(creator) + 1}
             /\ get_balance(creator, BatchToken)'
                   \in {get_balance(creator, BatchToken),
                        get_balance(creator, BatchToken) + credited}
    <2>1. TipCount' = Put(TipCount, receiver, get_tip_count(receiver) + 1)
        BY <1>1 DEF tip, TipBooked
    <2>2. get_tip_count(creator)' =
             IF creator = receiver THEN get_tip_count(receiver) + 1
                                   ELSE get_tip_count(creator)
        BY <2>1 DEF get_tip_count, GetOr, Put
    <2>3. get_balance(creator, BatchToken)' =
             IF creator = receiver THEN get_balance(creator, BatchToken) + credited
                                   ELSE get_balance(creator, BatchToken)
        BY <1>1, TipEffect, BatchRoles
    <2> QED
        BY <2>2, <2>3
<1> HIDE DEF credited
<1>8. /\ TokensOf(Tipper) \in Nat /\ TokensOf(Tipper)' \in Nat /\ Supply \in Nat
      /\ \A creator \in Creators : /\ get_tip_count(creator) \in Nat
                                   /\ get_balance(creator, BatchToken) \in Nat
    <2>1. TokensOf(Tipper)' \in Nat
        BY BatchRoles DEF TokensOf, TypeOK, FundsTypeOK, Address
    <2> QED
        BY <2>1, ReadyTypes
<1>9. ASSUME NEW creator \in Creators
      PROVE  /\ get_tip_count(creator)' + TokensOf(Tipper)' <= Supply
             /\ get_balance(creator, BatchToken)' + TokensOf(Tipper)' <= Supply
    <2>1. /\ get_tip_count(creator) + TokensOf(Tipper) <= Supply
          /\ get_balance(creator, BatchToken) + TokensOf(Tipper) <= Supply
        BY DEF TipReadyInv
    <2> QED
        BY <1>4, <1>5, <1>6, <1>7, <1>8, <2>1
<1> QED
    BY <1>1, <1>2, <1>9 DEF TipReadyInv, config

\* A withdrawal leaves the supporters alone and reduces a credit.
LEMMA WithdrawKeepsReady ==
    ASSUME TypeOK, BatchInv, TipReadyInv, NEW payee \in Creators, NEW wd \in Amount,
           withdraw_op(payee, wd)
    PROVE  TipReadyInv'
<1>1. /\ withdraw(payee, BatchToken, wd) /\ wd > 0 /\ wd \in Int
      /\ payee \in Account /\ payee # Tipper /\ pending = None
      /\ UNCHANGED pending
    BY BatchRoles, BatchAssumption, NumberAssumption DEF withdraw_op, Creators, Idle
<1>2. UNCHANGED <<config, registry, TipCount>>
    BY <1>1 DEF withdraw, WithdrawBooked
<1>3. TokensOf(Tipper)' = TokensOf(Tipper)
    <2>1. Wallet'[<<Tipper, BatchToken>>] = Wallet[<<Tipper, BatchToken>>]
        BY <1>1, WithdrawMoves, BatchRoles
    <2> QED
        BY <2>1, BatchRoles DEF Wallet, TokensOf
<1>4. \A creator \in Creators :
         get_balance(creator, BatchToken)' =
            IF creator = payee THEN get_balance(creator, BatchToken) - wd
                               ELSE get_balance(creator, BatchToken)
    BY <1>1, WithdrawEffect, BatchRoles
<1>5. \A creator \in Creators :
         get_balance(creator, BatchToken)' + TokensOf(Tipper)' <= Supply
    BY <1>1, <1>3, <1>4, ReadyTypes DEF TipReadyInv
<1>6. \A creator \in Creators :
         get_tip_count(creator)' + TokensOf(Tipper)' <= Supply
    BY <1>2, <1>3 DEF TipReadyInv, get_tip_count
<1> QED
    BY <1>1, <1>2, <1>5, <1>6 DEF TipReadyInv, config

LEMMA NextReady ==
    ASSUME TypeOK, TypeOK', CountInv, BatchInv, TipReadyInv, [BatchNext]_batchVars
    PROVE  TipReadyInv'
<1>1. ASSUME NEW bps \in FeeInput, new(bps)
      PROVE  TipReadyInv'
    <2>1. /\ Admin = None /\ MaxTipsPerCreator' = 0 /\ MinTipAmount' = 0
          /\ UNCHANGED <<TipCount, Balance, tokenBalance, Profile, pending>>
        BY <1>1 DEF new, init, NotYetInitialized, funds
    <2>2. pending = None
        BY <2>1 DEF TipReadyInv, BatchStarted, CountInv, Creators
    <2> QED
        BY <2>1, <2>2, ReadyFrame
<1>2. ASSUME NEW creator \in Creators, preregister(creator)
      PROVE  TipReadyInv'
    <2>1. /\ pending = None /\ pending' = None
          /\ TipCount' = Put(TipCount, creator, 0)
          /\ UNCHANGED <<config, Balance, tokenBalance>>
        BY <1>2 DEF preregister, register, TipReadyInv
    <2>2. \A other \in Creators : get_tip_count(other)' \in {0, get_tip_count(other)}
        BY <2>1 DEF get_tip_count, GetOr, Put
    <2>3. \A other \in Creators : get_tip_count(other)' + TokensOf(Tipper)' <= Supply
        <3>1. TokensOf(Tipper)' = TokensOf(Tipper)
            BY <2>1 DEF TokensOf
        <3> QED
            BY <2>2, <3>1, ReadyTypes DEF TipReadyInv
    <2>4. \A other \in Creators :
             get_balance(other, BatchToken)' + TokensOf(Tipper)' <= Supply
        BY <2>1 DEF TipReadyInv, TokensOf, get_balance
    <2> QED
        BY <2>1, <2>3, <2>4 DEF TipReadyInv, config
<1>3. ASSUME pause_op
      PROVE  TipReadyInv'
    <2>1. /\ pending = None /\ Admin # None
          /\ UNCHANGED <<Admin, MaxTipsPerCreator, MinTipAmount, TipCount, Balance,
                         tokenBalance, Profile, pending>>
        BY <1>3 DEF pause_op, pause, unpause, AuthorizedAdmin, Idle, funds, registry
    <2> QED
        BY <2>1, ReadyFrame DEF TipReadyInv
<1>4. ASSUME NEW creator \in Creators, NEW amount \in Amount,
             choose_tip(creator, amount)
      PROVE  TipReadyInv'
    <2>1. /\ amount > 0 /\ amount <= TokensOf(Tipper) /\ BatchStarted
          /\ UNCHANGED vars
          /\ pending' = [fn |-> "tip", caller |-> Tipper, creator |-> creator,
                         token |-> BatchToken, amount |-> amount,
                         is_paused |-> Paused]
        <3>1. CanTransfer(tokenBalance, BatchToken, Tipper, amount)
            BY <1>4 DEF choose_tip
        <3>2. amount \in Int /\ TokensOf(Tipper) \in Nat
            BY ReadyTypes, NumberAssumption
        <3>3. amount <= TokensOf(Tipper)
            BY <3>1, <3>2 DEF CanTransfer, TokensOf
        <3> QED
            BY <1>4, <3>3 DEF choose_tip, Idle
    <2>2. /\ pending'.caller = Tipper /\ pending'.token = BatchToken
          /\ pending'.amount = amount /\ pending'.is_paused = Paused
        BY <2>1
    <2> QED
        BY <2>1, <2>2
        DEF TipReadyInv, vars, config, registry, funds, TokensOf, BatchStarted,
            get_tip_count, get_balance
<1>5. ASSUME tip_panics
      PROVE  TipReadyInv'
    BY <1>5
    DEF tip_panics, TipReadyInv, vars, config, registry, funds, TokensOf,
        get_tip_count, get_balance
<1>6. CASE UNCHANGED batchVars
    BY <1>6, ReadyFrame DEF batchVars, vars, config, registry, funds, TipReadyInv
<1> QED
    BY <1>1, <1>2, <1>3, <1>4, <1>5, <1>6, TipKeepsReady, WithdrawKeepsReady
    DEF BatchNext

LEMMA ReadyInvariance == BatchSpec => []TipReadyInv
<1>1. BatchInit => TipReadyInv
    <2> SUFFICES ASSUME BatchInit PROVE TipReadyInv
        OBVIOUS
    <2>1. \A creator \in Creators : /\ get_tip_count(creator) = 0
                                    /\ get_balance(creator, BatchToken) = 0
        BY DEF BatchInit, Init, EmptyMap, get_tip_count, get_balance, GetOr
    <2>2. TokensOf(Tipper) = Supply
        BY BatchRoles DEF BatchInit, Init, TokensOf, Address
    <2> QED
        BY <2>1, <2>2, NumberAssumption DEF TipReadyInv, BatchInit, Init
<1>2. TypeOK /\ TypeOK' /\ CountInv /\ BatchInv /\ TipReadyInv /\ [BatchNext]_batchVars
         => TipReadyInv'
    BY NextReady
<1> QED
    BY <1>1, <1>2, HarnessUsesContract, TypeCorrectness, CountInvariance, PTL
    DEF BatchSpec

\* A pending tip passes every check of the contract but the one of the pause.
LEMMA PendingTipAccepted ==
    ASSUME TypeOK, CountInv, BatchInv, TipReadyInv, pending # None, ~Paused
    PROVE  CanTip(Tipper, pending.creator, BatchToken, pending.amount)
<1> DEFINE amount == pending.amount
           receiver == pending.creator
           fee == FeeOf(amount)
           received == Transferred(tokenBalance, BatchToken, Tipper, Contract, amount)
<1>1. /\ receiver \in Creators /\ amount \in Amount /\ amount > 0
      /\ amount <= TokensOf(Tipper) /\ receiver \in DOMAIN Profile
    BY DEF BatchInv, TipReadyInv, BatchStarted
<1>2. Admin # None
    BY <1>1 DEF CountInv
<1>3. /\ FeeRecipient = BatchRecipient /\ FeeRecipient # None
      /\ MaxTipsPerCreator = 0 /\ MinTipAmount = 0 /\ FeeBps \in 0 .. MAX_FEE_BPS
    BY <1>2, BatchRoles DEF BatchInv, TipReadyInv, TypeOK, ConfigTypeOK
<1> HIDE DEF amount, receiver
<1>4. amount \in Nat \ {0} /\ amount <= Supply
    <2>1. amount \in Int
        BY <1>1, NumberAssumption
    <2>2. TokensOf(Tipper) <= Supply
        BY <1>1, ReadyTypes DEF TipReadyInv
    <2> QED
        BY <1>1, <2>1, <2>2, ReadyTypes
<1>5. fee \in 0 .. amount
    BY <1>4, FeeFloor
<1>6. amount * FeeBps <= MAX_I128
    <2>1. amount * FeeBps <= amount * MAX_FEE_BPS
        BY <1>3, <1>4 DEF MAX_FEE_BPS
    <2>2. amount * MAX_FEE_BPS <= Supply * MAX_FEE_BPS
        BY <1>4, ReadyTypes DEF MAX_FEE_BPS
    <2>3. amount * FeeBps \in Int
        BY <1>3, <1>4 DEF MAX_FEE_BPS
    <2> QED
        BY <1>4, <2>1, <2>2, <2>3, BatchSizeAssumption, NumberAssumption DEF MAX_FEE_BPS
<1>7. get_balance(receiver, BatchToken) + CreatorAmount(amount, fee) <= MAX_I128
    <2>1. get_balance(receiver, BatchToken) + TokensOf(Tipper) <= Supply
        BY <1>1 DEF TipReadyInv
    <2>2. /\ get_balance(receiver, BatchToken) \in Nat /\ TokensOf(Tipper) \in Nat
          /\ Supply \in Nat /\ MAX_I128 \in Nat
        BY <1>1, ReadyTypes, NumberAssumption
    <2>3. Supply <= MAX_I128
        BY <2>2, BatchSizeAssumption DEF MAX_FEE_BPS
    <2> HIDE DEF fee
    <2> QED
        BY <1>1, <1>4, <1>5, <2>1, <2>2, <2>3 DEF CreatorAmount
<1>8. get_tip_count(receiver) + 1 <= MAX_U64
    <2>1. get_tip_count(receiver) + TokensOf(Tipper) <= Supply
        BY <1>1 DEF TipReadyInv
    <2> QED
        BY <1>1, <1>4, <2>1, ReadyTypes, BatchSizeAssumption, NumberAssumption
<1>9. CanTransfer(tokenBalance, BatchToken, Tipper, amount)
    BY <1>1, <1>4, ReadyTypes DEF CanTransfer, TokensOf
<1>10. CanTransfer(received, BatchToken, Contract, fee)
    <2>1. /\ Tipper \in Address /\ Contract \in Address /\ Tipper # Contract
          /\ tokenBalance \in [Address \X Token -> Nat]
        BY BatchRoles, AddressAssumption DEF Address, TypeOK, FundsTypeOK
    <2>2. received[<<Contract, BatchToken>>]
             = tokenBalance[<<Contract, BatchToken>>] + amount
        BY <1>4, <2>1, BatchRoles DEF Transferred
    <2>3. tokenBalance[<<Contract, BatchToken>>] \in Nat
        BY <2>1, BatchRoles
    <2> HIDE DEF received, fee
    <2> QED
        BY <1>4, <1>5, <2>2, <2>3 DEF CanTransfer
<1>11. TipAccepted(receiver, BatchToken, amount)
    BY <1>1, <1>2, <1>3, <1>4, <1>6, <1>7, <1>8
    DEF TipAccepted, check_initialized_and_not_paused, MeetsMinimum, UnderCap
<1> QED
    BY <1>9, <1>10, <1>11 DEF CanTip, amount, receiver

\* The assertions the test makes after every tip: it fails when is_paused said
\* so before it, and for no other reason, whatever the batch did before.
THEOREM TipsFailOnlyPaused == BatchSpec => []TipFailsIffPaused
<1>1. ASSUME TypeOK, CountInv, BatchInv, TipReadyInv, pending # None
      PROVE  tipError(pending) # Ok <=> pending.is_paused
    <2>1. /\ pending.caller = Tipper /\ pending.token = BatchToken
          /\ pending.is_paused = Paused
        BY <1>1 DEF TipReadyInv
    <2>2. tipError(pending) = Ok
             <=> CanTip(Tipper, pending.creator, BatchToken, pending.amount)
        BY <2>1, TipOk
    <2>3. CASE Paused
        BY <2>1, <2>2, <2>3
        DEF CanTip, TipAccepted, check_initialized_and_not_paused
    <2>4. CASE ~Paused
        BY <1>1, <2>1, <2>2, <2>4, PendingTipAccepted
    <2> QED
        BY <2>3, <2>4
<1>2. TypeOK /\ CountInv /\ BatchInv /\ TipReadyInv => TipFailsIffPaused
    BY <1>1 DEF TipFailsIffPaused
<1> QED
    BY <1>2, HarnessUsesContract, ReadyInvariance, TypeCorrectness, CountInvariance, PTL

==============================================================================
