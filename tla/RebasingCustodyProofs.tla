------------------------- MODULE RebasingCustodyProofs -------------------------
(***************************************************************************)
(* Proofs about the contract with a token that rebases: for every value of *)
(* the constants, and every factor, the gap between what the contract      *)
(* holds and what it owes stays in that token and is never closed.         *)
(***************************************************************************)
EXTENDS RebasingCustody, StellarTipRefinementProofs

------------------------------------------------------------------------------
(* The token.                                                              *)

TokenTypeOK ==
    /\ shares \in [Address -> Nat]
    /\ num \in Nat
    /\ den \in Nat \ {0}

\* The conversion to shares rounds down, by less than one share.
LEMMA Conversion ==
    ASSUME TokenTypeOK, num # 0, NEW amount \in Nat
    PROVE  /\ nominal_to_shares(amount) \in Nat
           /\ nominal_to_shares(amount) * num <= amount * den
           /\ amount * den < nominal_to_shares(amount) * num + num
<1> DEFINE product == amount * den
<1>1. product \in Nat /\ num \in Nat \ {0}
    BY DEF TokenTypeOK
<1> HIDE DEF product
<1>2. /\ product \div num \in Nat
      /\ (product \div num) * num <= product
      /\ product < (product \div num) * num + num
    BY <1>1
<1> QED
    BY <1>2 DEF nominal_to_shares, product

\* Nothing converts to nothing.
LEMMA NothingConverts ==
    ASSUME TokenTypeOK, num # 0
    PROVE  nominal_to_shares(0) = 0
<1>1. num \in Nat \ {0} /\ 0 * den = 0
    BY DEF TokenTypeOK
<1>2. 0 \div num = 0
    BY <1>1
<1> QED
    BY <1>1, <1>2 DEF nominal_to_shares

\* What the contract's shares become when it receives and when it pays.
LEMMA ContractShares ==
    ASSUME NEW held \in [Address -> Nat], NEW src \in Address, NEW dst \in Address,
           NEW amount, nominal_to_shares(amount) \in Nat,
           held[src] >= nominal_to_shares(amount)
    PROVE  /\ Moved(held, src, dst, amount) \in [Address -> Nat]
           /\ src # Contract =>
                 Moved(held, src, dst, amount)[Contract] =
                    IF dst = Contract THEN held[Contract] + nominal_to_shares(amount)
                                      ELSE held[Contract]
           /\ src = Contract /\ dst # Contract =>
                 Moved(held, src, dst, amount)[Contract]
                    = held[Contract] - nominal_to_shares(amount)
<1> DEFINE n == nominal_to_shares(amount)
<1>1. n \in Nat /\ held[src] - n \in Nat /\ held[dst] + n \in Nat
    OBVIOUS
<1>2. Contract \in Address
    BY DEF Address
<1> HIDE DEF n
<1>3. Moved(held, src, dst, amount)
         = [held EXCEPT ![src] = held[src] - n, ![dst] = held[dst] + n]
    BY DEF Moved, n
<1> QED
    BY <1>1, <1>2, <1>3 DEF n

------------------------------------------------------------------------------
(* The two entry points that move the rebasing token.                      *)

\* A tip brings the contract the shares of its amount less those of its fee,
\* each rounded down on its own.
LEMMA TipShares ==
    ASSUME TypeOK, TokenTypeOK, FeeAlwaysPayable, NEW from \in Account,
           NEW creator \in Account, NEW amount \in Amount,
           tip_rebasing(from, creator, amount)
    PROVE  /\ num # 0 /\ amount \in Nat /\ FeeOf(amount) \in 0 .. amount
           /\ TypeOK' /\ TokenTypeOK'
           /\ shares'[Contract] = shares[Contract] + nominal_to_shares(amount)
                                     - nominal_to_shares(FeeOf(amount))
<1> DEFINE fee == FeeOf(amount)
           received == Moved(shares, from, Contract, amount)
<1>1. /\ TipAccepted(creator, Rebasing, amount)
      /\ TipBooked(from, creator, Rebasing, amount)
      /\ num # 0 /\ shares[from] >= nominal_to_shares(amount)
      /\ fee > 0 => received[Contract] >= nominal_to_shares(fee)
      /\ shares' = IF fee > 0 THEN Moved(received, Contract, FeeRecipient, fee)
                              ELSE received
      /\ tokenBalance' = tokenBalance /\ num' = num /\ den' = den
    BY DEF tip_rebasing, CanMove
<1>2. amount \in Nat /\ fee \in 0 .. amount
    BY <1>1, NumberAssumption, FeeBounds
    DEF TipAccepted, MeetsMinimum, FeeOf, TypeOK, ConfigTypeOK
<1>3. /\ from \in Address /\ Contract \in Address /\ from # Contract
      /\ shares \in [Address -> Nat]
    BY AddressAssumption DEF Address, TokenTypeOK
<1>4. FeeRecipient # Contract /\ fee > 0 => FeeRecipient \in Address
    <2>1. Admin # None
        BY <1>1 DEF TipAccepted, check_initialized_and_not_paused
    <2> QED
        BY <2>1 DEF FeeAlwaysPayable, TypeOK, ConfigTypeOK
<1>5. FeeRecipient # Contract
    BY <1>1 DEF TipAccepted, check_initialized_and_not_paused, FeeAlwaysPayable
<1>6. nominal_to_shares(amount) \in Nat /\ nominal_to_shares(fee) \in Nat
    BY <1>1, <1>2, Conversion
<1>7. TypeOK'
    BY <1>1, RebasingAssumption, TipBooksTypeOK DEF TypeOK, FundsTypeOK
<1> HIDE DEF fee, received
<1>8. /\ received \in [Address -> Nat]
      /\ received[Contract] = shares[Contract] + nominal_to_shares(amount)
    BY <1>1, <1>3, <1>6, ContractShares DEF received
<1>9. /\ shares' \in [Address -> Nat]
      /\ shares'[Contract] = received[Contract] - nominal_to_shares(fee)
    <2>1. CASE fee > 0
        <3>1. shares' = Moved(received, Contract, FeeRecipient, fee)
            BY <1>1, <2>1
        <3> QED
            BY <1>1, <1>3, <1>4, <1>5, <1>6, <1>8, <2>1, <3>1, ContractShares
    <2>2. CASE ~(fee > 0)
        <3>1. fee = 0 /\ shares' = received
            BY <1>1, <1>2, <2>2
        <3>2. nominal_to_shares(fee) = 0 /\ received[Contract] \in Nat
            BY <1>1, <1>3, <1>8, <3>1, NothingConverts
        <3> QED
            BY <1>8, <3>1, <3>2
    <2> QED
        BY <2>1, <2>2
<1>10. TokenTypeOK'
    BY <1>1, <1>9 DEF TokenTypeOK
<1>11. shares'[Contract] = shares[Contract] + nominal_to_shares(amount)
                              - nominal_to_shares(fee)
    BY <1>3, <1>6, <1>8, <1>9
<1>12. num # 0
    BY <1>1
<1> QED
    BY <1>2, <1>7, <1>10, <1>11, <1>12 DEF fee

\* A withdrawal takes the shares of its amount, rounded down, from the contract.
LEMMA WithdrawShares ==
    ASSUME TypeOK, TokenTypeOK, NEW caller \in Account, NEW amount \in Amount,
           withdraw_rebasing(caller, amount)
    PROVE  /\ num # 0 /\ amount \in Nat
           /\ TypeOK' /\ TokenTypeOK'
           /\ shares'[Contract] = shares[Contract] - nominal_to_shares(amount)
<1>1. /\ WithdrawAccepted(caller, Rebasing, amount)
      /\ WithdrawBooked(caller, Rebasing, amount)
      /\ num # 0 /\ shares[Contract] >= nominal_to_shares(amount)
      /\ shares' = Moved(shares, Contract, caller, amount)
      /\ tokenBalance' = tokenBalance /\ num' = num /\ den' = den
    BY DEF withdraw_rebasing, CanWithdrawRebasing, CanMove, transfer
<1>2. amount \in Nat
    BY <1>1, NumberAssumption DEF WithdrawAccepted
<1>3. nominal_to_shares(amount) \in Nat
    BY <1>1, <1>2, Conversion
<1>4. /\ caller \in Address /\ Contract \in Address /\ caller # Contract
      /\ shares \in [Address -> Nat]
    BY AddressAssumption DEF Address, TokenTypeOK
<1>5. /\ shares' \in [Address -> Nat]
      /\ shares'[Contract] = shares[Contract] - nominal_to_shares(amount)
    BY <1>1, <1>3, <1>4, ContractShares
<1>6. TypeOK'
    BY <1>1, RebasingAssumption, WithdrawBooksTypeOK DEF TypeOK, FundsTypeOK
<1> QED
    BY <1>1, <1>2, <1>5, <1>6 DEF TokenTypeOK

\* The token's own steps keep its types; a transfer can only add to what the
\* contract holds.
LEMMA OwnStepShares ==
    ASSUME TokenTypeOK, TokenOwnStep
    PROVE  /\ TokenTypeOK'
           /\ shares'[Contract] \in Nat /\ shares'[Contract] >= shares[Contract]
<1>1. Contract \in Address /\ shares[Contract] \in Nat
    BY DEF Address, TokenTypeOK
<1>2. ASSUME NEW src \in Account, NEW dst \in DepositTarget, NEW amount \in Amount,
             amount > 0, transfer(src, dst, amount)
      PROVE  /\ TokenTypeOK'
             /\ shares'[Contract] \in Nat /\ shares'[Contract] >= shares[Contract]
    <2>1. /\ num # 0 /\ shares[src] >= nominal_to_shares(amount)
          /\ shares' = Moved(shares, src, dst, amount)
          /\ num' = num /\ den' = den
        BY <1>2 DEF transfer, CanMove
    <2>2. /\ src \in Address /\ dst \in Address /\ src # Contract
          /\ shares \in [Address -> Nat] /\ amount \in Nat
        BY <1>2, AddressAssumption, NumberAssumption DEF Address, TokenTypeOK
    <2>3. nominal_to_shares(amount) \in Nat
        BY <2>1, <2>2, Conversion
    <2>4. /\ shares' \in [Address -> Nat]
          /\ shares'[Contract] = IF dst = Contract
                                 THEN shares[Contract] + nominal_to_shares(amount)
                                 ELSE shares[Contract]
        BY <2>1, <2>2, <2>3, ContractShares
    <2> QED
        BY <1>1, <2>1, <2>3, <2>4 DEF TokenTypeOK
<1>3. ASSUME NEW factor \in Factor, rebase(factor[1], factor[2])
      PROVE  /\ TokenTypeOK'
             /\ shares'[Contract] \in Nat /\ shares'[Contract] >= shares[Contract]
    <2>1. factor[1] \in Nat /\ factor[2] \in Nat \ {0}
        BY RebasingAssumption
    <2> QED
        BY <1>1, <1>3, <2>1 DEF rebase, TokenTypeOK
<1> QED
    BY <1>2, <1>3 DEF TokenOwnStep

------------------------------------------------------------------------------
(* What always holds.                                                      *)

\* In every token but the rebasing one the contract holds what it owes.
SolventElsewhere == \A token \in Token \ {Rebasing} : Surplus(token) >= 0

\* The invariants of the contract that do not depend on the rebasing token.
CustodyInv ==
    /\ TypeOK
    /\ TokenTypeOK
    /\ NoStrandedCredit
    /\ FeeAlwaysPayable
    /\ FiniteBalance
    /\ SolventElsewhere

LEMMA CustodyInitInv == CustodyInit => CustodyInv
<1> SUFFICES ASSUME CustodyInit PROVE CustodyInv
    OBVIOUS
<1>1. Init
    BY DEF CustodyInit
<1>2. TokenTypeOK
    BY NumberAssumption DEF CustodyInit, TokenTypeOK
<1>3. NoStrandedCredit /\ FeeAlwaysPayable
    BY <1>1 DEF Init, NoStrandedCredit, FeeAlwaysPayable, EmptyMap, get_balance, GetOr
<1>4. FiniteBalance
    BY <1>1, FS_EmptySet DEF Init, FiniteBalance, EmptyMap
<1>5. SolventElsewhere
    BY <1>1, InitSolvent DEF Solvent, SolventElsewhere
<1> QED
    BY <1>1, <1>2, <1>3, <1>4, <1>5, InitTypeOK DEF CustodyInv

\* A call that does not touch the rebasing token is a step of the contract.
LEMMA OrdinaryStepIsNext ==
    ASSUME NEW caller \in Account, OrdinaryStep(caller)
    PROVE  Next
BY DEF OrdinaryStep, Next, UserStep, TokenStep

\* What the contract owes in the tokens a step does not move stays as it was.
LEMMA SurplusElsewhere ==
    ASSUME CustodyInv, tokenBalance' = tokenBalance,
           \A token \in Token \ {Rebasing} : Credits(token)' = Credits(token)
    PROVE  SolventElsewhere'
<1> SUFFICES ASSUME NEW token \in Token \ {Rebasing}
             PROVE  Surplus(token)' >= 0
    BY DEF SolventElsewhere
<1>1. Surplus(token)' = Surplus(token)
    BY DEF Surplus
<1> QED
    BY <1>1 DEF CustodyInv, SolventElsewhere

LEMMA CustodyNextInv == CustodyInv /\ [CustodyNext]_custodyVars => CustodyInv'
<1> SUFFICES ASSUME CustodyInv, [CustodyNext]_custodyVars
             PROVE  CustodyInv'
    OBVIOUS
<1> USE DEF CustodyInv
<1>1. ASSUME NEW caller \in Account, OrdinaryStep(caller), UNCHANGED tokenVars
      PROVE  CustodyInv'
    <2>1. Next
        BY <1>1, OrdinaryStepIsNext
    <2>2. TypeOK' /\ NoStrandedCredit' /\ FeeAlwaysPayable' /\ FiniteBalance'
        BY <2>1, NextTypeOK, NextCreditsTracked, NextFeePayable, StepSurplus
    <2>3. SolventElsewhere'
        <3> SUFFICES ASSUME NEW token \in Token \ {Rebasing}
                     PROVE  Surplus(token)' >= 0
            BY DEF SolventElsewhere
        <3>1. Surplus(token)' >= Surplus(token)
            BY <2>1, StepSurplus
        <3>2. Surplus(token)' \in Int /\ Surplus(token) \in Int
            BY <2>2, SurplusType, SurplusTypeNext
        <3> QED
            BY <3>1, <3>2 DEF SolventElsewhere
    <2>4. TokenTypeOK'
        BY <1>1 DEF TokenTypeOK, tokenVars
    <2> QED
        BY <2>2, <2>3, <2>4
<1>2. ASSUME NEW caller \in Account, NEW creator \in Account, NEW amount \in Amount,
             tip_rebasing(caller, creator, amount)
      PROVE  CustodyInv'
    <2>1. /\ TipAccepted(creator, Rebasing, amount)
          /\ TipBooked(caller, creator, Rebasing, amount)
          /\ tokenBalance' = tokenBalance
        BY <1>2 DEF tip_rebasing
    <2>2. TypeOK' /\ TokenTypeOK'
        BY <1>2, TipShares
    <2>3. NoStrandedCredit'
        BY <2>1, RebasingAssumption, TipKeepsCreditsTracked
    <2>4. FeeAlwaysPayable'
        BY <2>1 DEF FeeAlwaysPayable, TipBooked, config
    <2>5. /\ FiniteBalance'
          /\ \A token \in Token \ {Rebasing} : Credits(token)' = Credits(token)
        BY <2>1, RebasingAssumption, TipCredits
    <2> QED
        BY <2>1, <2>2, <2>3, <2>4, <2>5, SurplusElsewhere
<1>3. ASSUME NEW caller \in Account, NEW amount \in Amount,
             withdraw_rebasing(caller, amount)
      PROVE  CustodyInv'
    <2>1. /\ WithdrawAccepted(caller, Rebasing, amount)
          /\ WithdrawBooked(caller, Rebasing, amount)
          /\ tokenBalance' = tokenBalance
        BY <1>3 DEF withdraw_rebasing, CanWithdrawRebasing
    <2>2. TypeOK' /\ TokenTypeOK'
        BY <1>3, WithdrawShares
    <2>3. NoStrandedCredit'
        BY <2>1, RebasingAssumption, WithdrawKeepsCreditsTracked
    <2>4. FeeAlwaysPayable'
        BY <2>1 DEF FeeAlwaysPayable, WithdrawBooked, config
    <2>5. /\ FiniteBalance'
          /\ \A token \in Token \ {Rebasing} : Credits(token)' = Credits(token)
        BY <2>1, RebasingAssumption, WithdrawCredits
    <2> QED
        BY <2>1, <2>2, <2>3, <2>4, <2>5, SurplusElsewhere
<1>4. ASSUME UNCHANGED vars, TokenTypeOK'
      PROVE  CustodyInv'
    <2>1. TypeOK' /\ NoStrandedCredit' /\ FeeAlwaysPayable'
        BY <1>4, NextTypeOK, NextCreditsTracked, NextFeePayable
    <2>2. tokenBalance' = tokenBalance /\ Balance' = Balance
        BY <1>4 DEF vars, funds
    <2>3. \A token \in Token : Credits(token)' = Credits(token)
        BY <2>2, CreditsRead, CreditsReadNext
    <2>4. SolventElsewhere'
        BY <2>2, <2>3, SurplusElsewhere
    <2> QED
        BY <1>4, <2>1, <2>2, <2>4 DEF FiniteBalance
<1>5. CASE TokenOwnStep
    BY <1>4, <1>5, OwnStepShares DEF TokenOwnStep
<1>6. CASE UNCHANGED custodyVars
    <2>1. UNCHANGED vars /\ TokenTypeOK'
        BY <1>6 DEF custodyVars, tokenVars, TokenTypeOK
    <2> QED
        BY <1>4, <2>1
<1> QED
    BY <1>1, <1>2, <1>3, <1>5, <1>6 DEF CustodyNext, RebasingStep

LEMMA CustodyInvariance == CustodySpec => []CustodyInv
<1> QED
    BY CustodyInitInv, CustodyNextInv, PTL DEF CustodySpec

------------------------------------------------------------------------------
(* The theorems.                                                           *)

\* A rebase harms nobody outside its token: for any number of creators, tokens
\* and factors, every part of a credit in another token can be withdrawn.
THEOREM DivergenceConfined == CustodySpec => []OtherTokensWithdrawable
<1>1. CustodyInv => OtherTokensWithdrawable
    <2> SUFFICES ASSUME CustodyInv, check_initialized_and_not_paused,
                        NEW creator \in Account, NEW token \in Token \ {Rebasing},
                        NEW amount \in 1 .. get_balance(creator, token)
                 PROVE  CanWithdraw(creator, token, amount)
        BY DEF OtherTokensWithdrawable
    <2>1. get_balance(creator, token) <= tokenBalance[<<Contract, token>>]
        BY CreditCovered DEF CustodyInv, SolventElsewhere
    <2> QED
        BY <2>1, CreditPayable DEF CustodyInv
<1> QED
    BY <1>1, CustodyInvariance, PTL

\* A credit in the rebasing token is served up to the contract's balance, and
\* beyond it by less than one share, whatever the factor.
THEOREM PaymentUpToBalance == CustodySpec => []PaidWhileBacked
<1>1. CustodyInv => PaidWhileBacked
    <2> SUFFICES ASSUME CustodyInv, check_initialized_and_not_paused,
                        NEW creator \in Account, NEW amount \in Amount,
                        0 < amount, amount <= get_balance(creator, Rebasing)
                 PROVE  /\ amount <= balance(Contract) =>
                              CanWithdrawRebasing(creator, amount)
                        /\ CanWithdrawRebasing(creator, amount) =>
                              amount * den < (shares[Contract] + 1) * num
        BY DEF PaidWhileBacked
    <2> DEFINE held == shares[Contract]
    <2>1. /\ amount \in Nat /\ held \in Nat /\ num \in Nat /\ den \in Nat \ {0}
          /\ get_balance(creator, Rebasing) \in Nat
        BY NumberAssumption, RebasingAssumption, CreditType
        DEF CustodyInv, TokenTypeOK, Address
    <2>2. held * num \in Nat /\ amount * den \in Nat
        BY <2>1
    <2>3. ASSUME amount <= balance(Contract)
          PROVE  CanWithdrawRebasing(creator, amount)
        <3> DEFINE worth == held * num
        <3>1. balance(Contract) = worth \div den
            BY DEF balance
        <3>2. worth \in Nat
            BY <2>2
        <3> HIDE DEF worth
        <3>3. worth \div den \in Nat /\ (worth \div den) * den <= worth
            BY <2>1, <3>2
        <3>4. amount * den <= (worth \div den) * den
            BY <2>1, <2>3, <3>1, <3>3
        <3>5. (worth \div den) * den \in Nat
            BY <2>1, <3>3
        <3>6. amount * den <= worth
            BY <2>2, <3>2, <3>3, <3>4, <3>5
        <3>7. amount * den > 0
            BY <2>1
        <3>8. num # 0
            BY <2>1, <2>2, <3>6, <3>7 DEF worth
        <3>9. nominal_to_shares(amount) <= held
            <4> DEFINE n == nominal_to_shares(amount)
            <4>1. n \in Nat /\ n * num <= amount * den
                BY <2>1, <3>8, Conversion DEF CustodyInv
            <4> HIDE DEF n
            <4>2. n * num \in Nat
                BY <2>1, <4>1
            <4>3. n * num <= held * num
                BY <2>2, <3>6, <4>1, <4>2 DEF worth
            <4>4. CASE n >= held + 1
                <5>1. n * num >= (held + 1) * num
                    BY <2>1, <4>1, <4>4
                <5>2. (held + 1) * num = held * num + num
                    BY <2>1
                <5> QED
                    BY <2>1, <2>2, <3>8, <4>2, <4>3, <5>1, <5>2
            <4> QED
                BY <2>1, <4>1, <4>4 DEF n
        <3>10. /\ is_creator(creator)
               /\ Rebasing \in get_all_tokens(creator)
            <4>1. get_balance(creator, Rebasing) > 0
                BY <2>1
            <4> QED
                BY <4>1, RebasingAssumption DEF CustodyInv, NoStrandedCredit
        <3>11. creator \in DOMAIN CreatorTokens
            BY <3>10 DEF get_all_tokens, GetOr
        <3>12. WithdrawAccepted(creator, Rebasing, amount)
            BY <2>1, <3>10, <3>11 DEF WithdrawAccepted, SufficientBalance, is_creator
        <3> QED
            BY <3>8, <3>9, <3>12 DEF CanWithdrawRebasing, CanMove
    <2>4. ASSUME CanWithdrawRebasing(creator, amount)
          PROVE  amount * den < (held + 1) * num
        <3> DEFINE n == nominal_to_shares(amount)
        <3>1. num # 0 /\ held >= n
            BY <2>4 DEF CanWithdrawRebasing, CanMove
        <3>2. n \in Nat /\ amount * den < n * num + num
            BY <2>1, <3>1, Conversion DEF CustodyInv
        <3> HIDE DEF n
        <3>3. n * num <= held * num /\ n * num \in Nat
            BY <2>1, <3>1, <3>2
        <3>4. (held + 1) * num = held * num + num
            BY <2>1
        <3> QED
            BY <2>1, <2>2, <3>2, <3>3, <3>4
    <2> QED
        BY <2>3, <2>4
<1> QED
    BY <1>1, CustodyInvariance, PTL

\* What a step leaves of the gap, from what it does to the contract's shares
\* and to its debts.
LEMMA Drift ==
    ASSUME NEW held \in Int, NEW owed \in Int, NEW n \in Int, NEW d \in Int,
           NEW moved \in Int, NEW due \in Int
    PROVE  ((held + moved) * n - (owed + due) * d) - (held * n - owed * d)
              = moved * n - due * d
<1>1. (held + moved) * n = held * n + moved * n
    OBVIOUS
<1>2. (owed + due) * d = owed * d + due * d
    OBVIOUS
<1>3. /\ held * n \in Int /\ moved * n \in Int
      /\ owed * d \in Int /\ due * d \in Int
    OBVIOUS
<1> QED
    BY <1>1, <1>2, <1>3

\* No entry point closes the gap: a call moves it by less than one share, which
\* is rounding, and only a tip, whose fee is converted on its own, moves it down.
THEOREM DivergenceStays == CustodySpec => DivergencePersists
<1> DEFINE drift == Divergence' - Divergence
<1>1. ASSUME CustodyInv, [CustodyNext]_custodyVars, UNCHANGED <<num, den>>
      PROVE  /\ ~UNCHANGED vars => drift = 0 \/ (-num < drift /\ drift < num)
             /\ drift < 0 => Credits(Rebasing)' > Credits(Rebasing)
    <2> DEFINE held == shares[Contract]
               owed == Credits(Rebasing)
    <2>1. /\ held \in Nat /\ owed \in Nat /\ num \in Nat /\ den \in Nat \ {0}
        BY <1>1, RebasingAssumption, BalanceLedger, CreditsRead
        DEF CustodyInv, TokenTypeOK, Address
    <2>2. Divergence = held * num - owed * den
        BY DEF Divergence
    <2>3. Divergence' = shares'[Contract] * num - Credits(Rebasing)' * den
        BY <1>1 DEF Divergence
    <2>4. ASSUME UNCHANGED <<shares, Balance>>
          PROVE  drift = 0
        <3>1. Credits(Rebasing)' = owed
            BY <2>4, RebasingAssumption, CreditsRead, CreditsReadNext
        <3>2. Divergence' = Divergence
            BY <2>2, <2>3, <2>4, <3>1
        <3>3. Divergence \in Int
            BY <2>1, <2>2
        <3> QED
            BY <3>2, <3>3
    <2>5. ASSUME NEW moved \in Int, NEW due \in Int,
                 shares'[Contract] = held + moved, Credits(Rebasing)' = owed + due
          PROVE  drift = moved * num - due * den
        <3>1. drift = ((held + moved) * num - (owed + due) * den) - (held * num - owed * den)
            BY <2>2, <2>3, <2>5
        <3> HIDE DEF drift
        <3> QED
            BY <2>1, <3>1, Drift
    <2> HIDE DEF drift
    <2>6. ASSUME NEW caller \in Account, OrdinaryStep(caller), UNCHANGED tokenVars
          PROVE  drift = 0
        <3>1. Credits(Rebasing)' = owed
            <4>1. CASE UNCHANGED Balance
                BY <4>1, RebasingAssumption, CreditsRead, CreditsReadNext
            <4>2. ASSUME NEW token \in Token \ {Rebasing}, NEW amount \in Amount,
                         NEW creator \in Account, tip(caller, creator, token, amount)
                  PROVE  Credits(Rebasing)' = owed
                BY <1>1, <4>2, RebasingAssumption, TipCredits DEF CustodyInv, tip, CanTip
            <4>3. ASSUME NEW token \in Token \ {Rebasing}, NEW amount \in Amount,
                         withdraw(caller, token, amount)
                  PROVE  Credits(Rebasing)' = owed
                BY <1>1, <4>3, RebasingAssumption, WithdrawCredits
                DEF CustodyInv, withdraw, CanWithdraw
            <4> QED
                BY <2>6, <4>1, <4>2, <4>3, AdminFrame
                DEF OrdinaryStep, register, update_profile, unregister, direct_transfer,
                    funds
        <3>2. shares'[Contract] = held + 0 /\ Credits(Rebasing)' = owed + 0
            BY <2>1, <2>6, <3>1 DEF tokenVars
        <3>3. drift = 0 * num - 0 * den
            BY <2>5, <3>2
        <3> QED
            BY <2>1, <3>3
    <2>7. ASSUME NEW caller \in Account, NEW creator \in Account, NEW amount \in Amount,
                 tip_rebasing(caller, creator, amount)
          PROVE  /\ drift = 0 \/ (-num < drift /\ drift < num)
                 /\ drift < 0 => Credits(Rebasing)' > owed
        <3> DEFINE fee == FeeOf(amount)
                   n == nominal_to_shares(amount)
                   f == nominal_to_shares(fee)
        <3>1. /\ num # 0 /\ amount \in Nat /\ fee \in 0 .. amount
              /\ shares'[Contract] = held + n - f
            BY <1>1, <2>7, TipShares DEF CustodyInv
        <3>2. Credits(Rebasing)' = owed + (amount - fee)
            BY <1>1, <2>7, RebasingAssumption, TipCredits
            DEF CustodyInv, tip_rebasing, CreatorAmount
        <3>3. /\ n \in Nat /\ n * num <= amount * den /\ amount * den < n * num + num
              /\ f \in Nat /\ f * num <= fee * den /\ fee * den < f * num + num
            BY <1>1, <3>1, Conversion DEF CustodyInv
        <3>4. amount = fee => n = f
            OBVIOUS
        <3> HIDE DEF fee, n, f
        <3>5. shares'[Contract] = held + (n - f) /\ n - f \in Int /\ amount - fee \in Int
            BY <2>1, <3>1, <3>3
        <3>6. drift = (n - f) * num - (amount - fee) * den
            BY <2>5, <3>2, <3>5
        <3>7. /\ (n - f) * num = n * num - f * num
              /\ (amount - fee) * den = amount * den - fee * den
              /\ n * num \in Int /\ f * num \in Int
              /\ amount * den \in Int /\ fee * den \in Int
            BY <2>1, <3>1, <3>3
        <3>8. -num < drift /\ drift < num /\ drift \in Int
            BY <2>1, <3>3, <3>6, <3>7
        <3>9. ASSUME drift < 0
              PROVE  Credits(Rebasing)' > owed
            <4>1. amount # fee
                BY <2>1, <3>4, <3>6, <3>7, <3>9
            <4> QED
                BY <2>1, <3>1, <3>2, <4>1
        <3> QED
            BY <3>8, <3>9
    <2>8. ASSUME NEW caller \in Account, NEW amount \in Amount,
                 withdraw_rebasing(caller, amount)
          PROVE  drift \in Nat /\ drift < num
        <3> DEFINE n == nominal_to_shares(amount)
        <3>1. /\ num # 0 /\ amount \in Nat
              /\ shares'[Contract] = held - n
            BY <1>1, <2>8, WithdrawShares DEF CustodyInv
        <3>2. Credits(Rebasing)' = owed - amount
            BY <1>1, <2>8, RebasingAssumption, WithdrawCredits
            DEF CustodyInv, withdraw_rebasing, CanWithdrawRebasing
        <3>3. n \in Nat /\ n * num <= amount * den /\ amount * den < n * num + num
            BY <1>1, <3>1, Conversion DEF CustodyInv
        <3> HIDE DEF n
        <3>4. /\ shares'[Contract] = held + (0 - n) /\ Credits(Rebasing)' = owed + (0 - amount)
              /\ 0 - n \in Int /\ 0 - amount \in Int
            BY <2>1, <3>1, <3>2, <3>3
        <3>5. drift = (0 - n) * num - (0 - amount) * den
            BY <2>5, <3>4
        <3>6. /\ (0 - n) * num = 0 - n * num /\ (0 - amount) * den = 0 - amount * den
              /\ n * num \in Int /\ amount * den \in Int
            BY <2>1, <3>1, <3>3
        <3> QED
            BY <2>1, <3>3, <3>5, <3>6
    <2>9. ASSUME TokenOwnStep
          PROVE  UNCHANGED vars /\ drift \in Nat
        <3> DEFINE moved == shares'[Contract] - held
        <3>1. moved \in Nat /\ shares'[Contract] = held + moved
            BY <1>1, <2>1, <2>9, OwnStepShares DEF CustodyInv
        <3>2. UNCHANGED vars
            BY <2>9 DEF TokenOwnStep
        <3>3. Credits(Rebasing)' = owed + 0
            BY <2>1, <3>2, RebasingAssumption, CreditsRead, CreditsReadNext DEF vars, funds
        <3> HIDE DEF moved
        <3>4. drift = moved * num - 0 * den
            BY <2>5, <3>1, <3>3
        <3>5. moved * num \in Nat /\ 0 * den = 0
            BY <2>1, <3>1
        <3> QED
            BY <3>2, <3>4, <3>5
    <2>10. CASE UNCHANGED custodyVars
        BY <2>4, <2>10 DEF custodyVars, tokenVars, vars, funds
    <2>11. ASSUME drift \in Nat, UNCHANGED vars \/ drift = 0 \/ drift < num
           PROVE  /\ ~UNCHANGED vars => drift = 0 \/ (-num < drift /\ drift < num)
                  /\ drift < 0 => Credits(Rebasing)' > Credits(Rebasing)
        BY <2>1, <2>11
    <2>12. CASE \E caller \in Account : OrdinaryStep(caller) /\ UNCHANGED tokenVars
        BY <2>6, <2>11, <2>12
    <2>13. CASE \E caller \in Account : RebasingStep(caller)
        <3>1. ASSUME NEW caller \in Account, NEW creator \in Account,
                     NEW amount \in Amount, tip_rebasing(caller, creator, amount)
              PROVE  /\ ~UNCHANGED vars => drift = 0 \/ (-num < drift /\ drift < num)
                     /\ drift < 0 => Credits(Rebasing)' > Credits(Rebasing)
            BY <2>7, <3>1
        <3>2. ASSUME NEW caller \in Account, NEW amount \in Amount,
                     withdraw_rebasing(caller, amount)
              PROVE  /\ ~UNCHANGED vars => drift = 0 \/ (-num < drift /\ drift < num)
                     /\ drift < 0 => Credits(Rebasing)' > Credits(Rebasing)
            BY <2>8, <2>11, <3>2
        <3> QED
            BY <2>13, <3>1, <3>2 DEF RebasingStep
    <2> QED
        BY <1>1, <2>9, <2>10, <2>11, <2>12, <2>13 DEF CustodyNext
<1> QED
    BY <1>1, CustodyInvariance, PTL DEF CustodySpec, DivergencePersists

------------------------------------------------------------------------------
(* What the contract keeps all the same: the escrow of the other tokens.   *)

OtherAsset == Token \ {Rebasing}

\* The other tokens' variables of the escrow, as RebasingCustody maps them, are
\* those of the whole escrow, restricted.
OtherOwed == [key \in Account \X OtherAsset |-> GetOr(Balance, key, 0)]
OtherHeld == [token \in OtherAsset |-> tokenBalance[<<Contract, token>>]]
OtherWallet == [key \in Account \X OtherAsset |-> tokenBalance[key]]

LEMMA OtherBooks ==
    /\ OtherOwed = [key \in Account \X OtherAsset |-> Owed[key]]
    /\ OtherOwed' = [key \in Account \X OtherAsset |-> Owed'[key]]
    /\ OtherHeld = [token \in OtherAsset |-> Held[token]]
    /\ OtherHeld' = [token \in OtherAsset |-> Held'[token]]
    /\ OtherWallet = [key \in Account \X OtherAsset |-> Wallet[key]]
    /\ OtherWallet' = [key \in Account \X OtherAsset |-> Wallet'[key]]
BY DEF OtherOwed, OtherHeld, OtherWallet, Owed, Held, Wallet, OtherAsset

\* A step of the whole escrow in one of the other tokens is a step of theirs.
LEMMA EscrowRestricts ==
    ASSUME NEW creator \in Account, NEW token \in OtherAsset
    PROVE  /\ Escrow!Collect(creator, token) => OtherTokens!Collect(creator, token)
           /\ Escrow!Pay(creator, token) => OtherTokens!Pay(creator, token)
           /\ Escrow!Gift(token) => OtherTokens!Gift(token)
           /\ Escrow!Elsewhere => OtherTokens!Elsewhere
<1> USE DEF OtherAsset
<1>1. ASSUME Escrow!Collect(creator, token)
      PROVE  OtherTokens!Collect(creator, token)
    <2> DEFINE amount == Held'[token] - Held[token]
    <2>1. /\ amount > 0
          /\ Held' = [Held EXCEPT ![token] = @ + amount]
          /\ Owed' = [Owed EXCEPT ![<<creator, token>>] = @ + amount]
        BY <1>1 DEF Escrow!Collect, Held, Owed
    <2>2. OtherHeld'[token] - OtherHeld[token] = amount
        BY OtherBooks
    <2> HIDE DEF amount
    <2>3. OtherHeld' = [OtherHeld EXCEPT ![token] = @ + amount]
        BY <2>1, OtherBooks, BooksDomain
    <2>4. OtherOwed' = [OtherOwed EXCEPT ![<<creator, token>>] = @ + amount]
        BY <2>1, OtherBooks, BooksDomain
    <2> QED
        BY <2>1, <2>2, <2>3, <2>4 DEF OtherTokens!Collect, OtherHeld, OtherOwed
<1>2. ASSUME Escrow!Pay(creator, token)
      PROVE  OtherTokens!Pay(creator, token)
    <2> DEFINE amount == Held[token] - Held'[token]
    <2>1. /\ amount \in 1 .. Owed[<<creator, token>>]
          /\ Held' = [Held EXCEPT ![token] = @ - amount]
          /\ Owed' = [Owed EXCEPT ![<<creator, token>>] = @ - amount]
          /\ Wallet' = [Wallet EXCEPT ![<<creator, token>>] = @ + amount]
        BY <1>2 DEF Escrow!Pay, Held, Owed, Wallet
    <2>2. /\ OtherHeld[token] - OtherHeld'[token] = amount
          /\ OtherOwed[<<creator, token>>] = Owed[<<creator, token>>]
        BY OtherBooks
    <2> HIDE DEF amount
    <2>3. OtherHeld' = [OtherHeld EXCEPT ![token] = @ - amount]
        BY <2>1, OtherBooks, BooksDomain
    <2>4. OtherOwed' = [OtherOwed EXCEPT ![<<creator, token>>] = @ - amount]
        BY <2>1, OtherBooks, BooksDomain
    <2>5. OtherWallet' = [OtherWallet EXCEPT ![<<creator, token>>] = @ + amount]
        BY <2>1, OtherBooks, BooksDomain
    <2> QED
        BY <2>1, <2>2, <2>3, <2>4, <2>5
        DEF OtherTokens!Pay, OtherHeld, OtherOwed, OtherWallet
<1>3. ASSUME Escrow!Gift(token)
      PROVE  OtherTokens!Gift(token)
    <2> DEFINE amount == Held'[token] - Held[token]
    <2>1. /\ amount > 0
          /\ Held' = [Held EXCEPT ![token] = @ + amount]
          /\ Owed' = Owed
        BY <1>3 DEF Escrow!Gift, Held, Owed
    <2>2. OtherHeld'[token] - OtherHeld[token] = amount
        BY OtherBooks
    <2> HIDE DEF amount
    <2>3. OtherHeld' = [OtherHeld EXCEPT ![token] = @ + amount]
        BY <2>1, OtherBooks, BooksDomain
    <2>4. OtherOwed' = OtherOwed
        BY <2>1, OtherBooks
    <2> QED
        BY <2>1, <2>2, <2>3, <2>4 DEF OtherTokens!Gift, OtherHeld, OtherOwed
<1>4. ASSUME Escrow!Elsewhere
      PROVE  OtherTokens!Elsewhere
    <2>1. Owed' = Owed /\ Held' = Held
        BY <1>4 DEF Escrow!Elsewhere, Held, Owed
    <2>2. OtherOwed' = OtherOwed /\ OtherHeld' = OtherHeld
        BY <2>1, OtherBooks
    <2> QED
        BY <2>2 DEF OtherTokens!Elsewhere, OtherHeld, OtherOwed
<1> QED
    BY <1>1, <1>2, <1>3, <1>4

\* A step that leaves the other tokens and the credits in them alone passes
\* their escrow by.
LEMMA OthersUntouched ==
    ASSUME tokenBalance' = tokenBalance,
           \A creator \in Account, token \in OtherAsset :
              get_balance(creator, token)' = get_balance(creator, token)
    PROVE  OtherTokens!Elsewhere
<1>1. OtherHeld' = OtherHeld
    BY DEF OtherHeld
<1>2. OtherOwed' = OtherOwed
    BY DEF OtherOwed, get_balance
<1> QED
    BY <1>1, <1>2 DEF OtherTokens!Elsewhere, OtherHeld, OtherOwed, OtherAsset

\* A rebase cannot make the contract mix up the books of its other tokens: in
\* them it implements the escrow, for every factor and number of creators.
THEOREM OtherTokensRefinement == CustodySpec => OtherTokensEscrow
<1>1. CustodyInit => OtherTokens!Init
    <2> SUFFICES ASSUME CustodyInit PROVE OtherTokens!Init
        OBVIOUS
    <2>1. Init
        BY DEF CustodyInit
    <2>2. OtherOwed = [key \in Account \X OtherAsset |-> 0]
        BY <2>1 DEF Init, OtherOwed, GetOr, EmptyMap
    <2>3. OtherHeld = [token \in OtherAsset |-> 0]
        BY <2>1, AddressAssumption DEF Init, OtherHeld, OtherAsset, Address
    <2>4. OtherWallet \in [Account \X OtherAsset -> Nat]
        BY <2>1, NumberAssumption DEF Init, OtherWallet, OtherAsset, Address
    <2> QED
        BY <2>2, <2>3, <2>4
        DEF OtherTokens!Init, OtherOwed, OtherHeld, OtherWallet, OtherAsset
<1>2. CustodyInv /\ [CustodyNext]_custodyVars
         => [OtherTokens!Next]_(OtherTokens!vars)
    <2> SUFFICES ASSUME CustodyInv, [CustodyNext]_custodyVars
                 PROVE  OtherTokens!Next
        OBVIOUS
    <2> USE DEF CustodyInv
    <2>1. ASSUME NEW caller \in Account, OrdinaryStep(caller)
          PROVE  OtherTokens!Next
        <3>1. CASE \E token \in OtherAsset, amount \in Amount :
                      \/ \E creator \in Account : tip(caller, creator, token, amount)
                      \/ withdraw(caller, token, amount)
                      \/ \E dst \in DepositTarget :
                            direct_transfer(caller, dst, token, amount)
            <4> PICK token \in OtherAsset, amount \in Amount :
                      \/ \E creator \in Account : tip(caller, creator, token, amount)
                      \/ withdraw(caller, token, amount)
                      \/ \E dst \in DepositTarget :
                            direct_transfer(caller, dst, token, amount)
                BY <3>1
            <4>0. token \in Token
                BY DEF OtherAsset
            <4>1. ASSUME NEW creator \in Account, tip(caller, creator, token, amount)
                  PROVE  OtherTokens!Next
                BY <4>0, <4>1, EscrowTip, EscrowRestricts
                DEF OtherTokens!Next, OtherAsset
            <4>2. ASSUME withdraw(caller, token, amount)
                  PROVE  OtherTokens!Next
                BY <4>0, <4>2, EscrowWithdraw, EscrowRestricts
                DEF OtherTokens!Next, OtherAsset
            <4>3. ASSUME NEW dst \in DepositTarget,
                         direct_transfer(caller, dst, token, amount)
                  PROVE  OtherTokens!Next
                BY <4>0, <4>3, EscrowDirect, EscrowRestricts
                DEF OtherTokens!Next, OtherAsset
            <4> QED
                BY <4>1, <4>2, <4>3
        <3>2. CASE UNCHANGED <<Balance, tokenBalance>>
            BY <3>2, OthersUntouched DEF OtherTokens!Next, get_balance
        <3> QED
            BY <2>1, <3>1, <3>2, AdminFrame
            DEF OrdinaryStep, register, update_profile, unregister, funds, OtherAsset
    <2>2. ASSUME NEW caller \in Account, RebasingStep(caller)
          PROVE  OtherTokens!Next
        <3>1. ASSUME NEW creator \in Account, NEW amount \in Amount,
                     tip_rebasing(caller, creator, amount)
              PROVE  OtherTokens!Elsewhere
            <4>1. /\ TipBooked(caller, creator, Rebasing, amount)
                  /\ tokenBalance' = tokenBalance
                BY <3>1 DEF tip_rebasing
            <4>2. \A other \in Account, token \in OtherAsset :
                     get_balance(other, token)' = get_balance(other, token)
                BY <4>1, RebasingAssumption, TipBooksEffect DEF OtherAsset
            <4> QED
                BY <4>1, <4>2, OthersUntouched
        <3>2. ASSUME NEW amount \in Amount, withdraw_rebasing(caller, amount)
              PROVE  OtherTokens!Elsewhere
            <4>1. /\ WithdrawAccepted(caller, Rebasing, amount)
                  /\ WithdrawBooked(caller, Rebasing, amount)
                  /\ tokenBalance' = tokenBalance
                BY <3>2 DEF withdraw_rebasing, CanWithdrawRebasing
            <4>2. \A other \in Account, token \in OtherAsset :
                     get_balance(other, token)' = get_balance(other, token)
                BY <4>1, RebasingAssumption, WithdrawBooksEffect DEF OtherAsset
            <4> QED
                BY <4>1, <4>2, OthersUntouched
        <3> QED
            BY <2>2, <3>1, <3>2 DEF RebasingStep, OtherTokens!Next
    <2>3. ASSUME UNCHANGED vars
          PROVE  OtherTokens!Next
        BY <2>3, OthersUntouched DEF OtherTokens!Next, vars, funds, get_balance
    <2> QED
        BY <2>1, <2>2, <2>3 DEF CustodyNext, TokenOwnStep, custodyVars
<1> QED
    BY <1>1, <1>2, CustodyInvariance, PTL
    DEF CustodySpec, OtherTokensEscrow, OtherTokens!Spec

------------------------------------------------------------------------------
(* What it keeps all the same: names, counts and histories.                *)

\* The registry and the histories do not depend on what a token does.
LedgerInv ==
    /\ RegistryConsistent
    /\ CountInv
    /\ HistoryInv

\* A step with the rebasing token, seen from the contract's own storage: nothing,
\* the booking of a tip, or the booking of a withdrawal.
LEMMA RebasingStepBooks ==
    ASSUME NEW caller \in Account, RebasingStep(caller)
    PROVE  /\ UNCHANGED <<config, registry>>
           /\ \/ UNCHANGED <<TipCount, Tip>>
              \/ \E creator \in Account, amount \in Amount :
                    /\ creator \in DOMAIN Profile
                    /\ TipBooked(caller, creator, Rebasing, amount)
BY DEF RebasingStep, tip_rebasing, withdraw_rebasing, TipAccepted, TipBooked,
       WithdrawBooked

LEMMA CustodyNextLedger ==
    CustodyInv /\ LedgerInv /\ [CustodyNext]_custodyVars
        => LedgerInv' /\ OnlyAppended /\ [Registry!Next]_UsernameToAddress
<1> SUFFICES ASSUME CustodyInv, LedgerInv, [CustodyNext]_custodyVars
             PROVE  LedgerInv' /\ OnlyAppended /\ [Registry!Next]_UsernameToAddress
    OBVIOUS
<1> USE DEF CustodyInv, LedgerInv
<1>1. CASE [Next]_vars
    BY <1>1, NextRegistryConsistent, NextCountInv, NextHistoryInv, NextOnlyAppended,
       RegistryStep
<1>2. ASSUME NEW caller \in Account, RebasingStep(caller)
      PROVE  LedgerInv' /\ OnlyAppended /\ [Registry!Next]_UsernameToAddress
    <2>1. UNCHANGED <<Admin, CreatorCount, Profile, UsernameToAddress>>
        BY <1>2, RebasingStepBooks DEF config, registry
    <2>2. RegistryConsistent' /\ CountInv'
        BY <2>1 DEF RegistryConsistent, CountInv, get_creator_from_username, is_creator
    <2>3. CASE UNCHANGED <<TipCount, Tip>>
        <3>1. HistoryInv'
            BY <2>1, <2>3 DEF HistoryInv
        <3>2. \A creator \in DOMAIN TipCount : TipCount[creator] \in Nat
            BY NumberAssumption DEF TypeOK, FundsTypeOK, MapOf
        <3>3. OnlyAppended
            BY <2>3, <3>2 DEF OnlyAppended, get_tip
        <3> QED
            BY <2>1, <2>2, <3>1, <3>3
    <2>4. ASSUME NEW creator \in Account, NEW amount \in Amount,
                 creator \in DOMAIN Profile,
                 TipBooked(caller, creator, Rebasing, amount)
          PROVE  HistoryInv' /\ OnlyAppended
        <3>1. HistoryInv'
            BY <2>4, RebasingAssumption, TipBooksKeepHistory
        <3>2. OnlyAppended
            BY <2>4, RebasingAssumption, TipBooksAppend DEF OnlyAppended
        <3> QED
            BY <3>1, <3>2
    <2> QED
        BY <1>2, <2>1, <2>2, <2>3, <2>4, RebasingStepBooks
<1> QED
    BY <1>1, <1>2, OrdinaryStepIsNext DEF CustodyNext, TokenOwnStep, custodyVars

\* Names, counts, histories and the rule for leaving do not notice the rebasing
\* token.  By that rule a creator whose credit in it can no longer be paid cannot
\* leave either, but keeps its name and its history.
THEOREM LedgerSurvivesRebase ==
    CustodySpec =>
        /\ [](RegistryConsistent /\ CreatorCountExact /\ HistoryContiguous)
        /\ [](NoStrandedCredit /\ ExitIffSettled)
        /\ LiveHistoryImmutable
        /\ ImplementsRegistry
<1>1. CustodyInit => LedgerInv
    <2>1. Init => RegistryConsistent /\ HistoryInv
        BY DEF Init, RegistryConsistent, HistoryInv, EmptyMap
    <2> QED
        BY <2>1, InitCountInv DEF CustodyInit, LedgerInv
<1>2. CustodyInit => Registry!Init
    BY DEF CustodyInit, Init, Registry!Init, EmptyMap
<1>3. CustodyInv /\ LedgerInv => /\ RegistryConsistent /\ CreatorCountExact
                                 /\ HistoryContiguous
                                 /\ NoStrandedCredit /\ ExitIffSettled
    BY HistoryHasNoHoles, SettledCanExit
    DEF CustodyInv, LedgerInv, CountInv, CreatorCountExact
<1>4. CustodySpec => []LedgerInv
    BY <1>1, CustodyNextLedger, CustodyInvariance, PTL DEF CustodySpec
<1>5. OnlyAppended => [OnlyAppended]_vars
    OBVIOUS
<1> QED
    BY <1>2, <1>3, <1>4, <1>5, CustodyNextLedger, CustodyInvariance, PTL
    DEF CustodySpec, LiveHistoryImmutable, OnlyAppended, ImplementsRegistry,
        Registry!Spec

==============================================================================
