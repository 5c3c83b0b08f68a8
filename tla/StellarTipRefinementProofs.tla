---------------------- MODULE StellarTipRefinementProofs ----------------------
(***************************************************************************)
(* The contract implements the username registry and the escrow, and can   *)
(* pay what it owes.                                                       *)
(***************************************************************************)
EXTENDS StellarTipProofs

------------------------------------------------------------------------------
(* Refinement: the username registry.                                      *)

\* Every step of the contract is a claim, a release, or no step of the registry.
\* unregister frees the name in the caller's profile; RegistryConsistent makes
\* it the caller's.
LEMMA RegistryStep ==
    TypeOK /\ RegistryConsistent /\ [Next]_vars => [Registry!Next]_UsernameToAddress
<1> SUFFICES ASSUME TypeOK, RegistryConsistent, [Next]_vars
             PROVE  Registry!Next \/ UNCHANGED UsernameToAddress
    OBVIOUS
<1>1. ASSUME NEW caller \in Account, NEW username \in Username,
             NEW text \in Text, register(caller, username, text)
      PROVE  Registry!Claim(caller, username)
    <2>1. /\ username \notin DOMAIN UsernameToAddress
          /\ caller \notin DOMAIN Profile
          /\ UsernameToAddress' = Put(UsernameToAddress, username, caller)
        BY <1>1 DEF register, Registrable
    <2>2. \A taken \in DOMAIN UsernameToAddress : UsernameToAddress[taken] # caller
        BY <2>1 DEF RegistryConsistent, is_creator
    <2> QED
        BY <2>1, <2>2 DEF Registry!Claim, Put
<1>2. ASSUME NEW caller \in Account, unregister(caller)
      PROVE  \E username \in Username : Registry!Release(caller, username)
    <2> DEFINE name == Profile[caller].username
    <2>1. /\ caller \in DOMAIN Profile
          /\ UsernameToAddress' = Remove(UsernameToAddress, name)
        BY <1>2 DEF unregister, CanUnregister, FreedUsernames
    <2>2. name \in Username
        BY <2>1 DEF TypeOK, RegistryTypeOK, MapOf
    <2>3. name \in DOMAIN UsernameToAddress /\ UsernameToAddress[name] = caller
        BY <2>1, AddressAssumption
        DEF RegistryConsistent, get_creator_from_username, GetOr, TypeOK,
            RegistryTypeOK, MapOf, Address
    <2> QED
        BY <2>1, <2>2, <2>3 DEF Registry!Release, Remove
<1>3. ASSUME \/ \E caller \in Account : AdminStep(caller)
             \/ \E caller \in Account, text \in Text : update_profile(caller, text)
             \/ MoneyStep
             \/ UNCHANGED vars
      PROVE  UNCHANGED UsernameToAddress
    BY <1>3, AdminFrame, MoneyFrame DEF update_profile, vars, registry
<1> QED
    BY <1>1, <1>2, <1>3, StepKinds DEF Registry!Next

\* The contract implements the username registry: a name comes and goes only with
\* its owner's registration.
THEOREM RegistryRefinement == Spec => ImplementsRegistry
<1>1. Init => Registry!Init
    BY DEF Init, Registry!Init, EmptyMap
<1> QED
    BY <1>1, RegistryStep, TypeCorrectness, RegistryConsistency, PTL
    DEF Spec, ImplementsRegistry, Registry!Spec

------------------------------------------------------------------------------
(* Refinement: the escrow.                                                 *)

\* The escrow's variables, as StellarTipRefinement maps them.
Owed == [key \in Account \X Token |-> GetOr(Balance, key, 0)]
Held == [token \in Token |-> tokenBalance[<<Contract, token>>]]
Wallet == [key \in Account \X Token |-> tokenBalance[key]]

\* Each of them is determined by its values.
LEMMA BooksDomain ==
    /\ Owed = [key \in Account \X Token |-> Owed[key]]
    /\ Owed' = [key \in Account \X Token |-> Owed'[key]]
    /\ Held = [token \in Token |-> Held[token]]
    /\ Held' = [token \in Token |-> Held'[token]]
    /\ Wallet = [key \in Account \X Token |-> Wallet[key]]
    /\ Wallet' = [key \in Account \X Token |-> Wallet'[key]]
BY DEF Owed, Held, Wallet

\* The contract's holdings grow by exactly what a tip credits: the fee leaves
\* again at once, because its recipient is not the contract.
LEMMA TipHeld ==
    ASSUME TypeOK, FeeAlwaysPayable, NEW from \in Account, NEW creator \in Account,
           NEW token \in Token, NEW amount \in Amount,
           tip(from, creator, token, amount), NEW asset \in Token
    PROVE  /\ CreatorAmount(amount, FeeOf(amount)) \in Nat
           /\ tokenBalance'[<<Contract, asset>>] =
                 IF asset = token
                 THEN tokenBalance[<<Contract, asset>>]
                         + CreatorAmount(amount, FeeOf(amount))
                 ELSE tokenBalance[<<Contract, asset>>]
<1> DEFINE fee == FeeOf(amount)
           received == Transferred(tokenBalance, token, from, Contract, amount)
<1>1. amount \in Nat /\ fee \in 0 .. amount
    BY FeeBounds, NumberAssumption DEF tip, CanTip, TipAccepted, TipBooked, MeetsMinimum, FeeOf, TypeOK, ConfigTypeOK
<1>2. /\ from \in Address /\ Contract \in Address /\ from # Contract
      /\ FeeRecipient # Contract /\ tokenBalance \in [Address \X Token -> Nat]
    BY AddressAssumption
    DEF Address, FeeAlwaysPayable, tip, CanTip, TipAccepted, TipBooked, check_initialized_and_not_paused,
           TypeOK, FundsTypeOK
<1>3. received \in [Address \X Token -> Nat]
    BY <1>1, <1>2, TransferType DEF tip, CanTip, TipAccepted, TipBooked
<1>4. /\ asset = token => received[<<Contract, asset>>]
                                = tokenBalance[<<Contract, asset>>] + amount
      /\ asset # token => received[<<Contract, asset>>]
                                = tokenBalance[<<Contract, asset>>]
    <2>1. amount \in Nat
        BY <1>1
    <2>2. received[<<Contract, token>>] = tokenBalance[<<Contract, token>>] + amount
        BY <1>2, <2>1 DEF Transferred
    <2>3. asset # token => received[<<Contract, asset>>]
                              = tokenBalance[<<Contract, asset>>]
        BY <1>2, <2>1 DEF Transferred
    <2> QED
        BY <2>2, <2>3
<1>5. tokenBalance[<<Contract, asset>>] \in Nat
    BY <1>2
<1>6. CASE fee > 0
    <2>1. tokenBalance' = Transferred(received, token, Contract, FeeRecipient, fee)
        BY <1>6 DEF tip, CanTip, TipAccepted, TipBooked
    <2>2. FeeRecipient \in Address /\ fee \in Nat
        <3>1. FeeBps > 0
            BY <1>1, <1>6 DEF FeeOf, MAX_FEE_BPS, TypeOK, ConfigTypeOK
        <3> QED
            BY <1>1, <3>1 DEF tip, CanTip, TipAccepted, TipBooked, TypeOK, ConfigTypeOK
    <2> HIDE DEF received, fee
    <2>3. tokenBalance'[<<Contract, token>>] = received[<<Contract, token>>] - fee
        BY <1>2, <1>3, <2>1, <2>2 DEF Transferred
    <2>4. asset # token => tokenBalance'[<<Contract, asset>>]
                              = received[<<Contract, asset>>]
        <3>1. asset # token =>
                 Transferred(received, token, Contract, FeeRecipient, fee)[<<Contract, asset>>]
                    = received[<<Contract, asset>>]
            BY <1>2, <1>3 DEF Transferred
        <3> QED
            BY <2>1, <3>1
    <2> QED
        BY <1>1, <1>4, <1>5, <2>3, <2>4 DEF CreatorAmount, fee
<1>7. CASE ~(fee > 0)
    <2>1. tokenBalance' = received /\ fee = 0
        BY <1>1, <1>7 DEF tip, CanTip, TipAccepted, TipBooked
    <2> HIDE DEF received
    <2> QED
        BY <1>1, <1>4, <1>5, <2>1 DEF CreatorAmount
<1> QED
    BY <1>6, <1>7

\* A tip is a collection, unless the fee took all of it.
LEMMA EscrowTip ==
    ASSUME TypeOK, FeeAlwaysPayable, NEW from \in Account, NEW creator \in Account,
           NEW token \in Token, NEW amount \in Amount,
           tip(from, creator, token, amount)
    PROVE  Escrow!Collect(creator, token) \/ Escrow!Elsewhere
<1> DEFINE credited == CreatorAmount(amount, FeeOf(amount))
<1>1. credited \in Nat
    BY TipHeld
<1>2. \A asset \in Token : Held[asset] \in Nat
    BY AddressAssumption DEF Held, TypeOK, FundsTypeOK, Address
<1>3. \A key \in Account \X Token : Owed[key] \in Nat
    BY NumberAssumption, GetOrType DEF Owed, TypeOK, FundsTypeOK
<1>4. \A asset \in Token :
         Held'[asset] = IF asset = token THEN Held[asset] + credited ELSE Held[asset]
    BY TipHeld DEF Held
<1>5. \A key \in Account \X Token :
         Owed'[key] = IF key = <<creator, token>> THEN Owed[key] + credited ELSE Owed[key]
    <2> SUFFICES ASSUME NEW other \in Account, NEW asset \in Token
                 PROVE  Owed'[<<other, asset>>] =
                           IF <<other, asset>> = <<creator, token>>
                           THEN Owed[<<other, asset>>] + credited
                           ELSE Owed[<<other, asset>>]
        OBVIOUS
    <2> QED
        BY TipEffect DEF Owed, get_balance
<1> HIDE DEF credited
<1>6. Held' = [Held EXCEPT ![token] = @ + credited]
    BY <1>4, BooksDomain
<1>7. Owed' = [Owed EXCEPT ![<<creator, token>>] = @ + credited]
    BY <1>5, BooksDomain
<1>8. CASE credited = 0
    <2>1. Held' = Held
        BY <1>2, <1>4, <1>8, BooksDomain
    <2>2. Owed' = Owed
        BY <1>3, <1>5, <1>8, BooksDomain
    <2> QED
        BY <2>1, <2>2 DEF Escrow!Elsewhere, Held, Owed
<1>9. CASE credited # 0
    <2>1. Held'[token] - Held[token] = credited /\ credited > 0
        BY <1>1, <1>2, <1>4, <1>9
    <2> QED
        BY <1>6, <1>7, <2>1 DEF Escrow!Collect, Held, Owed
<1> QED
    BY <1>8, <1>9

\* What a withdrawal moves: the amount, from the contract to its caller.
LEMMA WithdrawMoves ==
    ASSUME TypeOK, NEW caller \in Account, NEW token \in Token,
           NEW amount \in Amount, withdraw(caller, token, amount)
    PROVE  /\ \A asset \in Token :
                 Held'[asset] = IF asset = token THEN Held[asset] - amount ELSE Held[asset]
           /\ \A key \in Account \X Token :
                 Wallet'[key] = IF key = <<caller, token>> THEN Wallet[key] + amount
                                                           ELSE Wallet[key]
<1>1. /\ caller \in Address /\ Contract \in Address /\ caller # Contract
      /\ tokenBalance \in [Address \X Token -> Nat] /\ amount \in Int
    BY AddressAssumption, NumberAssumption DEF Address, TypeOK, FundsTypeOK
<1>2. tokenBalance' = Transferred(tokenBalance, token, Contract, caller, amount)
    BY DEF withdraw, CanWithdraw, WithdrawAccepted, WithdrawBooked
<1>3. ASSUME NEW asset \in Token
      PROVE  Held'[asset] = IF asset = token THEN Held[asset] - amount ELSE Held[asset]
    <2>1. asset = token => tokenBalance'[<<Contract, asset>>]
                              = tokenBalance[<<Contract, asset>>] - amount
        BY <1>1, <1>2 DEF Transferred
    <2>2. asset # token => tokenBalance'[<<Contract, asset>>]
                              = tokenBalance[<<Contract, asset>>]
        BY <1>1, <1>2 DEF Transferred
    <2> QED
        BY <2>1, <2>2 DEF Held
<1>4. ASSUME NEW holder \in Account, NEW asset \in Token
      PROVE  Wallet'[<<holder, asset>>] =
                IF <<holder, asset>> = <<caller, token>>
                THEN Wallet[<<holder, asset>>] + amount
                ELSE Wallet[<<holder, asset>>]
    <2>1. holder # Contract /\ holder \in Address
        BY AddressAssumption DEF Address
    <2>2. holder = caller /\ asset = token =>
             tokenBalance'[<<holder, asset>>] = tokenBalance[<<holder, asset>>] + amount
        BY <1>1, <1>2 DEF Transferred
    <2>3. ~(holder = caller /\ asset = token) =>
             tokenBalance'[<<holder, asset>>] = tokenBalance[<<holder, asset>>]
        BY <1>1, <1>2, <2>1 DEF Transferred
    <2> QED
        BY <2>2, <2>3 DEF Wallet
<1> QED
    BY <1>3, <1>4

\* A withdrawal is a payment of part of what is owed.
LEMMA EscrowWithdraw ==
    ASSUME TypeOK, NEW caller \in Account, NEW token \in Token,
           NEW amount \in Amount, withdraw(caller, token, amount)
    PROVE  Escrow!Pay(caller, token)
<1>1. amount \in Nat /\ amount > 0 /\ amount <= Owed[<<caller, token>>]
    BY NumberAssumption DEF withdraw, CanWithdraw, WithdrawAccepted, WithdrawBooked, SufficientBalance, get_balance, Owed
<1>2. \A asset \in Token : Held[asset] \in Nat
    BY AddressAssumption DEF Held, TypeOK, FundsTypeOK, Address
<1>3. \A key \in Account \X Token : Owed[key] \in Nat
    BY NumberAssumption, GetOrType DEF Owed, TypeOK, FundsTypeOK
<1>4. \A key \in Account \X Token :
         Owed'[key] = IF key = <<caller, token>> THEN Owed[key] - amount ELSE Owed[key]
    <2> SUFFICES ASSUME NEW other \in Account, NEW asset \in Token
                 PROVE  Owed'[<<other, asset>>] =
                           IF <<other, asset>> = <<caller, token>>
                           THEN Owed[<<other, asset>>] - amount
                           ELSE Owed[<<other, asset>>]
        OBVIOUS
    <2>1. get_balance(other, asset)' =
             IF other = caller /\ asset = token
             THEN get_balance(other, asset) - amount
             ELSE get_balance(other, asset)
        BY WithdrawEffect
    <2>2. /\ Owed'[<<other, asset>>] = get_balance(other, asset)'
          /\ Owed[<<other, asset>>] = get_balance(other, asset)
        BY DEF Owed, get_balance
    <2> HIDE DEF Owed
    <2> QED
        BY <2>1, <2>2
<1>5. Held' = [Held EXCEPT ![token] = @ - amount]
    BY WithdrawMoves, BooksDomain
<1>6. Owed' = [Owed EXCEPT ![<<caller, token>>] = @ - amount]
    BY <1>4, BooksDomain
<1>7. Wallet' = [Wallet EXCEPT ![<<caller, token>>] = @ + amount]
    BY WithdrawMoves, BooksDomain
<1>8. Held[token] - Held'[token] = amount
    BY <1>1, <1>2, WithdrawMoves
<1>9. amount \in 1 .. Owed[<<caller, token>>]
    BY <1>1, <1>3
<1> QED
    BY <1>5, <1>6, <1>7, <1>8, <1>9 DEF Escrow!Pay, Held, Owed, Wallet

\* A transfer that does not go through the contract is a gift to it, or passes
\* it by.
LEMMA EscrowDirect ==
    ASSUME TypeOK, NEW src \in Account, NEW dst \in DepositTarget,
           NEW token \in Token, NEW amount \in Amount,
           direct_transfer(src, dst, token, amount)
    PROVE  Escrow!Gift(token) \/ Escrow!Elsewhere
<1>1. /\ src \in Address /\ dst \in Address /\ Contract \in Address /\ src # Contract
      /\ tokenBalance \in [Address \X Token -> Nat] /\ amount \in Int /\ amount > 0
    BY AddressAssumption, NumberAssumption
    DEF Address, TypeOK, FundsTypeOK, direct_transfer
<1>2. tokenBalance' = Transferred(tokenBalance, token, src, dst, amount)
    BY DEF direct_transfer
<1>3. Owed' = Owed
    BY DEF direct_transfer, Owed
<1>4. CASE dst = Contract
    <2>1. ASSUME NEW asset \in Token
          PROVE  Held'[asset] = IF asset = token THEN Held[asset] + amount
                                                 ELSE Held[asset]
        <3>1. asset = token => tokenBalance'[<<Contract, asset>>]
                                  = tokenBalance[<<Contract, asset>>] + amount
            BY <1>1, <1>2, <1>4 DEF Transferred
        <3>2. asset # token => tokenBalance'[<<Contract, asset>>]
                                  = tokenBalance[<<Contract, asset>>]
            BY <1>1, <1>2, <1>4 DEF Transferred
        <3> QED
            BY <3>1, <3>2 DEF Held
    <2>2. Held' = [Held EXCEPT ![token] = @ + amount]
        BY <2>1, BooksDomain
    <2>3. Held[token] \in Nat
        BY <1>1 DEF Held
    <2>4. Held'[token] - Held[token] = amount
        BY <1>1, <2>1, <2>3
    <2> QED
        BY <1>1, <1>3, <2>2, <2>4 DEF Escrow!Gift, Held, Owed
<1>5. CASE dst # Contract
    <2>1. \A asset \in Token : Held'[asset] = Held[asset]
        BY <1>1, <1>2, <1>5 DEF Held, Transferred
    <2>2. Held' = Held
        BY <2>1, BooksDomain
    <2> QED
        BY <1>3, <2>2 DEF Escrow!Elsewhere, Held, Owed
<1> QED
    BY <1>4, <1>5

\* Every step of the contract is a step of the escrow.  FeeAlwaysPayable is
\* needed for tip: a fee sent to the contract itself would stay in it.
THEOREM EscrowRefinement == Spec => ImplementsEscrow
<1>1. Init => Escrow!Init
    <2> SUFFICES ASSUME Init PROVE Escrow!Init
        OBVIOUS
    <2>1. Owed = [key \in Account \X Token |-> 0]
        BY DEF Init, Owed, GetOr, EmptyMap
    <2>2. Held = [token \in Token |-> 0]
        BY AddressAssumption DEF Init, Held, Address
    <2>3. Wallet \in [Account \X Token -> Nat]
        BY NumberAssumption DEF Init, Wallet, Address
    <2> QED
        BY <2>1, <2>2, <2>3 DEF Escrow!Init, Owed, Held, Wallet
<1>2. TypeOK /\ FeeAlwaysPayable /\ [Next]_vars
         => [Escrow!Next]_(Escrow!vars)
    <2> SUFFICES ASSUME TypeOK, FeeAlwaysPayable, [Next]_vars
                 PROVE  Escrow!Next
        OBVIOUS
    <2>1. CASE MoneyStep
        <3>1. DepositTarget \subseteq Address
            BY AddressAssumption
        <3> QED
            BY <2>1, EscrowTip, EscrowWithdraw, EscrowDirect
            DEF MoneyStep, Escrow!Next
    <2>2. CASE UNCHANGED <<Balance, tokenBalance>>
        BY <2>2 DEF Escrow!Next, Escrow!Elsewhere
    <2> QED
        BY <2>1, <2>2, StepKinds, AdminFrame
        DEF register, update_profile, unregister, vars, funds
<1> QED
    BY <1>1, <1>2, TypeCorrectness, FeePayability, PTL
    DEF Spec, ImplementsEscrow, Escrow!Spec

------------------------------------------------------------------------------
(* Sums.                                                                   *)
(*                                                                         *)
(* MapThenSumSet is a recursive function on the subsets of a set.  That it *)
(* exists is shown by a count that solves its equation: a value of n is a  *)
(* block of n units, and the sum of the values is the number of all units. *)
(* That it is that count is shown by a least counterexample.               *)

SumOver(map, K) == MapThenSumSet(LAMBDA key : map[key], K)

Units(map, K) == {unit \in K \X (Nat \ {0}) : unit[2] <= map[unit[1]]}

\* The n units of a key that follow the first low ones.
Block(key, low, n) == {<<key, i>> : i \in low + 1 .. low + n}

LEMMA BlockSize ==
    ASSUME NEW key, NEW low \in Nat, NEW n \in Nat
    PROVE  /\ IsFiniteSet(Block(key, low, n))
           /\ Cardinality(Block(key, low, n)) = n
<1> DEFINE I == low + 1 .. low + n
           block == Block(key, low, n)
           f == [i \in I |-> <<key, i>>]
<1>1. IsFiniteSet(I) /\ Cardinality(I) = n
    <2>1. low + 1 \in Int /\ low + n \in Int
        OBVIOUS
    <2>2. IsFiniteSet(I) /\ Cardinality(I) = IF low + 1 > low + n THEN 0
                                             ELSE low + n - (low + 1) + 1
        BY <2>1, FS_Interval
    <2> HIDE DEF I
    <2> QED
        BY <2>2
<1>2. ExistsBijection(I, block)
    <2>1. block = {<<key, i>> : i \in I}
        BY DEF Block
    <2> HIDE DEF I, block
    <2>2. f \in [I -> block]
        BY <2>1
    <2>3. \A i, j \in I : f[i] = f[j] => i = j
        OBVIOUS
    <2>4. \A unit \in block : \E i \in I : f[i] = unit
        BY <2>1
    <2>5. f \in Bijection(I, block)
        BY <2>2, <2>3, <2>4, Zenon DEF Bijection, Injection, Surjection, IsInjective
    <2> QED
        BY <2>5 DEF ExistsBijection
<1> HIDE DEF I, block
<1>3. IsFiniteSet(block) /\ Cardinality(block) = n
    BY <1>1, <1>2, FS_Bijection
<1> QED
    BY <1>3 DEF block

\* The equation that defines a sum over a set: sum is that of map over s.
SumOf(map, sum, s) ==
    IF s = {} THEN 0
    ELSE LET key == CHOOSE k \in s : TRUE IN map[key] + sum[s \ {key}]

\* Finitely many keys have finitely many units.
LEMMA FiniteUnits ==
    ASSUME NEW K, IsFiniteSet(K), NEW map, \A key \in K : map[key] \in Nat
    PROVE  IsFiniteSet(Units(map, K))
<1> DEFINE own == [key \in K |-> Block(key, 0, map[key])]
           Blocks == {own[key] : key \in K}
<1>1. own \in Surjection(K, Blocks)
    <2>1. own \in [K -> Blocks]
        OBVIOUS
    <2>2. \A block \in Blocks : \E key \in K : own[key] = block
        OBVIOUS
    <2> HIDE DEF own, Blocks
    <2> QED
        BY <2>1, <2>2 DEF Surjection
<1>2. IsFiniteSet(Blocks)
    <2> HIDE DEF own, Blocks
    <2> QED
        BY <1>1, FS_Surjection
<1>3. \A block \in Blocks : IsFiniteSet(block)
    BY BlockSize
<1>4. Units(map, K) \in SUBSET UNION Blocks
    <2> SUFFICES ASSUME NEW unit \in Units(map, K)
                 PROVE  unit \in Block(unit[1], 0, map[unit[1]]) /\ unit[1] \in K
        OBVIOUS
    <2>1. /\ unit = <<unit[1], unit[2]>> /\ unit[1] \in K
          /\ unit[2] \in Nat \ {0} /\ unit[2] <= map[unit[1]]
        BY DEF Units
    <2>2. unit[2] \in 0 + 1 .. 0 + map[unit[1]]
        BY <2>1
    <2> QED
        BY <2>1, <2>2, Zenon DEF Block
<1>5. IsFiniteSet(UNION Blocks)
    <2> HIDE DEF Blocks
    <2> QED
        BY <1>2, <1>3, FS_UNION
<1> HIDE DEF Blocks
<1> QED
    BY <1>4, <1>5, FS_Subset

\* The units of one key more.
LEMMA UnitsOfOneMore ==
    ASSUME NEW K, IsFiniteSet(K), NEW map, \A key \in K : map[key] \in Nat, NEW key \in K
    PROVE  Cardinality(Units(map, K)) = map[key] + Cardinality(Units(map, K \ {key}))
<1> DEFINE rest == Units(map, K \ {key})
           own == Block(key, 0, map[key])
<1>1. IsFiniteSet(rest)
    <2>1. IsFiniteSet(K \ {key})
        BY FS_RemoveElement
    <2> QED
        BY <2>1, FiniteUnits
<1>2. IsFiniteSet(own) /\ Cardinality(own) = map[key]
    <2>1. 0 \in Nat
        OBVIOUS
    <2> QED
        BY <2>1, BlockSize
<1>3. Units(map, K) = rest \cup own
    BY DEF Units, Block
<1>4. rest \cap own = {}
    BY DEF Units, Block
<1> HIDE DEF rest, own
<1>5. Cardinality(rest \cup own) = Cardinality(rest) + Cardinality(own) - Cardinality(rest \cap own)
    BY <1>1, <1>2, FS_Union
<1>6. Cardinality(rest \cap own) = 0
    BY <1>4, FS_EmptySet
<1>7. Cardinality(rest) \in Nat
    BY <1>1, FS_CardinalityType
<1>8. \A k \in Nat : k + map[key] - 0 = map[key] + k
    OBVIOUS
<1> QED
    BY <1>2, <1>3, <1>5, <1>6, <1>7, <1>8, Zenon DEF rest

\* A sum is a count of units.
LEMMA SumIsCount ==
    ASSUME NEW K, IsFiniteSet(K), NEW map, \A key \in K : map[key] \in Nat
    PROVE  SumOver(map, K) = Cardinality(Units(map, K))
<1> DEFINE Solves(it) == it = [s \in SUBSET K |-> SumOf(map, it, s)]
           count == [s \in SUBSET K |-> Cardinality(Units(map, s))]
           sum == CHOOSE it : Solves(it)
<1>1. SumOver(map, K) = sum[K]
    BY DEF SumOver, MapThenSumSet, MapThenFoldSet, SumOf
<1>2. \A s \in SUBSET K : IsFiniteSet(s)
    BY FS_Subset
<1>3. ASSUME NEW s \in SUBSET K
      PROVE  count[s] = SumOf(map, count, s)
    <2>1. CASE s = {}
        <3>1. Units(map, s) = {}
            BY <2>1 DEF Units
        <3> QED
            BY <2>1, <3>1, FS_EmptySet DEF SumOf
    <2>2. CASE s # {}
        <3> DEFINE key == CHOOSE k \in s : TRUE
        <3>1. key \in s
            BY <2>2
        <3> HIDE DEF key
        <3>2. Cardinality(Units(map, s)) = map[key] + Cardinality(Units(map, s \ {key}))
            BY <1>2, <3>1, UnitsOfOneMore
        <3>3. s \ {key} \in SUBSET K
            OBVIOUS
        <3> QED
            BY <2>2, <3>2, <3>3 DEF SumOf, key
    <2> QED
        BY <2>1, <2>2
<1>4. Solves(count)
    <2>1. count = [s \in SUBSET K |-> count[s]]
        OBVIOUS
    <2> HIDE DEF count
    <2> QED
        BY <1>3, <2>1
<1>5. Solves(sum)
    <2> HIDE DEF Solves, count
    <2> QED
        BY <1>4
<1> HIDE DEF sum
<1>6. \A s \in SUBSET K : sum[s] = count[s]
    <2> DEFINE Bad == {s \in SUBSET K : sum[s] # count[s]}
    <2> SUFFICES ASSUME Bad # {} PROVE FALSE
        OBVIOUS
    <2>1. Bad \in SUBSET FiniteSubsetsOf(K)
        BY <1>2 DEF FiniteSubsetsOf
    <2> HIDE DEF Bad, count
    <2>2. PICK s \in Bad : \A t \in Bad : ~(<<t, s>> \in StrictSubsetOrdering(K))
        BY <2>1, FS_StrictSubsetOrderingWellFounded, WFMin
    <2> USE DEF Bad
    <2>3. \A t \in SUBSET s : t # s => sum[t] = count[t]
        BY <2>2 DEF StrictSubsetOrdering
    <2>4. sum[s] = SumOf(map, sum, s) /\ count[s] = SumOf(map, count, s)
        BY <1>3, <1>5
    <2>5. SumOf(map, sum, s) = SumOf(map, count, s)
        <3>1. CASE s = {}
            BY <3>1 DEF SumOf
        <3>2. CASE s # {}
            <4> DEFINE key == CHOOSE k \in s : TRUE
            <4>1. key \in s
                BY <3>2
            <4> HIDE DEF key
            <4>2. sum[s \ {key}] = count[s \ {key}]
                BY <2>3, <4>1
            <4> QED
                BY <3>2, <4>2 DEF SumOf, key
        <3> QED
            BY <3>1, <3>2
    <2> QED
        BY <2>4, <2>5
<1>7. count[K] = Cardinality(Units(map, K))
    OBVIOUS
<1> HIDE DEF count
<1> QED
    BY <1>1, <1>6, <1>7

\* A sum is a value and the sum of the others.
LEMMA SumOfOneMore ==
    ASSUME NEW K, IsFiniteSet(K), NEW map, \A key \in K : map[key] \in Nat, NEW key \in K
    PROVE  SumOver(map, K)
              = map[key] + SumOver(map, K \ {key})
<1>1. IsFiniteSet(K \ {key}) /\ \A k \in K \ {key} : map[k] \in Nat
    BY FS_RemoveElement
<1>2. SumOver(map, K) = Cardinality(Units(map, K))
    BY SumIsCount
<1>3. SumOver(map, K \ {key}) = Cardinality(Units(map, K \ {key}))
    BY <1>1, SumIsCount
<1> QED
    BY <1>2, <1>3, UnitsOfOneMore

\* A sum depends on the values it adds up, and on nothing else.
LEMMA SumOfSame ==
    ASSUME NEW K, IsFiniteSet(K), NEW map, \A key \in K : map[key] \in Nat,
           NEW next, \A key \in K : next[key] = map[key]
    PROVE  SumOver(next, K) = SumOver(map, K)
<1>1. Units(next, K) = Units(map, K)
    BY DEF Units
<1>2. SumOver(map, K) = Cardinality(Units(map, K))
    BY SumIsCount
<1>3. SumOver(next, K) = Cardinality(Units(next, K))
    BY SumIsCount
<1> QED
    BY <1>1, <1>2, <1>3

------------------------------------------------------------------------------
(* The sum of the credits in a token.                                      *)

CreditsOf(map, token) == SumOver(map, {key \in DOMAIN map : key[2] = token})

FiniteLedger(map) ==
    /\ IsFiniteSet(DOMAIN map)
    /\ \A key \in DOMAIN map : map[key] \in Nat

\* A sum of credits is a natural number.
LEMMA CreditsType ==
    ASSUME NEW map, FiniteLedger(map), NEW token
    PROVE  CreditsOf(map, token) \in Nat
<1> DEFINE K == {key \in DOMAIN map : key[2] = token}
<1>1. IsFiniteSet(K) /\ \A key \in K : map[key] \in Nat
    BY FS_Subset DEF FiniteLedger
<1> HIDE DEF K
<1>2. SumOver(map, K) = Cardinality(Units(map, K))
    BY <1>1, SumIsCount
<1>3. Cardinality(Units(map, K)) \in Nat
    BY <1>1, FiniteUnits, FS_CardinalityType
<1> QED
    BY <1>2, <1>3 DEF CreditsOf, K

\* One credit in the token and the sum of the others.
LEMMA CreditsSplit ==
    ASSUME NEW map, FiniteLedger(map), NEW key, NEW token, key[2] = token
    PROVE  /\ FiniteLedger(Remove(map, key))
           /\ CreditsOf(map, token)
                 = GetOr(map, key, 0) + CreditsOf(Remove(map, key), token)
<1> DEFINE rest == Remove(map, key)
           K == {k \in DOMAIN map : k[2] = token}
           R == {k \in DOMAIN rest : k[2] = token}
<1>1. R = K \ {key} /\ \A k \in R : rest[k] = map[k]
    BY DEF Remove
<1>2. IsFiniteSet(K) /\ \A k \in K : map[k] \in Nat
    BY FS_Subset DEF FiniteLedger
<1>3. IsFiniteSet(R) /\ \A k \in R : map[k] \in Nat
    BY <1>1, <1>2, FS_RemoveElement
<1>4. FiniteLedger(rest)
    BY FS_RemoveElement DEF FiniteLedger, Remove
<1>5. CreditsOf(map, token) = SumOver(map, K)
    BY DEF CreditsOf
<1>6. CreditsOf(rest, token) = SumOver(rest, R)
    BY DEF CreditsOf
<1>7. CreditsOf(rest, token) \in Nat
    BY <1>4, CreditsType
<1>8. key \in K <=> key \in DOMAIN map
    OBVIOUS
<1> HIDE DEF K, R, rest
<1>9. CreditsOf(rest, token) = SumOver(map, R)
    BY <1>1, <1>3, <1>6, SumOfSame
<1>10. CASE key \in DOMAIN map
    <2>1. SumOver(map, K)
             = map[key] + SumOver(map, K \ {key})
        BY <1>2, <1>8, <1>10, SumOfOneMore
    <2> QED
        BY <1>1, <1>4, <1>5, <1>9, <1>10, <2>1 DEF GetOr, rest
<1>11. CASE key \notin DOMAIN map
    <2>1. R = K
        BY <1>1, <1>8, <1>11
    <2> QED
        BY <1>4, <1>5, <1>7, <1>9, <1>11, <2>1 DEF GetOr, rest
<1> QED
    BY <1>10, <1>11

\* Credits in the other tokens are another sum.
LEMMA CreditsElsewhere ==
    ASSUME NEW map, FiniteLedger(map), NEW next, NEW key, NEW token, key[2] # token,
           DOMAIN next \ {key} = DOMAIN map \ {key},
           \A k \in DOMAIN map \ {key} : next[k] = map[k]
    PROVE  CreditsOf(next, token) = CreditsOf(map, token)
<1> DEFINE K == {k \in DOMAIN map : k[2] = token}
           N == {k \in DOMAIN next : k[2] = token}
<1>1. N = K /\ \A k \in K : next[k] = map[k]
    OBVIOUS
<1>2. IsFiniteSet(K) /\ \A k \in K : map[k] \in Nat
    BY FS_Subset DEF FiniteLedger
<1>3. CreditsOf(map, token) = SumOver(map, K)
    BY DEF CreditsOf
<1>4. CreditsOf(next, token) = SumOver(next, N)
    BY DEF CreditsOf
<1> HIDE DEF K, N
<1> QED
    BY <1>1, <1>2, <1>3, <1>4, SumOfSame

\* Writing a credit, or removing one, moves the sum by the difference.
LEMMA CreditsAfterPut ==
    ASSUME NEW map, FiniteLedger(map), NEW key, NEW value \in Nat, NEW token
    PROVE  /\ FiniteLedger(Put(map, key, value))
           /\ CreditsOf(Put(map, key, value), token) =
                 IF key[2] = token
                 THEN CreditsOf(map, token) - GetOr(map, key, 0) + value
                 ELSE CreditsOf(map, token)
<1> DEFINE next == Put(map, key, value)
<1>1. FiniteLedger(next)
    BY FS_AddElement DEF FiniteLedger, Put
<1>2. CASE key[2] = token
    <2>1. Remove(next, key) = Remove(map, key)
        BY DEF Remove, Put
    <2>2. GetOr(next, key, 0) = value
        BY DEF GetOr, Put
    <2> HIDE DEF next
    <2>3. CreditsOf(next, token) = GetOr(next, key, 0) + CreditsOf(Remove(next, key), token)
        BY <1>1, <1>2, CreditsSplit
    <2>4. CreditsOf(map, token) = GetOr(map, key, 0) + CreditsOf(Remove(map, key), token)
        BY <1>2, CreditsSplit
    <2>5. FiniteLedger(Remove(map, key))
        BY <1>2, CreditsSplit
    <2>6. CreditsOf(Remove(map, key), token) \in Nat /\ GetOr(map, key, 0) \in Nat
        BY <2>5, CreditsType DEF GetOr, FiniteLedger
    <2> QED
        BY <1>1, <1>2, <2>1, <2>2, <2>3, <2>4, <2>6 DEF next
<1>3. CASE key[2] # token
    <2>1. /\ DOMAIN next \ {key} = DOMAIN map \ {key}
          /\ \A k \in DOMAIN map \ {key} : next[k] = map[k]
        BY DEF Put
    <2> HIDE DEF next
    <2> QED
        BY <1>1, <1>3, <2>1, CreditsElsewhere DEF next
<1> QED
    BY <1>2, <1>3

LEMMA CreditsAfterRemove ==
    ASSUME NEW map, FiniteLedger(map), NEW key, NEW token
    PROVE  /\ FiniteLedger(Remove(map, key))
           /\ CreditsOf(Remove(map, key), token) =
                 IF key[2] = token
                 THEN CreditsOf(map, token) - GetOr(map, key, 0)
                 ELSE CreditsOf(map, token)
<1> DEFINE next == Remove(map, key)
<1>1. FiniteLedger(next)
    BY FS_RemoveElement DEF FiniteLedger, Remove
<1>2. CASE key[2] = token
    <2>1. CreditsOf(map, token) = GetOr(map, key, 0) + CreditsOf(next, token)
        BY <1>2, CreditsSplit
    <2>2. CreditsOf(next, token) \in Nat /\ GetOr(map, key, 0) \in Nat
        BY <1>1, CreditsType DEF GetOr, FiniteLedger
    <2> HIDE DEF next
    <2> QED
        BY <1>1, <1>2, <2>1, <2>2 DEF next
<1>3. CASE key[2] # token
    <2>1. /\ DOMAIN next \ {key} = DOMAIN map \ {key}
          /\ \A k \in DOMAIN map \ {key} : next[k] = map[k]
        BY DEF Remove
    <2> HIDE DEF next
    <2> QED
        BY <1>1, <1>3, <2>1, CreditsElsewhere DEF next
<1> QED
    BY <1>2, <1>3

\* No single credit exceeds the sum.
LEMMA CreditInSum ==
    ASSUME NEW map, FiniteLedger(map), NEW creator, NEW token
    PROVE  GetOr(map, <<creator, token>>, 0) <= CreditsOf(map, token)
<1> DEFINE key == <<creator, token>>
<1>1. key[2] = token
    OBVIOUS
<1> HIDE DEF key
<1>2. /\ CreditsOf(map, token) = GetOr(map, key, 0) + CreditsOf(Remove(map, key), token)
      /\ CreditsOf(Remove(map, key), token) \in Nat
    BY <1>1, CreditsSplit, CreditsType
<1>3. GetOr(map, key, 0) \in Nat
    BY DEF GetOr, FiniteLedger
<1> QED
    BY <1>2, <1>3 DEF key

------------------------------------------------------------------------------
(* Solvency.                                                               *)

\* Finitely many credits are on record: a step adds at most one.
FiniteBalance == IsFiniteSet(DOMAIN Balance)

\* Credits is the sum of the recorded credits, before a step and after it.
LEMMA CreditsRead == \A token \in Token : Credits(token) = CreditsOf(Balance, token)
BY DEF Credits, CreditsOf, SumOver

LEMMA CreditsReadNext ==
    \A token \in Token : Credits(token)' = CreditsOf(Balance', token)
<1>1. (\A token \in Token : Credits(token) = CreditsOf(Balance, token))'
    BY CreditsRead, PTL
<1> QED
    BY <1>1

\* The recorded credits are a finite ledger.
LEMMA BalanceLedger ==
    TypeOK /\ FiniteBalance =>
        /\ FiniteLedger(Balance)
        /\ \A token \in Token : /\ CreditsOf(Balance, token) \in Nat
                                /\ tokenBalance[<<Contract, token>>] \in Nat
<1> SUFFICES ASSUME TypeOK, FiniteBalance
             PROVE  /\ FiniteLedger(Balance)
                    /\ \A token \in Token :
                          /\ CreditsOf(Balance, token) \in Nat
                          /\ tokenBalance[<<Contract, token>>] \in Nat
    OBVIOUS
<1>1. FiniteLedger(Balance)
    BY NumberAssumption DEF FiniteLedger, FiniteBalance, TypeOK, FundsTypeOK, MapOf
<1>2. \A token \in Token : tokenBalance[<<Contract, token>>] \in Nat
    BY AddressAssumption DEF TypeOK, FundsTypeOK, Address
<1> QED
    BY <1>1, <1>2, CreditsType

\* The surplus of a token is an integer.
LEMMA SurplusType == TypeOK /\ FiniteBalance => \A token \in Token : Surplus(token) \in Int
BY BalanceLedger, CreditsRead DEF Surplus

LEMMA SurplusTypeNext ==
    TypeOK' /\ FiniteBalance' => \A token \in Token : Surplus(token)' \in Int
<1>1. (TypeOK /\ FiniteBalance => \A token \in Token : Surplus(token) \in Int)'
    BY SurplusType, PTL
<1> QED
    BY <1>1

\* A tip adds its amount less the fee to the credits in its token.
LEMMA TipCredits ==
    ASSUME TypeOK, FiniteBalance, NEW from \in Account, NEW creator \in Account,
           NEW token \in Token, NEW amount \in Amount,
           TipAccepted(creator, token, amount), TipBooked(from, creator, token, amount)
    PROVE  /\ FiniteBalance'
           /\ \A asset \in Token :
                 Credits(asset)' = IF asset = token
                                   THEN Credits(asset) + CreatorAmount(amount, FeeOf(amount))
                                   ELSE Credits(asset)
<1> DEFINE n == CreatorAmount(amount, FeeOf(amount))
           key == <<creator, token>>
           credit == get_balance(creator, token)
<1>1. n \in Nat
    <2>1. amount \in Nat /\ FeeOf(amount) \in 0 .. amount
        BY NumberAssumption, FeeBounds
        DEF TipAccepted, MeetsMinimum, FeeOf, TypeOK, ConfigTypeOK
    <2> QED
        BY <2>1 DEF CreatorAmount
<1>2. credit \in Nat /\ credit = GetOr(Balance, key, 0)
    BY CreditType DEF get_balance
<1>3. Balance' = Put(Balance, key, credit + n)
    BY DEF TipBooked
<1>4. FiniteLedger(Balance)
    BY BalanceLedger
<1>5. key[2] = token
    OBVIOUS
<1> HIDE DEF n, key, credit
<1>6. FiniteBalance'
    <2>1. FiniteLedger(Put(Balance, key, credit + n))
        BY <1>1, <1>2, <1>4, CreditsAfterPut
    <2> QED
        BY <1>3, <2>1 DEF FiniteBalance, FiniteLedger
<1>7. ASSUME NEW asset \in Token
      PROVE  Credits(asset)' = IF asset = token THEN Credits(asset) + n ELSE Credits(asset)
    <2>1. CreditsOf(Put(Balance, key, credit + n), asset) =
             IF key[2] = asset
             THEN CreditsOf(Balance, asset) - GetOr(Balance, key, 0) + (credit + n)
             ELSE CreditsOf(Balance, asset)
        BY <1>1, <1>2, <1>4, CreditsAfterPut
    <2>2. Credits(asset)' = CreditsOf(Put(Balance, key, credit + n), asset)
        BY <1>3, CreditsReadNext
    <2>3. Credits(asset) = CreditsOf(Balance, asset) /\ CreditsOf(Balance, asset) \in Nat
        BY BalanceLedger, CreditsRead
    <2> QED
        BY <1>1, <1>2, <1>5, <2>1, <2>2, <2>3
<1> QED
    BY <1>6, <1>7 DEF n

\* What tip credits the contract keeps: the fee comes out of the tip.
LEMMA TipSurplus ==
    ASSUME TypeOK, FiniteBalance, FeeAlwaysPayable, NEW from \in Account,
           NEW creator \in Account, NEW token \in Token, NEW amount \in Amount,
           tip(from, creator, token, amount)
    PROVE  FiniteBalance' /\ \A asset \in Token : Surplus(asset)' = Surplus(asset)
<1> DEFINE n == CreatorAmount(amount, FeeOf(amount))
<1>1. n \in Nat
    BY TipHeld
<1>2. /\ FiniteBalance'
      /\ \A asset \in Token :
            Credits(asset)' = IF asset = token THEN Credits(asset) + n ELSE Credits(asset)
    BY TipCredits DEF tip, CanTip
<1>3. \A asset \in Token :
         tokenBalance'[<<Contract, asset>>] =
            IF asset = token THEN tokenBalance[<<Contract, asset>>] + n
                             ELSE tokenBalance[<<Contract, asset>>]
    BY TipHeld
<1>4. \A asset \in Token : /\ Credits(asset) \in Nat
                           /\ tokenBalance[<<Contract, asset>>] \in Nat
    BY BalanceLedger, CreditsRead
<1>5. \A asset \in Token :
         Surplus(asset)' = tokenBalance'[<<Contract, asset>>] - Credits(asset)'
    BY DEF Surplus
<1> HIDE DEF n
<1> QED
    BY <1>1, <1>2, <1>3, <1>4, <1>5 DEF Surplus

\* A withdrawal takes its amount off the credits in its token.
LEMMA WithdrawCredits ==
    ASSUME TypeOK, FiniteBalance, NEW caller \in Account, NEW token \in Token,
           NEW amount \in Amount, WithdrawAccepted(caller, token, amount),
           WithdrawBooked(caller, token, amount)
    PROVE  /\ FiniteBalance'
           /\ \A asset \in Token :
                 Credits(asset)' = IF asset = token THEN Credits(asset) - amount
                                                    ELSE Credits(asset)
<1> DEFINE key == <<caller, token>>
           credit == get_balance(caller, token)
           left == credit - amount
<1>1. /\ credit \in Nat /\ credit = GetOr(Balance, key, 0)
      /\ amount \in Nat /\ left \in Nat /\ credit - left = amount
    <2>1. credit \in Nat /\ credit = GetOr(Balance, key, 0)
        BY CreditType DEF get_balance
    <2>2. amount \in Nat /\ credit >= amount
        BY NumberAssumption DEF WithdrawAccepted, SufficientBalance
    <2> QED
        BY <2>1, <2>2
<1>2. Balance' = IF left > 0 THEN Put(Balance, key, left) ELSE Remove(Balance, key)
    BY DEF WithdrawBooked, BalanceAfterWithdraw
<1>3. FiniteLedger(Balance)
    BY BalanceLedger
<1>4. key[2] = token
    OBVIOUS
<1> HIDE DEF key, credit, left
<1>5. /\ FiniteLedger(Balance')
      /\ \A asset \in Token :
            CreditsOf(Balance', asset) =
               IF asset = token THEN CreditsOf(Balance, asset) - amount
                                ELSE CreditsOf(Balance, asset)
    <2>1. \A asset \in Token : CreditsOf(Balance, asset) \in Nat
        BY <1>3, CreditsType
    <2>2. CASE left > 0
        <3>1. \A asset \in Token :
                 /\ FiniteLedger(Put(Balance, key, left))
                 /\ CreditsOf(Put(Balance, key, left), asset) =
                       IF key[2] = asset
                       THEN CreditsOf(Balance, asset) - GetOr(Balance, key, 0) + left
                       ELSE CreditsOf(Balance, asset)
            BY <1>1, <1>3, CreditsAfterPut
        <3>2. FiniteLedger(Put(Balance, key, left))
            BY <1>1, <1>3, CreditsAfterPut
        <3> QED
            BY <1>1, <1>2, <1>4, <2>1, <2>2, <3>1, <3>2
    <2>3. CASE ~(left > 0)
        <3>1. \A asset \in Token :
                 CreditsOf(Remove(Balance, key), asset) =
                    IF key[2] = asset
                    THEN CreditsOf(Balance, asset) - GetOr(Balance, key, 0)
                    ELSE CreditsOf(Balance, asset)
            BY <1>3, CreditsAfterRemove
        <3>2. FiniteLedger(Remove(Balance, key))
            BY <1>3, CreditsAfterRemove
        <3>3. amount = credit
            BY <1>1, <2>3
        <3> QED
            BY <1>1, <1>2, <1>4, <2>1, <2>3, <3>1, <3>2, <3>3
    <2> QED
        BY <2>2, <2>3
<1>6. \A asset \in Token : /\ Credits(asset) = CreditsOf(Balance, asset)
                           /\ Credits(asset)' = CreditsOf(Balance', asset)
    BY CreditsRead, CreditsReadNext
<1> QED
    BY <1>5, <1>6 DEF FiniteBalance, FiniteLedger

\* What withdraw pays the contract no longer owes.
LEMMA WithdrawSurplus ==
    ASSUME TypeOK, FiniteBalance, NEW caller \in Account, NEW token \in Token,
           NEW amount \in Amount, withdraw(caller, token, amount)
    PROVE  FiniteBalance' /\ \A asset \in Token : Surplus(asset)' = Surplus(asset)
<1>1. /\ FiniteBalance'
      /\ \A asset \in Token :
            Credits(asset)' = IF asset = token THEN Credits(asset) - amount
                                               ELSE Credits(asset)
    BY WithdrawCredits DEF withdraw, CanWithdraw
<1>2. amount \in Nat
    BY NumberAssumption DEF withdraw, CanWithdraw, WithdrawAccepted
<1>3. \A asset \in Token :
         tokenBalance'[<<Contract, asset>>] =
            IF asset = token THEN tokenBalance[<<Contract, asset>>] - amount
                             ELSE tokenBalance[<<Contract, asset>>]
    BY WithdrawMoves DEF Held
<1>4. \A asset \in Token : /\ Credits(asset) \in Nat
                           /\ tokenBalance[<<Contract, asset>>] \in Nat
    BY BalanceLedger, CreditsRead
<1>5. \A asset \in Token :
         Surplus(asset)' = tokenBalance'[<<Contract, asset>>] - Credits(asset)'
    BY DEF Surplus
<1> QED
    BY <1>1, <1>2, <1>3, <1>4, <1>5 DEF Surplus

\* A transfer outside the contract can only add to what the contract holds.
LEMMA DirectSurplus ==
    ASSUME TypeOK, FiniteBalance, NEW src \in Account, NEW dst \in DepositTarget,
           NEW token \in Token, NEW amount \in Amount,
           direct_transfer(src, dst, token, amount)
    PROVE  Balance' = Balance /\ \A asset \in Token : Surplus(asset)' >= Surplus(asset)
<1>1. /\ src \in Address /\ dst \in Address /\ Contract \in Address
      /\ src # Contract /\ amount \in Nat
      /\ tokenBalance \in [Address \X Token -> Nat]
    BY AddressAssumption, NumberAssumption
    DEF Address, TypeOK, FundsTypeOK, direct_transfer
<1>2. /\ tokenBalance' = Transferred(tokenBalance, token, src, dst, amount)
      /\ Balance' = Balance
    BY DEF direct_transfer
<1>3. ASSUME NEW asset \in Token
      PROVE  /\ tokenBalance'[<<Contract, asset>>] \in Nat
             /\ tokenBalance'[<<Contract, asset>>] >= tokenBalance[<<Contract, asset>>]
    BY <1>1, <1>2 DEF Transferred
<1>4. ASSUME NEW asset \in Token
      PROVE  Surplus(asset)' >= Surplus(asset)
    <2>1. Credits(asset) \in Nat /\ tokenBalance[<<Contract, asset>>] \in Nat
        BY BalanceLedger, CreditsRead
    <2>2. Credits(asset)' = Credits(asset)
        BY <1>2, CreditsRead, CreditsReadNext
    <2>3. Surplus(asset)' = tokenBalance'[<<Contract, asset>>] - Credits(asset)
        BY <2>2 DEF Surplus
    <2> QED
        BY <1>3, <2>1, <2>3 DEF Surplus
<1> QED
    BY <1>2, <1>4

\* What every step does to the surplus, and to the set of credits.
LEMMA StepSurplus ==
    ASSUME TypeOK, FiniteBalance, FeeAlwaysPayable, [Next]_vars
    PROVE  /\ FiniteBalance'
           /\ \A token \in Token :
                 /\ Surplus(token)' >= Surplus(token)
                 /\ Balance' # Balance => Surplus(token)' = Surplus(token)
<1>1. \A token \in Token : Surplus(token) \in Int
    BY SurplusType
<1>2. ASSUME NEW from \in Account, NEW creator \in Account, NEW token \in Token,
             NEW amount \in Amount, tip(from, creator, token, amount)
      PROVE  FiniteBalance' /\ \A asset \in Token : Surplus(asset)' = Surplus(asset)
    BY <1>2, TipSurplus
<1>3. ASSUME NEW caller \in Account, NEW token \in Token, NEW amount \in Amount,
             withdraw(caller, token, amount)
      PROVE  FiniteBalance' /\ \A asset \in Token : Surplus(asset)' = Surplus(asset)
    BY <1>3, WithdrawSurplus
<1>4. ASSUME NEW src \in Account, NEW dst \in DepositTarget, NEW token \in Token,
             NEW amount \in Amount, direct_transfer(src, dst, token, amount)
      PROVE  /\ FiniteBalance' /\ Balance' = Balance
             /\ \A asset \in Token : Surplus(asset)' >= Surplus(asset)
    BY <1>4, DirectSurplus DEF FiniteBalance
<1>5. CASE UNCHANGED <<Balance, tokenBalance>>
    <2>1. \A token \in Token : Credits(token)' = Credits(token)
        BY <1>5, CreditsRead, CreditsReadNext
    <2>2. \A token \in Token : Surplus(token)' = Surplus(token)
        BY <1>5, <2>1 DEF Surplus
    <2> QED
        BY <1>1, <1>5, <2>2 DEF FiniteBalance
<1>6. CASE MoneyStep
    BY <1>1, <1>2, <1>3, <1>4, <1>6 DEF MoneyStep
<1> QED
    BY <1>5, <1>6, StepKinds, AdminFrame
    DEF register, update_profile, unregister, vars, funds

\* Only finitely many credits are ever on record.
LEMMA FiniteBalanceInvariance == Spec => []FiniteBalance
<1>1. Init => FiniteBalance
    BY FS_EmptySet DEF Init, FiniteBalance, EmptyMap
<1>2. TypeOK /\ FeeAlwaysPayable /\ FiniteBalance /\ [Next]_vars => FiniteBalance'
    BY StepSurplus
<1> QED
    BY <1>1, <1>2, TypeCorrectness, FeePayability, PTL DEF Spec

\* At the start the contract holds nothing and owes nothing.
LEMMA InitSolvent == Init => Solvent
<1> SUFFICES ASSUME Init, NEW token \in Token
             PROVE  Surplus(token) = 0
    BY DEF Solvent
<1>1. tokenBalance[<<Contract, token>>] = 0
    BY AddressAssumption DEF Init, Address
<1>2. Credits(token) = 0
    <2> DEFINE K == {key \in DOMAIN Balance : key[2] = token}
    <2>1. K = {} /\ IsFiniteSet(K)
        BY FS_EmptySet DEF Init, EmptyMap
    <2>2. Credits(token) = SumOver(Balance, K)
        BY DEF Credits, SumOver
    <2> HIDE DEF K
    <2>3. SumOver(Balance, K) = Cardinality(Units(Balance, K))
        BY <2>1, SumIsCount
    <2>4. Units(Balance, K) = {}
        BY <2>1 DEF Units
    <2> QED
        BY <2>2, <2>3, <2>4, FS_EmptySet
<1> QED
    BY <1>1, <1>2 DEF Surplus

\* In every token the contract holds at least the sum of what it owes, for any
\* number of creators: the surplus starts at 0 and no step lowers it.
THEOREM Solvency == Spec => []Solvent
<1>1. Init => Solvent
    BY InitSolvent
<1>2. TypeOK /\ FiniteBalance /\ FeeAlwaysPayable /\ Solvent /\ [Next]_vars
         /\ TypeOK' /\ FiniteBalance' => Solvent'
    <2> SUFFICES ASSUME TypeOK, FiniteBalance, FeeAlwaysPayable, Solvent, [Next]_vars,
                        TypeOK', FiniteBalance', NEW token \in Token
                 PROVE  Surplus(token)' >= 0
        BY DEF Solvent
    <2>1. Surplus(token) \in Int
        BY SurplusType
    <2>2. Surplus(token)' \in Int
        BY SurplusTypeNext
    <2> QED
        BY <2>1, <2>2, StepSurplus DEF Solvent
<1>3. TypeOK /\ FeeAlwaysPayable /\ FiniteBalance /\ [Next]_vars
         => TypeOK' /\ FiniteBalance'
    BY NextTypeOK, StepSurplus
<1> QED
    BY <1>1, <1>2, <1>3, TypeCorrectness, FeePayability, FiniteBalanceInvariance, PTL
    DEF Spec

\* No step lowers the surplus of a token, and one that changes a credit keeps
\* it: what the contract comes to owe it takes in, and what it pays it owed.
THEOREM SurplusPreservation == Spec => SurplusPreserved
<1>1. TypeOK /\ FiniteBalance /\ FeeAlwaysPayable /\ [Next]_vars
         => [\A token \in Token :
                /\ Surplus(token)' >= Surplus(token)
                /\ Balance' # Balance => Surplus(token)' = Surplus(token)]_vars
    BY StepSurplus
<1> QED
    BY <1>1, TypeCorrectness, FeePayability, FiniteBalanceInvariance, PTL
    DEF Spec, SurplusPreserved

\* The contract can pay any single credit, beside all others.
LEMMA CreditCovered ==
    ASSUME TypeOK, FiniteBalance, NEW creator \in Account, NEW token \in Token,
           Surplus(token) >= 0
    PROVE  get_balance(creator, token) <= tokenBalance[<<Contract, token>>]
<1>1. get_balance(creator, token) <= Credits(token)
    BY BalanceLedger, CreditsRead, CreditInSum DEF get_balance
<1>2. Credits(token) <= tokenBalance[<<Contract, token>>]
    BY BalanceLedger, CreditsRead DEF Surplus
<1>3. get_balance(creator, token) \in Nat
    BY CreditType
<1> QED
    BY <1>1, <1>2, <1>3, BalanceLedger, CreditsRead

------------------------------------------------------------------------------
(* Credits can be withdrawn, and who is owed nothing can leave.            *)

\* A credit that the contract can pay passes every check of withdraw, as far
\* as the contract is not paused.
LEMMA CreditPayable ==
    ASSUME TypeOK, NoStrandedCredit, check_initialized_and_not_paused,
           NEW creator \in Account, NEW token \in Token,
           get_balance(creator, token) <= tokenBalance[<<Contract, token>>],
           NEW amount \in 1 .. get_balance(creator, token)
    PROVE  CanWithdraw(creator, token, amount)
<1>1. /\ get_balance(creator, token) \in Nat
      /\ tokenBalance[<<Contract, token>>] \in Nat
      /\ amount \in Nat /\ 0 < amount /\ amount <= get_balance(creator, token)
    <2>1. get_balance(creator, token) \in Nat
        BY CreditType
    <2> QED
        BY <2>1, AddressAssumption DEF TypeOK, FundsTypeOK, Address
<1>2. is_creator(creator) /\ token \in get_all_tokens(creator)
    <2>1. get_balance(creator, token) > 0
        BY <1>1
    <2> QED
        BY <2>1 DEF NoStrandedCredit
<1>3. creator \in DOMAIN CreatorTokens
    BY <1>2 DEF get_all_tokens, GetOr
<1>4. CanTransfer(tokenBalance, token, Contract, amount)
    BY <1>1 DEF CanTransfer
<1>5. WithdrawAccepted(creator, token, amount)
    BY <1>1, <1>2, <1>3 DEF WithdrawAccepted, SufficientBalance, is_creator
<1> QED
    BY <1>4, <1>5 DEF CanWithdraw

\* Whatever has been called before, no check refuses a creator any part of a
\* credit and the transfer finds the tokens, for any number of creators, tokens
\* and supporters: the contract is solvent and the credit's owner is tracked.
THEOREM CreditWithdrawal == Spec => []CreditWithdrawable
<1>1. TypeOK /\ FiniteBalance /\ Solvent /\ NoStrandedCredit => CreditWithdrawable
    BY CreditCovered, CreditPayable DEF CreditWithdrawable, Solvent
<1> QED
    BY <1>1, TypeCorrectness, FiniteBalanceInvariance, Solvency, CreditSafety, PTL

\* The tokens unregister looks at are all tokens with a credit.
LEMMA SettledCanExit == TypeOK /\ NoStrandedCredit => ExitIffSettled
<1> SUFFICES ASSUME TypeOK, NoStrandedCredit, check_initialized_and_not_paused,
                    NEW creator \in DOMAIN Profile
             PROVE  CanUnregister(creator)
                       <=> \A token \in Token : get_balance(creator, token) = 0
    BY DEF ExitIffSettled
<1>1. creator \in Account
    BY DEF TypeOK, RegistryTypeOK, MapOf
<1>2. \A token \in Token : get_balance(creator, token) \in Nat
    BY <1>1, CreditType
<1>3. get_all_tokens(creator) \subseteq Token
    BY DEF get_all_tokens, GetOr, TypeOK, FundsTypeOK, MapOf
<1>4. \A token \in Token : get_balance(creator, token) > 0
                              => token \in get_all_tokens(creator)
    BY <1>1 DEF NoStrandedCredit
<1>5. TrackedBalancesZero(creator)
         <=> \A token \in Token : get_balance(creator, token) = 0
    BY <1>2, <1>3, <1>4 DEF TrackedBalancesZero
<1> QED
    BY <1>5 DEF CanUnregister

\* Unless the contract is paused, a creator can unregister exactly when it is owed
\* nothing in any token, however it came by its credits and left-over entries.
THEOREM ExitRule == Spec => []ExitIffSettled
BY SettledCanExit, TypeCorrectness, CreditSafety, PTL

------------------------------------------------------------------------------
(* Credits leave to their owner.                                           *)

\* Only withdraw lowers a credit, and it transfers what it takes off to the
\* creator whose credit it is.
THEOREM CreditOwnership == Spec => CreditLeavesToOwner
<1> DEFINE Paid(creator, token) ==
              get_balance(creator, token)' < get_balance(creator, token) =>
                 tokenBalance'[<<creator, token>>] - tokenBalance[<<creator, token>>]
                    = get_balance(creator, token) - get_balance(creator, token)'
<1>1. ASSUME TypeOK, [Next]_vars, NEW creator \in Account, NEW token \in Token
      PROVE  Paid(creator, token)
    <2>1. get_balance(creator, token) \in Nat
        BY <1>1, CreditType
    <2>2. ASSUME UNCHANGED Balance
          PROVE  Paid(creator, token)
        BY <2>1, <2>2 DEF get_balance
    <2>3. ASSUME NEW from \in Account, NEW receiver \in Account, NEW asset \in Token,
                 NEW amount \in Amount, tip(from, receiver, asset, amount)
          PROVE  Paid(creator, token)
        <3>1. CreatorAmount(amount, FeeOf(amount)) \in Nat
            <4>1. amount \in Nat /\ FeeOf(amount) \in 0 .. amount
                BY <1>1, <2>3, FeeBounds, NumberAssumption
                DEF tip, CanTip, TipAccepted, TipBooked, MeetsMinimum, FeeOf, TypeOK, ConfigTypeOK
            <4> QED
                BY <4>1 DEF CreatorAmount
        <3>2. get_balance(creator, token)' >= get_balance(creator, token)
            BY <2>1, <2>3, <3>1, TipEffect
        <3> QED
            BY <2>1, <3>1, <3>2, <2>3, TipEffect
    <2>4. ASSUME NEW caller \in Account, NEW asset \in Token, NEW amount \in Amount,
                 withdraw(caller, asset, amount)
          PROVE  Paid(creator, token)
        <3>1. amount \in Int /\ tokenBalance \in [Address \X Token -> Nat]
            BY <1>1, NumberAssumption DEF TypeOK, FundsTypeOK
        <3>2. CASE creator = caller /\ token = asset
            <4>1. Wallet'[<<creator, token>>] = Wallet[<<creator, token>>] + amount
                BY <1>1, <2>4, <3>2, WithdrawMoves
            <4>2. tokenBalance'[<<creator, token>>]
                     = tokenBalance[<<creator, token>>] + amount
                BY <4>1 DEF Wallet
            <4>3. get_balance(creator, token)' = get_balance(creator, token) - amount
                BY <1>1, <2>4, <3>2, WithdrawEffect
            <4>4. tokenBalance[<<creator, token>>] \in Nat
                BY <3>1 DEF Address
            <4> QED
                BY <2>1, <3>1, <4>2, <4>3, <4>4
        <3>3. CASE ~(creator = caller /\ token = asset)
            <4>1. get_balance(creator, token)' = get_balance(creator, token)
                BY <1>1, <2>4, <3>3, WithdrawEffect
            <4> QED
                BY <2>1, <4>1
        <3> QED
            BY <3>2, <3>3
    <2>5. CASE MoneyStep
        BY <2>2, <2>3, <2>4, <2>5 DEF MoneyStep, direct_transfer
    <2> QED
        BY <1>1, <2>2, <2>5, StepKinds, AdminFrame
        DEF register, update_profile, unregister, vars, funds
<1>2. TypeOK /\ [Next]_vars
         => \A creator \in Account, token \in Token : Paid(creator, token)
    BY <1>1
<1>3. TypeOK /\ [Next]_vars
         => [\A creator \in Account, token \in Token : Paid(creator, token)]_vars
    BY <1>2
<1> QED
    BY <1>3, TypeCorrectness, PTL DEF Spec, CreditLeavesToOwner

==============================================================================
