------------------------- MODULE StellarTipProperties -------------------------
(***************************************************************************)
(* What the StellarTip contract promises its creators, supporters and      *)
(* administrator, and the statements of its documentation that the code    *)
(* does not keep (last section).                                           *)
(***************************************************************************)
EXTENDS StellarTip, FiniteSetsExt

ConfigTypeOK ==
    /\ Admin \in Address \cup {None}
    /\ FeeRecipient \in Address \cup {None}
    /\ FeeBps \in 0 .. MAX_FEE_BPS
    /\ Paused \in BOOLEAN
    /\ MaxCreators \in Nat
    /\ MaxTipsPerCreator \in Nat
    /\ MinTipAmount \in Nat

RegistryTypeOK ==
    /\ CreatorCount \in 0 .. MAX_U32
    /\ MapOf(Profile, Account, [username : Username, text : Text])
    /\ MapOf(UsernameToAddress, Username, Account)

FundsTypeOK ==
    /\ MapOf(TipCount, Account, 0 .. MAX_U64)
    /\ MapOf(Balance, Account \X Token, 0 .. MAX_I128)
    /\ MapOf(CreatorTokens, Account, SUBSET Token)
    /\ MapOf(Tip, Account \X (0 .. MAX_U64),
             [from : Account, token : Token, amount : Int])
    /\ tokenBalance \in [Address \X Token -> Nat]

\* The types of all storage keys: which addresses, indices and amounts can
\* occur in each of them; no credit is negative and none outgrows an i128.
TypeOK == ConfigTypeOK /\ RegistryTypeOK /\ FundsTypeOK

------------------------------------------------------------------------------
(* Registry.                                                               *)

\* Profile and UsernameToAddress are inverse to each other, so every creator
\* is found under its own username and no username leads to a former creator:
\* register, update_profile and unregister write the two keys separately.
RegistryConsistent ==
    /\ \A creator \in DOMAIN Profile :
          get_creator_from_username(Profile[creator].username) = creator
    /\ \A username \in DOMAIN UsernameToAddress :
          /\ is_creator(UsernameToAddress[username])
          /\ Profile[UsernameToAddress[username]].username = username

\* The counter the creator cap is enforced with is the number of profiles,
\* however registrations, exits, pauses and init interleave.
CreatorCountExact == CreatorCount = Cardinality(DOMAIN Profile)

\* A count that grows was allowed to by the cap in force: register for the
\* creator count, tip for a creator's history.  (Lowering a cap below the
\* count is allowed, so the count itself has no such bound.)
CapsBoundGrowth ==
    [][/\ CreatorCount' > CreatorCount =>
             MaxCreators = 0 \/ CreatorCount' <= MaxCreators
       /\ \A creator \in DOMAIN TipCount :
             get_tip_count(creator)' > get_tip_count(creator) =>
                \/ MaxTipsPerCreator = 0
                \/ get_tip_count(creator)' <= MaxTipsPerCreator]_vars

\* A creator can leave exactly when it is owed nothing in any token, although
\* unregister looks only at the tokens it tracks.
ExitIffSettled ==
    \A creator \in DOMAIN Profile :
        check_initialized_and_not_paused =>
            (CanUnregister(creator)
                <=> \A token \in Token : get_balance(creator, token) = 0)

------------------------------------------------------------------------------
(* Tip history.                                                            *)

\* TipCount exists for the registered creators and no others, and no page of
\* get_tips has a hole: it holds a record at every index below TipCount from
\* start on, limit of them if there are as many, or the call traps because
\* start + limit is no u64; never is a page answered that is short of a record.
HistoryContiguous ==
    /\ DOMAIN TipCount = DOMAIN Profile
    /\ \A creator \in DOMAIN TipCount, start, limit \in 0 .. MAX_U64 :
          get_tips_indices(creator, start, limit) =
             IF start + limit > MAX_U64 THEN None
             ELSE {i \in 0 .. TipCount[creator] - 1 : start <= i /\ i < start + limit}

\* While a creator stays registered, tips only append to its history: no
\* record below TipCount changes and TipCount does not decrease.
LiveHistoryImmutable ==
    [][\A creator \in DOMAIN TipCount :
          creator \in DOMAIN TipCount' =>
             /\ TipCount'[creator] >= TipCount[creator]
             /\ \A i \in 0 .. TipCount[creator] - 1 :
                   get_tip(creator, i)' = get_tip(creator, i)]_vars

------------------------------------------------------------------------------
(* Money.                                                                  *)

\* Whoever is owed something is registered, and the token is tracked: withdraw
\* passes its CreatorNotFound check and finds the CreatorTokens entry whose TTL
\* it extends, and unregister sees the credit.
NoStrandedCredit ==
    \A creator \in Account, token \in Token :
        get_balance(creator, token) > 0 =>
            /\ is_creator(creator)
            /\ token \in get_all_tokens(creator)

\* Only registered creators have a CreatorTokens entry; it is never empty, and
\* every token in it has a Balance entry.
TrackedTokensBacked ==
    \A creator \in DOMAIN CreatorTokens :
        /\ is_creator(creator)
        /\ CreatorTokens[creator] # {}
        /\ \A token \in CreatorTokens[creator] :
              <<creator, token>> \in DOMAIN Balance

Credits(token) ==
    MapThenSumSet(LAMBDA key : Balance[key],
                  {key \in DOMAIN Balance : key[2] = token})

Surplus(token) == tokenBalance[<<Contract, token>>] - Credits(token)

\* The contract holds at least what it owes, token by token.
Solvent == \A token \in Token : Surplus(token) >= 0

\* An entry point that changes what the contract owes changes what it holds by
\* the same amount, and nothing takes away from the surplus that direct
\* transfers may have left: fees are paid from the tip they are charged on.
SurplusPreserved ==
    [][\A token \in Token :
          /\ Surplus(token)' >= Surplus(token)
          /\ Balance' # Balance => Surplus(token)' = Surplus(token)]_vars

\* Unless paused, any part of a credit can be withdrawn at once: no sequence of
\* other calls makes withdraw fail or trap for a creator that is owed money.
CreditWithdrawable ==
    check_initialized_and_not_paused =>
        \A creator \in Account, token \in Token :
            \A amount \in 1 .. get_balance(creator, token) :
                CanWithdraw(creator, token, amount)

\* A credit shrinks only when its owner receives the difference.
CreditLeavesToOwner ==
    [][\A creator \in Account, token \in Token :
          get_balance(creator, token)' < get_balance(creator, token) =>
             tokenBalance'[<<creator, token>>] - tokenBalance[<<creator, token>>]
                = get_balance(creator, token) - get_balance(creator, token)']_vars

Appended(creator) ==
    creator \in DOMAIN TipCount /\ get_tip_count(creator)' > get_tip_count(creator)

\* A recorded tip moved exactly its amount: the supporter paid it, the fee
\* recipient got the floor of its share, the creator was credited the rest,
\* also when supporter, creator and fee recipient are the same address; and
\* the amount met the minimum in force.
TipSettlesExactly ==
    [][\A creator \in Account, token \in Token :
          LET index == get_tip_count(creator)
              record == Tip'[<<creator, index>>]
              credited == get_balance(creator, token)' - get_balance(creator, token)
              fee == record.amount - credited
              Gain(address) == tokenBalance'[<<address, token>>]
                                  - tokenBalance[<<address, token>>]
          IN  Appended(creator) /\ record.token = token =>
                 /\ record.amount >= 1 /\ record.amount >= MinTipAmount
                 /\ fee * MAX_FEE_BPS <= record.amount * FeeBps
                 /\ record.amount * FeeBps < (fee + 1) * MAX_FEE_BPS
                 /\ \A address \in Address :
                       Gain(address) =
                          (IF address = Contract THEN credited ELSE 0)
                          + (IF address = FeeRecipient THEN fee ELSE 0)
                          - (IF address = record.from THEN record.amount ELSE 0)]_vars

------------------------------------------------------------------------------
(* Administration.                                                         *)

\* Once initialized there is always a fee recipient, and it is not the
\* contract: FeeRecipientNotSet cannot be reached, and a forwarded fee leaves.
FeeAlwaysPayable == Admin # None => FeeRecipient \notin {None, Contract}

\* Initialization is final: the contract never loses its administrator, not to
\* the zero address either, and a change of administrator changes nothing else
\* (a second init would).  In the hands of an address that cannot sign, the
\* contract's own for one, the configuration is as it is for good.
AdminSuccession ==
    [][Admin # None =>
          /\ Admin' \notin {None, ZeroAddress}
          /\ Admin \notin Account => UNCHANGED config
          /\ Admin' # Admin => UNCHANGED <<FeeRecipient, FeeBps, Paused,
                                  MaxCreators, MaxTipsPerCreator, MinTipAmount,
                                  registry, funds>>]_vars

\* Before init and while paused, no user entry point changes anything the
\* contract stores about creators, credits and tips.
PausedFreezesUsers ==
    [][Paused \/ Admin = None =>
          UNCHANGED <<registry, TipCount, Balance, CreatorTokens, Tip>>]_vars

------------------------------------------------------------------------------
(* Statements of the documentation that the code does not keep.            *)

\* README.md:19, "every tip is permanently recorded": no stored record is ever
\* overwritten.
TipHistoryPermanent ==
    [][\A key \in DOMAIN Tip : key \in DOMAIN Tip' /\ Tip'[key] = Tip[key]]_vars

\* docs/API_REFERENCE.md:144, unregister removes "all Balance(caller, _)
\* entries": an address that is not registered has none.
UnregisterPurgesBalances ==
    \A key \in DOMAIN Balance : is_creator(key[1])

==============================================================================
