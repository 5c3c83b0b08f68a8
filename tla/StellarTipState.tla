--------------------------- MODULE StellarTipState ---------------------------
(***************************************************************************)
(* The storage of the StellarTip contract, the balances of the external    *)
(* token contracts it moves, and the read-only views.                      *)
(*                                                                         *)
(* Every DataKey of the contract is a variable of the same name.  A key    *)
(* with arguments is a partial function whose DOMAIN is the set of entries *)
(* present in storage, so an entry that holds 0 and an entry that was      *)
(* removed are different states.  A key without arguments that has not     *)
(* been written yet holds the default its readers fall back to.            *)
(***************************************************************************)
EXTENDS Integers, FiniteSets

CONSTANTS
    Account,         \* addresses whose owner can sign a transaction
    Contract,        \* the contract's own address; it signs nothing
    ZeroAddress,     \* the all-zero Stellar address; nobody can sign for it
    None,            \* an Option::None
    Username,        \* usernames (Symbol)
    Text,            \* contents of display name and biography together
    LongText,        \* those over the length limits
    Token,           \* addresses of token contracts
    Amount,          \* amounts callers pass to tip and withdraw
    FeeInput,        \* fee_bps values callers pass
    CapInput,        \* cap values callers pass
    MinInput,        \* min_tip_amount values callers pass
    AdminInput,      \* addresses passed as new_admin
    RecipientInput,  \* addresses passed as fee_recipient
    DepositTarget,   \* receivers of token transfers made outside the contract
    Supply,          \* what every account holds of every token at the start
    MAX_U32,         \* largest u32: creator count
    MAX_U64,         \* largest u64: tip index
    MAX_I128         \* largest i128: amounts, products, credits

MAX_FEE_BPS == 10000

Address == Account \cup {Contract, ZeroAddress}

\* What the type of every argument and the host's address rules say of the
\* parameters: three kinds of address, unsigned integers, signed amounts.
ASSUME AddressAssumption ==
    /\ Contract \notin Account
    /\ ZeroAddress \notin Account
    /\ Contract # ZeroAddress
    /\ None \notin Address
    /\ AdminInput \subseteq Address
    /\ RecipientInput \subseteq Address
    /\ DepositTarget \subseteq Address
    /\ LongText \subseteq Text

ASSUME NumberAssumption ==
    /\ Amount \subseteq Int
    /\ FeeInput \subseteq Nat
    /\ CapInput \subseteq Nat
    /\ MinInput \subseteq Int
    /\ Supply \in Nat
    /\ MAX_U32 \in Nat
    /\ MAX_U64 \in Nat
    /\ MAX_I128 \in Nat

VARIABLES
    Admin, FeeRecipient, FeeBps, Paused,
    MaxCreators, MaxTipsPerCreator, MinTipAmount,
    CreatorCount,
    Profile,            \* address |-> its profile
    UsernameToAddress,  \* username |-> the address that owns it
    TipCount,           \* creator |-> length of the live tip history
    Balance,            \* <<creator, token>> |-> credit not yet withdrawn
    CreatorTokens,      \* creator |-> tokens tracked for unregister
    Tip,                \* <<creator, index>> |-> tip record
    tokenBalance        \* external: <<address, token>> |-> tokens held

config == <<Admin, FeeRecipient, FeeBps, Paused,
            MaxCreators, MaxTipsPerCreator, MinTipAmount>>
registry == <<CreatorCount, Profile, UsernameToAddress>>
funds == <<TipCount, Balance, CreatorTokens, Tip, tokenBalance>>
vars == <<config, registry, funds>>

------------------------------------------------------------------------------
(* Storage entries: set, remove, and get(..).unwrap_or(default).           *)

Put(map, key, value) ==
    [k \in DOMAIN map \cup {key} |-> IF k = key THEN value ELSE map[k]]

Remove(map, key) == [k \in DOMAIN map \ {key} |-> map[k]]

GetOr(map, key, default) == IF key \in DOMAIN map THEN map[key] ELSE default

EmptyMap == [k \in {} |-> k]

\* map's keys are in K and its values in R.
MapOf(map, K, R) == DOMAIN map \subseteq K /\ map \in [DOMAIN map -> R]

------------------------------------------------------------------------------
(* The token contract's transfer, seen from the balances alone: it traps   *)
(* when the sender holds too little, otherwise moves exactly the amount.   *)
(* What else a token may refuse (a frozen holding, a missing trustline,    *)
(* its issuer's rules) is the subject of TokenRejections.                  *)

CanTransfer(held, token, src, amount) == held[<<src, token>>] >= amount

Transferred(held, token, src, dst, amount) ==
    LET paid == [held EXCEPT ![<<src, token>>] = @ - amount]
    IN  [paid EXCEPT ![<<dst, token>>] = @ + amount]

------------------------------------------------------------------------------
(* The view entry points a property or another module reads.               *)

get_profile(address) == GetOr(Profile, address, None)

is_creator(address) == address \in DOMAIN Profile

get_creator_from_username(username) == GetOr(UsernameToAddress, username, None)

get_profile_by_username(username) ==
    GetOr(Profile, get_creator_from_username(username), None)

is_username_taken(username) == username \in DOMAIN UsernameToAddress

get_balance(creator, token) == GetOr(Balance, <<creator, token>>, 0)

get_tip_count(creator) == GetOr(TipCount, creator, 0)

get_tip(creator, index) == GetOr(Tip, <<creator, index>>, None)

get_all_tokens(creator) == GetOr(CreatorTokens, creator, {})

\* The sum that ends a page is checked: it traps when it is no u64.
get_tipsTraps(start, limit) == start + limit > MAX_U64

\* The indices whose records get_tips returns, in ascending order.
get_tips_indices(creator, start, limit) ==
    IF get_tipsTraps(start, limit)
    THEN None
    ELSE {i \in start .. start + limit - 1 :
             i < get_tip_count(creator) /\ <<creator, i>> \in DOMAIN Tip}

==============================================================================
