---------------------------- MODULE StorageLifetime ----------------------------
(***************************************************************************)
(* How long the entries of the StellarTip contract stay in the ledger.     *)
(*                                                                         *)
(* The instance entry holds all instance keys; every persistent key is an  *)
(* entry of its own.  Each has a number of ledgers left; at 0 it is        *)
(* archived, and until somebody restores it every invocation with the      *)
(* entry in its footprint fails.  A key that has no entry costs nothing.   *)
(***************************************************************************)
EXTENDS StellarTip

CONSTANTS
    TTL_THRESHOLD,  \* an entry with no more ledgers left than this is extended
    TTL_EXTEND,     \* to this many
    MIN_TTL         \* network setting: ledgers of a new or restored entry

ASSUME LifetimeAssumption ==
    /\ TTL_THRESHOLD \in Nat
    /\ TTL_EXTEND \in Nat
    /\ MIN_TTL \in Nat \ {0}
    /\ TTL_THRESHOLD < TTL_EXTEND

VARIABLES
    instanceLife,       \* ledgers left of the instance entry
    TipCountLife,       \* as TipCount, Balance, CreatorTokens and Tip, with
    BalanceLife,        \*   the ledgers left of each entry for its value
    CreatorTokensLife,
    TipLife,
    sinceCredit         \* history: <<creator, token>> |-> ledgers since the last
                        \*   tip, counted up to TTL_THRESHOLD + 1

entryLife == <<TipCountLife, BalanceLife, CreatorTokensLife, TipLife>>
lifetime == <<instanceLife, entryLife, sinceCredit>>
lifetimeVars == <<vars, lifetime>>

Recent == 0 .. TTL_THRESHOLD

------------------------------------------------------------------------------
(* The host's rules.                                                       *)

Live(map, key) == key \in DOMAIN map => map[key] > 0

extend_ttl(left) == IF left <= TTL_THRESHOLD THEN TTL_EXTEND ELSE left

FaultSetOnly(map, key) == Put(map, key, GetOr(map, key, MIN_TTL))

\* set followed by extend_persistent_ttl; set alone gives a new entry MIN_TTL.
SetExtended(map, key) == Put(map, key, extend_ttl(GetOr(map, key, MIN_TTL)))

OneLedgerOlder(left) == IF left > 0 THEN left - 1 ELSE 0

Older(map) == [key \in DOMAIN map |-> OneLedgerOlder(map[key])]

\* Every entry point that succeeds extends the instance entry.
extend_instance_ttl ==
    /\ instanceLife > 0
    /\ instanceLife' = extend_ttl(instanceLife)

------------------------------------------------------------------------------
(* The entry points with their footprints.                                 *)

\* init, the setters and update_profile use instance keys only.
InstanceCall(caller) ==
    /\ AdminStep(caller) \/ \E text \in Text : update_profile(caller, text)
    /\ extend_instance_ttl
    /\ UNCHANGED <<entryLife, sinceCredit>>

lasting_register(caller, username, text) ==
    /\ register(caller, username, text)
    /\ extend_instance_ttl
    /\ Live(TipCountLife, caller)
    /\ TipCountLife' = SetExtended(TipCountLife, caller)
    /\ UNCHANGED <<BalanceLife, CreatorTokensLife, TipLife, sinceCredit>>

lasting_unregister(caller) ==
    /\ unregister(caller)
    /\ extend_instance_ttl
    /\ Live(CreatorTokensLife, caller)
    /\ \A token \in get_all_tokens(caller) : Live(BalanceLife, <<caller, token>>)
    /\ Live(TipCountLife, caller)
    /\ CreatorTokensLife' = Remove(CreatorTokensLife, caller)
    /\ TipCountLife' = Remove(TipCountLife, caller)
    /\ UNCHANGED <<BalanceLife, TipLife, sinceCredit>>

FaultTokensExtendedIfNew(creator, token) ==
    IF token \in get_all_tokens(creator)
    THEN CreatorTokensLife
    ELSE SetExtended(CreatorTokensLife, creator)

\* tip extends the token set also when the token is in it already.
TokensLifeAfterTip(creator, token) == SetExtended(CreatorTokensLife, creator)

FaultCountNotExtended(creator) == TipCountLife

TipCountLifeAfterTip(creator) == SetExtended(TipCountLife, creator)

\* The record is written at index TipCount, where an earlier registration may
\* have left one.
TipReadable(creator, token) ==
    /\ Live(TipCountLife, creator)
    /\ Live(BalanceLife, <<creator, token>>)
    /\ Live(CreatorTokensLife, creator)
    /\ Live(TipLife, <<creator, get_tip_count(creator)>>)

lasting_tip(from, creator, token, amount) ==
    /\ tip(from, creator, token, amount)
    /\ extend_instance_ttl
    /\ TipReadable(creator, token)
    /\ BalanceLife' = SetExtended(BalanceLife, <<creator, token>>)
    /\ CreatorTokensLife' = TokensLifeAfterTip(creator, token)
    /\ TipLife' = SetExtended(TipLife, <<creator, RecordIndex(get_tip_count(creator))>>)
    /\ TipCountLife' = TipCountLifeAfterTip(creator)
    /\ sinceCredit' = [sinceCredit EXCEPT ![<<creator, token>>] = 0]

FaultRemainderNotExtended(caller, token, remaining) ==
    IF remaining > 0 THEN BalanceLife ELSE Remove(BalanceLife, <<caller, token>>)

BalanceLifeAfterWithdraw(caller, token, remaining) ==
    IF remaining > 0
    THEN SetExtended(BalanceLife, <<caller, token>>)
    ELSE Remove(BalanceLife, <<caller, token>>)

\* A token set that is neither written nor needed for a remainder is not
\* extended.
TokensLifeAfterWithdraw(caller, token, remaining) ==
    CASE remaining > 0 -> SetExtended(CreatorTokensLife, caller)
      [] remaining <= 0 /\ token \notin get_all_tokens(caller) -> CreatorTokensLife
      [] OTHER -> IF get_all_tokens(caller) \ {token} = {}
                  THEN Remove(CreatorTokensLife, caller)
                  ELSE SetExtended(CreatorTokensLife, caller)

WithdrawReadable(caller, token) ==
    /\ Live(BalanceLife, <<caller, token>>)
    /\ Live(CreatorTokensLife, caller)

lasting_withdraw(caller, token, amount) ==
    LET remaining == get_balance(caller, token) - amount
    IN  /\ withdraw(caller, token, amount)
        /\ extend_instance_ttl
        /\ WithdrawReadable(caller, token)
        /\ BalanceLife' = BalanceLifeAfterWithdraw(caller, token, remaining)
        /\ CreatorTokensLife' = TokensLifeAfterWithdraw(caller, token, remaining)
        /\ UNCHANGED <<TipCountLife, TipLife, sinceCredit>>

------------------------------------------------------------------------------
(* External: the ledger closes, and anyone restores an archived entry.     *)

LedgerCloses ==
    /\ instanceLife' = OneLedgerOlder(instanceLife)
    /\ TipCountLife' = Older(TipCountLife)
    /\ BalanceLife' = Older(BalanceLife)
    /\ CreatorTokensLife' = Older(CreatorTokensLife)
    /\ TipLife' = Older(TipLife)
    /\ sinceCredit' = [key \in DOMAIN sinceCredit |->
                          IF sinceCredit[key] \in Recent
                          THEN sinceCredit[key] + 1 ELSE sinceCredit[key]]
    /\ UNCHANGED vars

\* One entry of a key's entries, or none.
Restored(map) ==
    {map} \cup {[map EXCEPT ![key] = MIN_TTL] : key \in {k \in DOMAIN map : map[k] = 0}}

restore ==
    /\ instanceLife' = IF instanceLife = 0 THEN MIN_TTL ELSE instanceLife
    /\ TipCountLife' \in Restored(TipCountLife)
    /\ BalanceLife' \in Restored(BalanceLife)
    /\ CreatorTokensLife' \in Restored(CreatorTokensLife)
    /\ TipLife' \in Restored(TipLife)
    /\ UNCHANGED <<vars, sinceCredit>>

LifetimeInit ==
    /\ Init
    /\ instanceLife = MIN_TTL
    /\ TipCountLife = EmptyMap
    /\ BalanceLife = EmptyMap
    /\ CreatorTokensLife = EmptyMap
    /\ TipLife = EmptyMap
    /\ sinceCredit = [key \in Account \X Token |-> TTL_THRESHOLD + 1]

LifetimeNext ==
    \/ \E caller \in Account :
          \/ InstanceCall(caller)
          \/ \E username \in Username, text \in Text :
                lasting_register(caller, username, text)
          \/ lasting_unregister(caller)
          \/ \E creator \in Account, token \in Token, amount \in Amount :
                lasting_tip(caller, creator, token, amount)
          \/ \E token \in Token, amount \in Amount :
                lasting_withdraw(caller, token, amount)
    \/ LedgerCloses
    \/ restore

LifetimeSpec == LifetimeInit /\ [][LifetimeNext]_lifetimeVars

------------------------------------------------------------------------------
(* Properties.                                                             *)

\* For TTL_THRESHOLD ledgers after a tip nothing the creator needs is archived,
\* whatever is withdrawn and however often it leaves and comes back: neither
\* the instance, nor the count, nor the credit of the token, nor the token set.
RecentlyTippedLive ==
    \A creator \in DOMAIN Profile, token \in Token :
        sinceCredit[<<creator, token>>] \in Recent =>
            /\ instanceLife > 0
            /\ Live(TipCountLife, creator)
            /\ Live(BalanceLife, <<creator, token>>)
            /\ Live(CreatorTokensLife, creator)

\* So a credit can be withdrawn without restoring anything for TTL_THRESHOLD
\* ledgers after any tip in its token.
RecentCreditWithdrawable ==
    check_initialized_and_not_paused =>
        \A creator \in Account, token \in Token :
            sinceCredit[<<creator, token>>] \in Recent =>
                \A amount \in 1 .. get_balance(creator, token) :
                    /\ CanWithdraw(creator, token, amount)
                    /\ instanceLife > 0 /\ WithdrawReadable(creator, token)

\* A tip the contract would accept for a creator tipped that recently is held
\* up by archival in two ways only: the credit of another token, and a record
\* left over from an earlier registration at the index it would write.
TipHeldUpByOldEntriesOnly ==
    \A creator \in Account, token, other \in Token, from \in Account, amount \in Amount :
        /\ sinceCredit[<<creator, other>>] \in Recent
        /\ CanTip(from, creator, token, amount)
        /\ ~(instanceLife > 0 /\ TipReadable(creator, token))
        => \/ token # other /\ ~Live(BalanceLife, <<creator, token>>)
           \/ ~Live(TipLife, <<creator, get_tip_count(creator)>>)

\* Keys of nextMap that are new or whose value differs from that in map.
Written(map, nextMap) ==
    {key \in DOMAIN nextMap : key \notin DOMAIN map \/ map[key] # nextMap[key]}

\* A value that changes, or a new one, is kept for at least TTL_THRESHOLD more
\* ledgers: every write of a persistent entry is followed by its extension.
WritesOutliveThreshold ==
    [][/\ \A key \in Written(TipCount, TipCount') :
             TipCountLife'[key] > TTL_THRESHOLD
       /\ \A key \in Written(Balance, Balance') :
             BalanceLife'[key] > TTL_THRESHOLD
       /\ \A key \in Written(CreatorTokens, CreatorTokens') :
             CreatorTokensLife'[key] > TTL_THRESHOLD
       /\ \A key \in Written(Tip, Tip') :
             TipLife'[key] > TTL_THRESHOLD]_lifetimeVars

==============================================================================
