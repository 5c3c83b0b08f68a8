------------------------------ MODULE StellarTip ------------------------------
(***************************************************************************)
(* The StellarTip contract: one action per state-changing entry point.     *)
(*                                                                         *)
(* The host runs an invocation as one transaction: a panic in the contract *)
(* or a trap in a token contract it calls discards every effect.  So an    *)
(* action is a whole invocation that succeeds, its guard conjoins every    *)
(* check on the way, and a failing invocation is no step at all.           *)
(* require_auth makes the first argument of every entry point an address   *)
(* that can sign, a member of Account.                                     *)
(*                                                                         *)
(* An operator whose name starts with Fault is no part of the contract: it *)
(* is a wrong version of the definition below it, kept so that the         *)
(* properties can be seen to fail on it.                                   *)
(***************************************************************************)
EXTENDS StellarTipState

Init ==
    /\ Admin = None
    /\ FeeRecipient = None
    /\ FeeBps = 0
    /\ Paused = FALSE
    /\ MaxCreators = 0
    /\ MaxTipsPerCreator = 0
    /\ MinTipAmount = 0
    /\ CreatorCount = 0
    /\ Profile = EmptyMap
    /\ UsernameToAddress = EmptyMap
    /\ TipCount = EmptyMap
    /\ Balance = EmptyMap
    /\ CreatorTokens = EmptyMap
    /\ Tip = EmptyMap
    /\ tokenBalance = [h \in Address \X Token |->
                          IF h[1] \in Account THEN Supply ELSE 0]

------------------------------------------------------------------------------
(* Guards shared by several entry points.                                  *)

FaultNoPauseCheck == Admin # None

check_initialized_and_not_paused == Admin # None /\ ~Paused

FaultAnyCaller(caller) == Admin # None

AuthorizedAdmin(caller) == Admin # None /\ caller = Admin

validate_input(text) == text \notin LongText

\* A cap of 0 is disabled; otherwise there must be room for one more.
FaultCapOffByOne(cap, count) == cap = 0 \/ count <= cap

UnderCap(cap, count) == cap = 0 \/ count < cap

------------------------------------------------------------------------------
(* Administration.                                                         *)

FaultReinit(caller) == ~Paused

NotYetInitialized(caller) == Admin = None

FaultFeeUnchecked(bps) == TRUE

ValidFee(bps) == bps <= MAX_FEE_BPS

FaultRecipientUnchecked(recipient) == TRUE

ValidFeeRecipient(recipient) == recipient # Contract

init(caller, recipient, bps, maxCreators, maxTips, minTip) ==
    /\ NotYetInitialized(caller)
    /\ ValidFee(bps)
    /\ minTip >= 0
    /\ ValidFeeRecipient(recipient)
    /\ Admin' = caller
    /\ FeeRecipient' = recipient
    /\ FeeBps' = bps
    /\ Paused' = FALSE
    /\ MaxCreators' = maxCreators
    /\ MaxTipsPerCreator' = maxTips
    /\ MinTipAmount' = minTip
    /\ CreatorCount' = 0
    /\ UNCHANGED <<Profile, UsernameToAddress, funds>>

set_admin(caller, newAdmin) ==
    /\ AuthorizedAdmin(caller)
    /\ newAdmin \notin {caller, ZeroAddress}
    /\ Admin' = newAdmin
    /\ UNCHANGED <<FeeRecipient, FeeBps, Paused, MaxCreators,
                   MaxTipsPerCreator, MinTipAmount, registry, funds>>

pause(caller) ==
    /\ AuthorizedAdmin(caller)
    /\ Paused' = TRUE
    /\ UNCHANGED <<Admin, FeeRecipient, FeeBps, MaxCreators,
                   MaxTipsPerCreator, MinTipAmount, registry, funds>>

unpause(caller) ==
    /\ AuthorizedAdmin(caller)
    /\ Paused' = FALSE
    /\ UNCHANGED <<Admin, FeeRecipient, FeeBps, MaxCreators,
                   MaxTipsPerCreator, MinTipAmount, registry, funds>>

set_fee_percentage(caller, bps) ==
    /\ AuthorizedAdmin(caller)
    /\ ValidFee(bps)
    /\ FeeBps' = bps
    /\ UNCHANGED <<Admin, FeeRecipient, Paused, MaxCreators,
                   MaxTipsPerCreator, MinTipAmount, registry, funds>>

set_fee_recipient(caller, recipient) ==
    /\ AuthorizedAdmin(caller)
    /\ ValidFeeRecipient(recipient)
    /\ FeeRecipient' = recipient
    /\ UNCHANGED <<Admin, FeeBps, Paused, MaxCreators,
                   MaxTipsPerCreator, MinTipAmount, registry, funds>>

set_max_creators(caller, cap) ==
    /\ AuthorizedAdmin(caller)
    /\ MaxCreators' = cap
    /\ UNCHANGED <<Admin, FeeRecipient, FeeBps, Paused,
                   MaxTipsPerCreator, MinTipAmount, registry, funds>>

set_max_tips_per_creator(caller, cap) ==
    /\ AuthorizedAdmin(caller)
    /\ MaxTipsPerCreator' = cap
    /\ UNCHANGED <<Admin, FeeRecipient, FeeBps, Paused,
                   MaxCreators, MinTipAmount, registry, funds>>

set_min_tip_amount(caller, minimum) ==
    /\ AuthorizedAdmin(caller)
    /\ minimum >= 0
    /\ MinTipAmount' = minimum
    /\ UNCHANGED <<Admin, FeeRecipient, FeeBps, Paused,
                   MaxCreators, MaxTipsPerCreator, registry, funds>>

------------------------------------------------------------------------------
(* Registration.                                                           *)

FaultUsernameUnchecked(caller, username) == caller \notin DOMAIN Profile

Registrable(caller, username) ==
    /\ caller \notin DOMAIN Profile
    /\ username \notin DOMAIN UsernameToAddress

register(caller, username, text) ==
    /\ check_initialized_and_not_paused
    /\ validate_input(text)
    /\ Registrable(caller, username)
    /\ UnderCap(MaxCreators, CreatorCount)
    /\ CreatorCount + 1 <= MAX_U32
    /\ Profile' = Put(Profile, caller, [username |-> username, text |-> text])
    /\ UsernameToAddress' = Put(UsernameToAddress, username, caller)
    /\ TipCount' = Put(TipCount, caller, 0)
    /\ CreatorCount' = CreatorCount + 1
    /\ UNCHANGED <<config, Balance, CreatorTokens, Tip, tokenBalance>>

update_profile(caller, text) ==
    /\ check_initialized_and_not_paused
    /\ validate_input(text)
    /\ caller \in DOMAIN Profile
    /\ Profile' = [Profile EXCEPT ![caller].text = text]
    /\ UNCHANGED <<config, CreatorCount, UsernameToAddress, funds>>

\* unregister looks at the tracked tokens only, never at all balances.
FaultNoBalanceCheck(creator) == TRUE

TrackedBalancesZero(creator) ==
    \A token \in get_all_tokens(creator) : get_balance(creator, token) <= 0

FaultCountStuck(count) == count

CountAfterUnregister(count) == IF count > 0 THEN count - 1 ELSE count

FaultUsernameKept(caller) == UsernameToAddress

FreedUsernames(caller) == Remove(UsernameToAddress, Profile[caller].username)

CanUnregister(caller) ==
    /\ check_initialized_and_not_paused
    /\ caller \in DOMAIN Profile
    /\ TrackedBalancesZero(caller)

unregister(caller) ==
    /\ CanUnregister(caller)
    /\ CreatorTokens' = Remove(CreatorTokens, caller)
    /\ TipCount' = Remove(TipCount, caller)
    /\ UsernameToAddress' = FreedUsernames(caller)
    /\ Profile' = Remove(Profile, caller)
    /\ CreatorCount' = CountAfterUnregister(CreatorCount)
    /\ UNCHANGED <<config, Balance, Tip, tokenBalance>>

------------------------------------------------------------------------------
(* Tipping.                                                                *)

FaultFeeRoundedUp(amount) ==
    (amount * FeeBps + MAX_FEE_BPS - 1) \div MAX_FEE_BPS

FeeOf(amount) == (amount * FeeBps) \div MAX_FEE_BPS

FaultCreditGross(amount, fee) == amount

CreatorAmount(amount, fee) == amount - fee

MeetsMinimum(amount) ==
    /\ amount > 0
    /\ MinTipAmount > 0 => amount >= MinTipAmount

FaultRecordAfterIncrement(index) == index + 1

FaultRecordOverLast(index) == IF index > 0 THEN index - 1 ELSE 0

RecordIndex(index) == index

FaultUntracked(creator, token) == get_all_tokens(creator)

TokensAfterTip(creator, token) == get_all_tokens(creator) \cup {token}

\* The contract's own checks: those before any token moves, and that the credit
\* and the index it stores afterwards do not overflow.
TipAccepted(creator, token, amount) ==
    /\ check_initialized_and_not_paused
    /\ MeetsMinimum(amount)
    /\ creator \in DOMAIN Profile
    /\ UnderCap(MaxTipsPerCreator, get_tip_count(creator))
    /\ amount * FeeBps <= MAX_I128
    /\ FeeBps > 0 => FeeRecipient # None
    /\ get_balance(creator, token) + CreatorAmount(amount, FeeOf(amount)) <= MAX_I128
    /\ get_tip_count(creator) + 1 <= MAX_U64

\* With them, the two transfers do not fail.
CanTip(from, creator, token, amount) ==
    LET fee == FeeOf(amount)
        received == Transferred(tokenBalance, token, from, Contract, amount)
    IN  /\ TipAccepted(creator, token, amount)
        /\ CanTransfer(tokenBalance, token, from, amount)
        /\ fee > 0 => CanTransfer(received, token, Contract, fee)

\* What is stored once the tokens have moved.
TipBooked(from, creator, token, amount) ==
    LET index == get_tip_count(creator)
        fee == FeeOf(amount)
        credit == get_balance(creator, token) + CreatorAmount(amount, fee)
    IN  /\ Balance' = Put(Balance, <<creator, token>>, credit)
        /\ CreatorTokens' =
              Put(CreatorTokens, creator, TokensAfterTip(creator, token))
        /\ Tip' = Put(Tip, <<creator, RecordIndex(index)>>,
                      [from |-> from, token |-> token, amount |-> amount])
        /\ TipCount' = Put(TipCount, creator, index + 1)
        /\ UNCHANGED <<config, registry>>

tip(from, creator, token, amount) ==
    LET fee == FeeOf(amount)
        received == Transferred(tokenBalance, token, from, Contract, amount)
    IN  /\ CanTip(from, creator, token, amount)
        /\ tokenBalance' =
              IF fee > 0
              THEN Transferred(received, token, Contract, FeeRecipient, fee)
              ELSE received
        /\ TipBooked(from, creator, token, amount)

------------------------------------------------------------------------------
(* Withdrawal.                                                             *)

FaultOverdraw(caller, token, amount) == get_balance(caller, token) > 0

SufficientBalance(caller, token, amount) == get_balance(caller, token) >= amount

FaultDebitSkipped(caller, token, remaining) == Balance

BalanceAfterWithdraw(caller, token, remaining) ==
    IF remaining > 0
    THEN Put(Balance, <<caller, token>>, remaining)
    ELSE Remove(Balance, <<caller, token>>)

FaultUntrackedEarly(caller, token, remaining) ==
    LET left == get_all_tokens(caller) \ {token}
    IN  IF left = {} THEN Remove(CreatorTokens, caller)
                     ELSE Put(CreatorTokens, caller, left)

FaultStillTracked(caller, token, remaining) == CreatorTokens

TokensAfterWithdraw(caller, token, remaining) ==
    LET left == get_all_tokens(caller) \ {token}
    IN  CASE remaining > 0 \/ token \notin get_all_tokens(caller) -> CreatorTokens
          [] OTHER -> IF left = {} THEN Remove(CreatorTokens, caller)
                                   ELSE Put(CreatorTokens, caller, left)

\* The contract's own checks.  Extending the TTL of a missing entry traps, so a
\* partial withdrawal needs the CreatorTokens entry.
WithdrawAccepted(caller, token, amount) ==
    /\ check_initialized_and_not_paused
    /\ caller \in DOMAIN Profile
    /\ amount > 0
    /\ SufficientBalance(caller, token, amount)
    /\ get_balance(caller, token) > amount => caller \in DOMAIN CreatorTokens

\* With them, the transfer does not fail.
CanWithdraw(caller, token, amount) ==
    /\ WithdrawAccepted(caller, token, amount)
    /\ CanTransfer(tokenBalance, token, Contract, amount)

WithdrawBooked(caller, token, amount) ==
    LET remaining == get_balance(caller, token) - amount
    IN  /\ Balance' = BalanceAfterWithdraw(caller, token, remaining)
        /\ CreatorTokens' = TokensAfterWithdraw(caller, token, remaining)
        /\ UNCHANGED <<config, registry, TipCount, Tip>>

withdraw(caller, token, amount) ==
    /\ CanWithdraw(caller, token, amount)
    /\ tokenBalance' = Transferred(tokenBalance, token, Contract, caller, amount)
    /\ WithdrawBooked(caller, token, amount)

------------------------------------------------------------------------------
\* External: a holder moves tokens without going through the contract.
direct_transfer(src, dst, token, amount) ==
    /\ amount > 0
    /\ CanTransfer(tokenBalance, token, src, amount)
    /\ tokenBalance' = Transferred(tokenBalance, token, src, dst, amount)
    /\ UNCHANGED <<config, registry, TipCount, Balance, CreatorTokens, Tip>>

AdminStep(caller) ==
    \/ \E recipient \in RecipientInput, bps \in FeeInput,
          maxCreators, maxTips \in CapInput, minTip \in MinInput :
             init(caller, recipient, bps, maxCreators, maxTips, minTip)
    \/ \E newAdmin \in AdminInput : set_admin(caller, newAdmin)
    \/ pause(caller)
    \/ unpause(caller)
    \/ \E bps \in FeeInput : set_fee_percentage(caller, bps)
    \/ \E recipient \in RecipientInput : set_fee_recipient(caller, recipient)
    \/ \E cap \in CapInput : set_max_creators(caller, cap)
    \/ \E cap \in CapInput : set_max_tips_per_creator(caller, cap)
    \/ \E minimum \in MinInput : set_min_tip_amount(caller, minimum)

UserStep(caller) ==
    \/ \E username \in Username, text \in Text : register(caller, username, text)
    \/ \E text \in Text : update_profile(caller, text)
    \/ unregister(caller)
    \/ \E creator \in Account, token \in Token, amount \in Amount :
          tip(caller, creator, token, amount)
    \/ \E token \in Token, amount \in Amount : withdraw(caller, token, amount)

TokenStep(src) ==
    \E dst \in DepositTarget, token \in Token, amount \in Amount :
        direct_transfer(src, dst, token, amount)

Next == \E caller \in Account :
            AdminStep(caller) \/ UserStep(caller) \/ TokenStep(caller)

Spec == Init /\ [][Next]_vars

==============================================================================
