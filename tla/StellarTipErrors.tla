--------------------------- MODULE StellarTipErrors ---------------------------
(***************************************************************************)
(* What a caller is told: for every entry point, the checks in the order   *)
(* in which the code makes them, each with the error it panics with.  The  *)
(* first failing check decides the answer; a refused call changes nothing. *)
(*                                                                         *)
(* A trap of the host (an overflow, a token transfer that fails, a TTL     *)
(* extension of a missing entry) carries no TipError and is HostTrap here. *)
(***************************************************************************)
EXTENDS StellarTipProperties, Sequences

Ok == 0
CreatorAlreadyExists == 1
CreatorNotFound == 2
UsernameTaken == 3
InsufficientBalance == 4
TransferFailed == 5
InvalidAmount == 6
NoTips == 7
NotInitialized == 8
AlreadyInitialized == 9
ContractPaused == 10
NotAuthorized == 11
InvalidInput == 12
BalanceNotEmpty == 13
CapExceeded == 14
FeeRecipientNotSet == 15
BelowMinimum == 16
HostTrap == 17

Error == 1 .. 17

------------------------------------------------------------------------------
(* A table of checks is a sequence of <<condition to go on, error>>.       *)

FirstError(checks) ==
    LET failing == {i \in DOMAIN checks : ~checks[i][1]}
    IN  IF failing = {} THEN Ok ELSE checks[Min(failing)][2]

Initialized == <<Admin # None, NotInitialized>>

Unpaused == <<check_initialized_and_not_paused, ContractPaused>>

FaultCallerIsAdmin(caller) == <<TRUE, NotAuthorized>>

CallerIsAdmin(caller) == <<AuthorizedAdmin(caller), NotAuthorized>>

initError(call) == FirstError(
    << <<NotYetInitialized(call.caller), AlreadyInitialized>>,
       <<ValidFee(call.bps), InvalidInput>>,
       <<call.minTip >= 0, InvalidInput>>,
       <<ValidFeeRecipient(call.recipient), InvalidInput>> >>)

\* set_admin and the setters: the caller, then the one argument.
ArgumentAccepted(call) ==
    CASE call.fn = "set_admin" -> call.arg \notin {call.caller, ZeroAddress}
      [] call.fn = "set_fee_percentage" -> ValidFee(call.arg)
      [] call.fn = "set_fee_recipient" -> ValidFeeRecipient(call.arg)
      [] call.fn = "set_min_tip_amount" -> call.arg >= 0
      [] OTHER -> TRUE

adminError(call) == FirstError(
    << Initialized,
       CallerIsAdmin(call.caller),
       <<ArgumentAccepted(call), InvalidInput>> >>)

registerError(call) == FirstError(
    << Initialized,
       Unpaused,
       <<validate_input(call.text), InvalidInput>>,
       <<call.caller \notin DOMAIN Profile, CreatorAlreadyExists>>,
       <<Registrable(call.caller, call.username), UsernameTaken>>,
       <<UnderCap(MaxCreators, CreatorCount), CapExceeded>>,
       <<CreatorCount + 1 <= MAX_U32, HostTrap>> >>)

update_profileError(call) == FirstError(
    << Initialized,
       Unpaused,
       <<validate_input(call.text), InvalidInput>>,
       <<is_creator(call.caller), CreatorNotFound>> >>)

unregisterError(call) == FirstError(
    << Initialized,
       Unpaused,
       <<is_creator(call.caller), CreatorNotFound>>,
       <<TrackedBalancesZero(call.caller), BalanceNotEmpty>> >>)

tipError(call) ==
    LET index == get_tip_count(call.creator)
        fee == FeeOf(call.amount)
        received == Transferred(tokenBalance, call.token,
                                call.caller, Contract, call.amount)
    IN  FirstError(
        << Initialized,
           Unpaused,
           <<call.amount > 0, InvalidAmount>>,
           <<MeetsMinimum(call.amount), BelowMinimum>>,
           <<is_creator(call.creator), CreatorNotFound>>,
           <<UnderCap(MaxTipsPerCreator, index), CapExceeded>>,
           <<call.amount * FeeBps <= MAX_I128, HostTrap>>,
           <<FeeBps > 0 => FeeRecipient # None, FeeRecipientNotSet>>,
           <<CanTransfer(tokenBalance, call.token, call.caller, call.amount),
             HostTrap>>,
           <<fee > 0 => CanTransfer(received, call.token, Contract, fee),
             HostTrap>>,
           <<get_balance(call.creator, call.token)
                + CreatorAmount(call.amount, fee) <= MAX_I128, HostTrap>>,
           <<index + 1 <= MAX_U64, HostTrap>> >>)

withdrawError(call) ==
    LET credit == get_balance(call.caller, call.token)
    IN  FirstError(
        << Initialized,
           Unpaused,
           <<is_creator(call.caller), CreatorNotFound>>,
           <<call.amount > 0, InvalidAmount>>,
           <<SufficientBalance(call.caller, call.token, call.amount),
             InsufficientBalance>>,
           <<CanTransfer(tokenBalance, call.token, Contract, call.amount),
             HostTrap>>,
           <<credit > call.amount => call.caller \in DOMAIN CreatorTokens,
             HostTrap>> >>)

------------------------------------------------------------------------------
(* Calls as values.                                                        *)

Setter == {"set_admin", "pause", "unpause", "set_fee_percentage",
           "set_fee_recipient", "set_max_creators",
           "set_max_tips_per_creator", "set_min_tip_amount"}

ArgumentsOf(fn) ==
    CASE fn = "set_admin" -> AdminInput
      [] fn = "set_fee_percentage" -> FeeInput
      [] fn = "set_fee_recipient" -> RecipientInput
      [] fn \in {"set_max_creators", "set_max_tips_per_creator"} -> CapInput
      [] fn = "set_min_tip_amount" -> MinInput
      [] fn \in {"pause", "unpause"} -> {None}

AdminCall ==
    UNION {[fn : {fn}, caller : Account, arg : ArgumentsOf(fn)] : fn \in Setter}

InitCall ==
    [fn : {"init"}, caller : Account, recipient : RecipientInput, bps : FeeInput,
     maxCreators : CapInput, maxTips : CapInput, minTip : MinInput]

UserCall ==
    [fn : {"register"}, caller : Account, username : Username, text : Text]
    \cup [fn : {"update_profile"}, caller : Account, text : Text]
    \cup [fn : {"unregister"}, caller : Account]
    \cup [fn : {"tip"}, caller : Account, creator : Account,
          token : Token, amount : Amount]
    \cup [fn : {"withdraw"}, caller : Account, token : Token, amount : Amount]

Call == AdminCall \cup InitCall \cup UserCall

\* The error a call would be refused with now, or Ok.
outcome(call) ==
    CASE call.fn = "init" -> initError(call)
      [] call.fn \in Setter -> adminError(call)
      [] call.fn = "register" -> registerError(call)
      [] call.fn = "update_profile" -> update_profileError(call)
      [] call.fn = "unregister" -> unregisterError(call)
      [] call.fn = "tip" -> tipError(call)
      [] call.fn = "withdraw" -> withdrawError(call)

\* The call carried out.
Invoke(call) ==
    CASE call.fn = "init" -> init(call.caller, call.recipient, call.bps,
                                  call.maxCreators, call.maxTips, call.minTip)
      [] call.fn = "set_admin" -> set_admin(call.caller, call.arg)
      [] call.fn = "pause" -> pause(call.caller)
      [] call.fn = "unpause" -> unpause(call.caller)
      [] call.fn = "set_fee_percentage" -> set_fee_percentage(call.caller, call.arg)
      [] call.fn = "set_fee_recipient" -> set_fee_recipient(call.caller, call.arg)
      [] call.fn = "set_max_creators" -> set_max_creators(call.caller, call.arg)
      [] call.fn = "set_max_tips_per_creator" ->
            set_max_tips_per_creator(call.caller, call.arg)
      [] call.fn = "set_min_tip_amount" -> set_min_tip_amount(call.caller, call.arg)
      [] call.fn = "register" -> register(call.caller, call.username, call.text)
      [] call.fn = "update_profile" -> update_profile(call.caller, call.text)
      [] call.fn = "unregister" -> unregister(call.caller)
      [] call.fn = "tip" -> tip(call.caller, call.creator, call.token, call.amount)
      [] call.fn = "withdraw" -> withdraw(call.caller, call.token, call.amount)

==============================================================================
