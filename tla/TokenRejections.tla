---------------------------- MODULE TokenRejections ----------------------------
(***************************************************************************)
(* The contract over tokens that may refuse a transfer although the sender *)
(* holds enough: the issuer has frozen an account, or an account has no    *)
(* trustline.  The contract cannot tell and does not ask; such a transfer  *)
(* traps inside tip or withdraw, and the host discards the invocation.     *)
(*                                                                         *)
(* A creator whose withdrawal the token refuses remembers it, to try the   *)
(* very same call again.                                                   *)
(***************************************************************************)
EXTENDS StellarTipErrors

CONSTANT Freezable      \* <<address, token>> pairs a token may come to refuse

ASSUME FreezableAssumption == Freezable \subseteq Address \X Token

VARIABLES
    frozen,     \* external: the pairs nothing is moved from or to
    rejected    \* None, or a withdrawal the token refused and nobody repeated

rejectionVars == <<vars, frozen, rejected>>

------------------------------------------------------------------------------
(* What the token says of the transfers of tip and withdraw.               *)

Accepts(token, src, dst) == frozen \cap {<<src, token>>, <<dst, token>>} = {}

\* The supporter pays the contract, and the contract its fee recipient; the
\* creator's own holding takes no part.
TipTransfersAccepted(from, token, amount) ==
    /\ Accepts(token, from, Contract)
    /\ FeeOf(amount) > 0 => Accepts(token, Contract, FeeRecipient)

TransfersAccepted(call) ==
    CASE call.fn = "tip" -> TipTransfersAccepted(call.caller, call.token, call.amount)
      [] call.fn = "withdraw" -> Accepts(call.token, Contract, call.caller)
      [] OTHER -> TRUE

\* A trap in the token contract carries no TipError, TransferFailed neither.
answer(call) ==
    IF outcome(call) = Ok /\ ~TransfersAccepted(call) THEN HostTrap
                                                      ELSE outcome(call)

------------------------------------------------------------------------------
accepted_tip(from, creator, token, amount) ==
    /\ TipTransfersAccepted(from, token, amount)
    /\ tip(from, creator, token, amount)
    /\ UNCHANGED <<frozen, rejected>>

\* A withdrawal of the same credit replaces the one that is remembered.
accepted_withdraw(caller, token, amount) ==
    /\ Accepts(token, Contract, caller)
    /\ withdraw(caller, token, amount)
    /\ rejected' = IF rejected # None /\ rejected.caller = caller
                                      /\ rejected.token = token
                   THEN None ELSE rejected
    /\ UNCHANGED frozen

rejected_withdraw(caller, token, amount) ==
    /\ rejected = None
    /\ CanWithdraw(caller, token, amount)
    /\ ~Accepts(token, Contract, caller)
    /\ rejected' = [fn |-> "withdraw", caller |-> caller,
                    token |-> token, amount |-> amount]
    /\ UNCHANGED <<vars, frozen>>

RegistrationStep(caller) ==
    \/ \E username \in Username, text \in Text : register(caller, username, text)
    \/ \E text \in Text : update_profile(caller, text)
    \/ unregister(caller)

accepted_transfer(src, dst, token, amount) ==
    /\ Accepts(token, src, dst)
    /\ direct_transfer(src, dst, token, amount)

\* External: the issuer, or a holder that opens or closes a trustline.
freeze(holding) == frozen' = frozen \cup {holding} /\ UNCHANGED <<vars, rejected>>

thaw(holding) == frozen' = frozen \ {holding} /\ UNCHANGED <<vars, rejected>>

RejectionInit == Init /\ frozen \in SUBSET Freezable /\ rejected = None

RejectionNext ==
    \/ \E caller \in Account :
          /\ AdminStep(caller) \/ RegistrationStep(caller)
          /\ UNCHANGED <<frozen, rejected>>
    \/ \E from, creator \in Account, token \in Token, amount \in Amount :
          accepted_tip(from, creator, token, amount)
    \/ \E caller \in Account, token \in Token, amount \in Amount :
          \/ accepted_withdraw(caller, token, amount)
          \/ rejected_withdraw(caller, token, amount)
    \/ \E src \in Account, dst \in DepositTarget, token \in Token, amount \in Amount :
          accepted_transfer(src, dst, token, amount) /\ UNCHANGED <<frozen, rejected>>
    \/ \E holding \in Freezable : freeze(holding) \/ thaw(holding)

RejectionSpec == RejectionInit /\ [][RejectionNext]_rejectionVars

------------------------------------------------------------------------------
(* Properties.                                                             *)

\* What can make a tip trap without the token refusing anything: a supporter
\* who cannot pay the whole amount, and the limits of the integers.
TipUnpayable(call) ==
    \/ call.amount * FeeBps > MAX_I128
    \/ ~CanTransfer(tokenBalance, call.token, call.caller, call.amount)
    \/ get_balance(call.creator, call.token)
          + CreatorAmount(call.amount, FeeOf(call.amount)) > MAX_I128
    \/ get_tip_count(call.creator) + 1 > MAX_U64

\* What a refusal of the token can hold up, in tip (820, 830) and in withdraw
\* (900).  A withdrawal traps only because the contract's holding or the
\* creator's own is frozen.  A tip traps only because it is unpayable, or one of
\* supporter, contract and, if there is a fee, fee recipient is frozen: not
\* because its creator is, and never because the contract lacks the tokens for
\* the fee, whatever the fee is by then.  And it never finds the recipient
\* missing (#15).
RejectionsConfined ==
    \A call \in UserCall :
        /\ answer(call) # FeeRecipientNotSet
        /\ call.fn = "withdraw" /\ answer(call) = HostTrap =>
              {<<Contract, call.token>>, <<call.caller, call.token>>} \cap frozen # {}
        /\ call.fn = "tip" /\ answer(call) = HostTrap =>
              \/ TipUnpayable(call)
              \/ {<<call.caller, call.token>>, <<Contract, call.token>>} \cap frozen # {}
              \/ FeeOf(call.amount) > 0 /\ <<FeeRecipient, call.token>> \in frozen

\* A withdrawal the token has refused can be repeated as it is: whatever others
\* do, and whatever the creator does but withdraw from the same credit, it
\* succeeds as soon as the contract is not paused and both holdings are free.
RejectedWithdrawalStands ==
    rejected # None /\ ~Paused /\ Accepts(rejected.token, Contract, rejected.caller)
        => answer(rejected) = Ok

==============================================================================
