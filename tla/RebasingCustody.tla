---------------------------- MODULE RebasingCustody ----------------------------
(***************************************************************************)
(* The StellarTip contract when one of the tokens it is given rebases.     *)
(* Its ledger is written from the amounts callers pass and is never        *)
(* compared with a token's balance, so a rebase makes the two diverge.     *)
(* The other tokens are ordinary ones.                                     *)
(***************************************************************************)
EXTENDS StellarTipProperties, RebasingToken

CONSTANTS
    Rebasing,   \* the token that rebases
    Factor      \* the factors <<num, den>> it takes

ASSUME RebasingAssumption ==
    /\ Rebasing \in Token
    /\ Factor \subseteq Nat \X (Nat \ {0})

custodyVars == <<vars, tokenVars>>

\* tip and withdraw with the rebasing token's transfer in place of the
\* ordinary one: the contract's own checks and bookkeeping are the same.
tip_rebasing(from, creator, amount) ==
    LET fee == FeeOf(amount)
        received == Moved(shares, from, Contract, amount)
    IN  /\ TipAccepted(creator, Rebasing, amount)
        /\ CanMove(shares, from, amount)
        /\ fee > 0 => CanMove(received, Contract, fee)
        /\ shares' = IF fee > 0
                     THEN Moved(received, Contract, FeeRecipient, fee)
                     ELSE received
        /\ TipBooked(from, creator, Rebasing, amount)
        /\ UNCHANGED <<tokenBalance, num, den>>

CanWithdrawRebasing(caller, amount) ==
    /\ WithdrawAccepted(caller, Rebasing, amount)
    /\ CanMove(shares, Contract, amount)

withdraw_rebasing(caller, amount) ==
    /\ CanWithdrawRebasing(caller, amount)
    /\ transfer(Contract, caller, amount)
    /\ WithdrawBooked(caller, Rebasing, amount)
    /\ UNCHANGED tokenBalance

CustodyInit ==
    /\ Init
    /\ shares = [address \in Address |-> IF address \in Account THEN Supply ELSE 0]
    /\ num = 1
    /\ den = 1

OrdinaryStep(caller) ==
    \/ AdminStep(caller)
    \/ \E username \in Username, text \in Text : register(caller, username, text)
    \/ \E text \in Text : update_profile(caller, text)
    \/ unregister(caller)
    \/ \E token \in Token \ {Rebasing}, amount \in Amount :
          \/ \E creator \in Account : tip(caller, creator, token, amount)
          \/ withdraw(caller, token, amount)
          \/ \E dst \in DepositTarget : direct_transfer(caller, dst, token, amount)

RebasingStep(caller) ==
    \E amount \in Amount :
        \/ \E creator \in Account : tip_rebasing(caller, creator, amount)
        \/ withdraw_rebasing(caller, amount)

\* External: holders' transfers and the rebases of the token itself.  The
\* token does not check the sign of an amount; its users pass positive ones.
TokenOwnStep ==
    /\ \/ \E src \in Account, dst \in DepositTarget, amount \in Amount :
             amount > 0 /\ transfer(src, dst, amount)
       \/ \E factor \in Factor : rebase(factor[1], factor[2])
    /\ UNCHANGED vars

CustodyNext ==
    \/ \E caller \in Account :
          \/ OrdinaryStep(caller) /\ UNCHANGED tokenVars
          \/ RebasingStep(caller)
    \/ TokenOwnStep

CustodySpec == CustodyInit /\ [][CustodyNext]_custodyVars

------------------------------------------------------------------------------
(* Properties.                                                             *)

\* The divergence is confined to the rebasing token: whatever it does, any
\* part of a credit in another token can be withdrawn at once, also by a
\* creator that cannot get its credit in the rebasing token.
OtherTokensWithdrawable ==
    check_initialized_and_not_paused =>
        \A creator \in Account, token \in Token \ {Rebasing} :
            \A amount \in 1 .. get_balance(creator, token) :
                CanWithdraw(creator, token, amount)

\* The books of the other tokens, seen by themselves.
OtherTokens == INSTANCE TipEscrow
    WITH Creator <- Account, Asset <- Token \ {Rebasing},
         owed <- [key \in Account \X (Token \ {Rebasing}) |-> GetOr(Balance, key, 0)],
         held <- [token \in Token \ {Rebasing} |-> tokenBalance[<<Contract, token>>]],
         wallet <- [key \in Account \X (Token \ {Rebasing}) |-> tokenBalance[key]]

\* In the other tokens the contract remains the escrow it is without a rebasing
\* one: what it owes and what it holds change together, and only the owner of a
\* credit is paid, whatever is tipped, withdrawn or rebased in between.
OtherTokensEscrow == OtherTokens!Spec

\* A credit in the rebasing token is paid as far as the contract's balance
\* goes: whoever asks for no more than that and no more than its credit is
\* served.  The conversion to shares rounds down, so the token lets a request
\* beyond the balance pass if it is beyond by less than one share.
PaidWhileBacked ==
    check_initialized_and_not_paused =>
        \A creator \in Account :
            \A amount \in {a \in Amount : 0 < a /\ a <= get_balance(creator, Rebasing)} :
                /\ amount <= balance(Contract) =>
                      CanWithdrawRebasing(creator, amount)
                /\ CanWithdrawRebasing(creator, amount) =>
                      amount * den < (shares[Contract] + 1) * num

\* What the contract holds minus what it owes, in units of 1 / den.
Divergence == shares[Contract] * num - Credits(Rebasing) * den

\* No call moves the gap a rebase opened by a whole share, and only a tip moves
\* it down: no entry point pays out surplus or makes up for a shortfall (there
\* is no sweep).  What rounding moves may add up over many tips.
DivergencePersists ==
    [][UNCHANGED <<num, den>> =>
          LET drift == Divergence' - Divergence
          IN  /\ ~UNCHANGED vars => drift = 0 \/ (-num < drift /\ drift < num)
              /\ drift < 0 => Credits(Rebasing)' > Credits(Rebasing)]_custodyVars

==============================================================================
