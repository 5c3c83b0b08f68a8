------------------------------ MODULE FuzzHarness ------------------------------
(***************************************************************************)
(* The property test of the repository that interleaves pauses, tips and   *)
(* withdrawals at random, with the bookkeeping of its oracle.  One step is *)
(* one operation of a batch; the test makes its final comparison when the  *)
(* batch ends, which may be after any operation.                           *)
(*                                                                         *)
(* The test mints each tip's amount to a fresh address.  The contract does *)
(* not tell supporters apart, so one that holds Supply from the start      *)
(* stands for all of them, and a tip is of no more than it still holds.    *)
(***************************************************************************)
EXTENDS StellarTipErrors

CONSTANTS
    BatchAdmin, BatchRecipient,     \* of FuzzEnv
    BatchToken,
    Creator1, Creator2,             \* registered before the batch
    Tipper                          \* stands for the generated supporters

ASSUME BatchAssumption ==
    /\ {BatchAdmin, BatchRecipient, Creator1, Creator2, Tipper} \subseteq Account
    /\ Creator1 # Creator2
    /\ {BatchRecipient, Tipper} \cap {Creator1, Creator2} = {}
    /\ BatchRecipient # Tipper
    /\ BatchRecipient \in RecipientInput
    /\ BatchToken \in Token
    /\ 0 \in CapInput
    /\ 0 \in MinInput

\* A batch has at most 30 operations, with tips of at most 10,000,000: the test
\* mints far less than would make a fee's product or a tip index overflow.
ASSUME BatchSizeAssumption ==
    /\ Supply * MAX_FEE_BPS <= MAX_I128
    /\ Supply <= MAX_U64

Creators == {Creator1, Creator2}

VARIABLES
    fee_bps,            \* the argument of FuzzEnv::new; None before it
    expected_balance,   \* creator |-> what the oracle says it is owed
    cumulative_fee,     \* what the oracle says the recipient has received
    pending             \* None, or a tip about to be made, with the is_paused
                        \*   read before it

oracle == <<fee_bps, expected_balance, cumulative_fee>>
batchVars == <<vars, oracle, pending>>

\* The oracle's own computation of the fee.
ExpectedFee(amount) == (amount * fee_bps) \div 10000

\* FuzzEnv::new: caps and minimum are disabled.
new(bps) ==
    /\ init(BatchAdmin, BatchRecipient, bps, 0, 0, 0)
    /\ fee_bps' = bps
    /\ UNCHANGED <<expected_balance, cumulative_fee, pending>>

BatchStarted == Creators \subseteq DOMAIN Profile

preregister(creator) ==
    /\ ~BatchStarted
    /\ \E username \in Username, text \in Text : register(creator, username, text)
    /\ UNCHANGED <<oracle, pending>>

Idle == BatchStarted /\ pending = None

pause_op ==
    /\ Idle
    /\ pause(BatchAdmin) \/ unpause(BatchAdmin)
    /\ UNCHANGED <<oracle, pending>>

choose_tip(creator, amount) ==
    /\ Idle
    /\ amount > 0
    /\ CanTransfer(tokenBalance, BatchToken, Tipper, amount)
    /\ pending' = [fn |-> "tip", caller |-> Tipper, creator |-> creator,
                   token |-> BatchToken, amount |-> amount, is_paused |-> Paused]
    /\ UNCHANGED <<vars, oracle>>

tip_succeeds ==
    LET fee == ExpectedFee(pending.amount)
    IN  /\ pending # None
        /\ tipError(pending) = Ok
        /\ tip(Tipper, pending.creator, BatchToken, pending.amount)
        /\ expected_balance' = [expected_balance EXCEPT
                                   ![pending.creator] = @ + (pending.amount - fee)]
        /\ cumulative_fee' = cumulative_fee + fee
        /\ pending' = None
        /\ UNCHANGED fee_bps

tip_panics ==
    /\ pending # None
    /\ tipError(pending) # Ok
    /\ pending' = None
    /\ UNCHANGED <<vars, oracle>>

WithdrawCall(creator, wd) ==
    [fn |-> "withdraw", caller |-> creator, token |-> BatchToken, amount |-> wd]

\* What the test draws when the contract is not paused.  It accepts a refusal
\* in silence: expected_balance is then left alone.
withdraw_op(creator, wd) ==
    /\ Idle
    /\ ~Paused
    /\ wd > 0
    /\ wd <= expected_balance[creator]
    /\ withdrawError(WithdrawCall(creator, wd)) = Ok
    /\ withdraw(creator, BatchToken, wd)
    /\ expected_balance' = [expected_balance EXCEPT ![creator] = @ - wd]
    /\ UNCHANGED <<fee_bps, cumulative_fee, pending>>

BatchInit ==
    /\ Init
    /\ fee_bps = None
    /\ expected_balance = [creator \in Creators |-> 0]
    /\ cumulative_fee = 0
    /\ pending = None

BatchNext ==
    \/ \E bps \in FeeInput : new(bps)
    \/ \E creator \in Creators : preregister(creator)
    \/ pause_op
    \/ \E creator \in Creators, amount \in Amount :
          choose_tip(creator, amount) \/ withdraw_op(creator, amount)
    \/ tip_succeeds
    \/ tip_panics

BatchSpec == BatchInit /\ [][BatchNext]_batchVars

------------------------------------------------------------------------------
(* Properties.                                                             *)

TokensOf(address) == tokenBalance[<<address, BatchToken>>]

\* The comparisons at the end of the test hold after every operation: credits,
\* tokens held and fees forwarded are what the oracle adds up on its own.
OracleAgrees ==
    /\ \A creator \in Creators :
          get_balance(creator, BatchToken) = expected_balance[creator]
    /\ TokensOf(Contract) = expected_balance[Creator1] + expected_balance[Creator2]
    /\ TokensOf(BatchRecipient) = Supply + cumulative_fee

\* The assertions inside the batch: a tip fails when the contract is paused,
\* and for no other reason.
TipFailsIffPaused ==
    pending # None => (tipError(pending) # Ok <=> pending.is_paused)

==============================================================================
