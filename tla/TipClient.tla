------------------------------ MODULE TipClient ------------------------------
(***************************************************************************)
(* The TypeScript example: a script that registers the owner of a key as a *)
(* creator and then tips it, run again and again, with the network between *)
(* it and the contract and other people calling it meanwhile.              *)
(*                                                                         *)
(* Each call of the contract is a sequence of steps of the script: load    *)
(* the account's sequence number, simulate, sign and send, poll for the    *)
(* outcome a bounded number of times.  The network applies a transaction   *)
(* only when it carries the account's next sequence number, may drop it or *)
(* keep it pending past any timeout, and consumes the sequence number even *)
(* when the contract refuses the call.                                     *)
(***************************************************************************)
EXTENDS StellarTipErrors

CONSTANTS
    Owner,       \* the account whose key the script holds
    Handle,      \* the username it registers
    Bio,         \* display name and biography it registers
    Asset,       \* the token it tips in
    TipAmount,   \* TIP_AMOUNT_STROOPS
    BuildTime,   \* values of the expiry second that is part of a transaction
    MAX_POLLS,   \* attempts to fetch an outcome, 30 in the example
    MAX_RUNS     \* bound: how often the script is run

ASSUME ClientAssumption ==
    /\ Owner \in Account
    /\ Handle \in Username
    /\ Bio \in Text
    /\ Asset \in Token
    /\ TipAmount \in Amount
    /\ MAX_POLLS \in Nat \ {0}
    /\ MAX_RUNS \in Nat
    /\ None \notin {"SUCCESS", "FAILED"}

VARIABLES
    runs,        \* how often the script has been started
    phase,       \* the step of invoke it is about to take
    stage,       \* the call it is making: "register" or "tip"
    tx,          \* the transaction it has built
    polls,       \* attempts to fetch the outcome so far
    result,      \* what they returned last
    tipIndex,    \* the index it printed
    sequence,    \* external: the owner's sequence number on the ledger
    pool,        \* external: transactions accepted and not yet in a ledger
    applied      \* external: transaction |-> its outcome in the ledger

script == <<runs, phase, stage, tx, polls, result, tipIndex>>
network == <<sequence, pool, applied>>
clientVars == <<vars, script, network>>

Active == {"load", "simulate", "send", "poll"}

ClientInit ==
    /\ Init
    /\ runs = 0
    /\ phase = "idle"
    /\ stage = "register"
    /\ tx = None
    /\ polls = 0
    /\ result = None
    /\ tipIndex = None
    /\ sequence = 0
    /\ pool = {}
    /\ applied = EmptyMap

Arguments(fn) ==
    IF fn = "register"
    THEN [fn |-> fn, caller |-> Owner, username |-> Handle, text |-> Bio]
    ELSE [fn |-> fn, caller |-> Owner, creator |-> Owner,
          token |-> Asset, amount |-> TipAmount]

------------------------------------------------------------------------------
(* Steps of the script.                                                    *)

FaultSkipRegistered == IF is_creator(Owner) THEN "tip" ELSE "register"

FirstCall == "register"

\* The script is started again only after its last run has ended.
main ==
    /\ phase \notin Active
    /\ runs < MAX_RUNS
    /\ runs' = runs + 1
    /\ phase' = "load"
    /\ stage' = FirstCall
    /\ UNCHANGED <<vars, tx, polls, result, tipIndex, network>>

\* Two transactions of the same call, sequence number and expiry are the same
\* transaction to the network: signatures are deterministic.
freshBuilder ==
    /\ phase = "load"
    /\ phase' = "simulate"
    /\ \E built \in BuildTime :
          tx' = [fn |-> stage, seq |-> sequence + 1, built |-> built]
    /\ UNCHANGED <<vars, runs, stage, polls, result, tipIndex, network>>

\* The call is carried out on the current state and discarded.
simulateTransaction ==
    /\ phase = "simulate"
    /\ outcome(Arguments(stage)) = Ok
    /\ phase' = "send"
    /\ UNCHANGED <<vars, runs, stage, tx, polls, result, tipIndex, network>>

StartPolling ==
    /\ phase' = "poll"
    /\ polls' = 0
    /\ result' = None
    /\ UNCHANGED <<runs, stage, tx, tipIndex>>

sendTransaction ==
    /\ phase = "send"
    /\ tx \notin pool \cup DOMAIN applied
    /\ StartPolling
    /\ pool' = pool \cup {tx}
    /\ UNCHANGED <<vars, sequence, applied>>

\* The script stops at the answer ERROR only: it goes on polling after
\* DUPLICATE, and after TRY_AGAIN_LATER, when nothing was accepted.
sendNotAccepted ==
    /\ phase = "send"
    /\ StartPolling
    /\ UNCHANGED <<vars, network>>

Status == IF tx \in DOMAIN applied THEN applied[tx].status ELSE "NOT_FOUND"

FaultPollNotCounted(n) == n

PollCounted(n) == n + 1

Fetched == result \in {"SUCCESS", "FAILED"}

\* One pass of the polling loop.
getTransaction ==
    /\ phase = "poll"
    /\ ~Fetched
    /\ polls < MAX_POLLS
    /\ polls' = PollCounted(polls)
    /\ result' = Status
    /\ UNCHANGED <<vars, runs, phase, stage, tx, tipIndex, network>>

LoopEnded == phase = "poll" /\ (Fetched \/ polls = MAX_POLLS)

FaultUnknownConfirmed == result # "FAILED"

\* What the helper takes for success once the loop has ended.
Confirmed == result = "SUCCESS"

registered ==
    /\ LoopEnded /\ stage = "register" /\ Confirmed
    /\ phase' = "load"
    /\ stage' = "tip"
    /\ UNCHANGED <<vars, runs, tx, polls, result, tipIndex, network>>

tipped ==
    /\ LoopEnded /\ stage = "tip" /\ Confirmed
    /\ phase' = "done"
    /\ tipIndex' = applied[tx].index
    /\ UNCHANGED <<vars, runs, stage, tx, polls, result, network>>

\* The script ends with an exception: simulation refuses the call, the network
\* does not take the transaction, or the outcome is a failure or unknown.
throw ==
    /\ \/ phase = "simulate" /\ outcome(Arguments(stage)) # Ok
       \/ phase = "send"
       \/ LoopEnded /\ ~Confirmed
    /\ phase' = "failed"
    /\ UNCHANGED <<vars, runs, stage, tx, polls, result, tipIndex, network>>

\* A request or its answer is lost, or somebody stops the script.
interrupted ==
    /\ phase \in Active
    /\ phase' = "failed"
    /\ UNCHANGED <<vars, runs, stage, tx, polls, result, tipIndex, network>>

ScriptStep ==
    \/ freshBuilder \/ simulateTransaction
    \/ sendTransaction \/ sendNotAccepted
    \/ getTransaction \/ registered \/ tipped \/ throw

------------------------------------------------------------------------------
(* The network, and everybody else.                                        *)

Settle(t, status, index) ==
    /\ t.seq = sequence + 1
    /\ sequence' = t.seq
    /\ pool' = pool \ {t}
    /\ applied' = Put(applied, t, [status |-> status, index |-> index])
    /\ UNCHANGED script

ledgerSucceeds(t) ==
    /\ Settle(t, "SUCCESS", IF t.fn = "tip" THEN get_tip_count(Owner) ELSE None)
    /\ Invoke(Arguments(t.fn))

\* Refused by the contract, or by the host because what simulation recorded
\* of the state no longer fits.
ledgerFails(t) ==
    /\ Settle(t, "FAILED", None)
    /\ UNCHANGED vars

drop(t) ==
    /\ pool' = pool \ {t}
    /\ UNCHANGED <<vars, script, sequence, applied>>

Others ==
    /\ \E caller \in Account \ {Owner} :
          AdminStep(caller) \/ UserStep(caller) \/ TokenStep(caller)
    /\ UNCHANGED <<script, network>>

ClientNext ==
    \/ main
    \/ ScriptStep
    \/ interrupted
    \/ \E t \in pool : ledgerSucceeds(t) \/ ledgerFails(t) \/ drop(t)
    \/ Others

ClientSpec == ClientInit /\ [][ClientNext]_clientVars

\* A script that is not interrupted keeps running; the network owes it nothing.
FairClientSpec == ClientSpec /\ WF_clientVars(ScriptStep)

------------------------------------------------------------------------------
(* Properties.                                                             *)

\* A script that is run again after a failure it could not explain does not
\* pay twice: all its runs together tip once at most, however late their
\* transactions land.  (A second run stops at register, nothing else does it.)
TipsOnce ==
    Cardinality({t \in DOMAIN applied :
        t.fn = "tip" /\ applied[t].status = "SUCCESS"}) <= 1

\* The index the script printed goes on leading to the tip it made, whoever
\* tips the same creator before, in between or afterwards.
PrintedIndexIsOwnTip ==
    tipIndex # None =>
        get_tip(Owner, tipIndex) =
            [from |-> Owner, token |-> Asset, amount |-> TipAmount]

\* examples/typescript/register-and-tip.ts:83, "Registration succeeded" is true
\* when it is printed, and the profile that is read back next is the one that
\* was asked for, also after an earlier run went wrong or was given up.
RegistrationShown ==
    stage = "tip" => is_creator(Owner) /\ Profile[Owner].username = Handle

\* Every run ends, whatever the network does with its transactions.
ScriptEnds == phase \in Active ~> phase \notin Active

==============================================================================
