# StellarTip: specification, model checking and proofs

StellarTip is a Soroban (Rust) smart contract for tipping: creators register a
username, supporters send tips in any token, the contract keeps a platform fee
apart, holds the rest for the creator, and the creator withdraws it. Around it
stand the events it publishes and the indexers that read them, an orchestrator
contract that forwards calls, an example client, tokens that may refuse a
transfer, and the ledger in which its entries expire. This directory specifies
the contract and these surroundings in TLA+, with a rebasing token of the tests and the main property test as further
companions, checks them with TLC on small instances and proves their main
properties with TLAPS for every value of the constants.

All source lines below are lines of `src/lib.rs` unless another file is named.

## 1. The system

| Component | State | Operations | Interacts with |
|---|---|---|---|
| Administration | `Admin`, `FeeRecipient`, `FeeBps`, `Paused`, `MaxCreators`, `MaxTipsPerCreator`, `MinTipAmount` | `init`, `set_admin`, `pause`, `unpause`, `set_fee_percentage`, `set_fee_recipient`, `set_max_creators`, `set_max_tips_per_creator`, `set_min_tip_amount` (436-632) | every user call reads its state |
| Creator registry | `Profile`, `UsernameToAddress`, `CreatorCount` | `register`, `update_profile`, `unregister` (644-756) | creates and removes `TipCount`; `unregister` reads credits |
| Tipping | `TipCount`, `Balance`, `CreatorTokens`, `Tip` | `tip` (769-870) | two transfers of the token contract |
| Withdrawal | `Balance`, `CreatorTokens` | `withdraw` (878-928) | one transfer of the token contract |
| Views | none | `get_*`, `is_*` (936-1054) | read everything |
| Token contracts (external) | holdings per address and token, and which of them are frozen | `transfer` | called by `tip` and `withdraw`, and by holders directly; may refuse for reasons of their own |
| Typed errors | none | `TipError` (93-272), raised by the first check that fails | told to the caller, who decides whether to try again |
| Events and indexers | none on chain; an indexer's copy of configuration, registry, credits and history | one event per state change (324-361), replayed | the indexer (`docs/indexer-event-schema.md`, external) sees the contract through events alone |
| Orchestrator example | none | `submit_tip`, `register_creator` (`examples/rust/src/lib.rs`) | one nested call, then an event of its own, in the same transaction; its caller chooses the contract it calls |
| Storage lifetime | ledgers left of the instance entry and of each persistent entry | the extensions in every entry point (368-375) | ledgers close, entries are archived, anybody restores them; a call that needs an archived entry fails |
| Rebasing token fixture | `shares` per holder, the factor `num / den` (`src/fixtures.rs`) | `transfer`, `rebase` | called by `tip` and `withdraw` like any token; rescales all balances without a transfer |
| Clients | a transaction and its last known outcome | load, simulate, sign, send, poll (`examples/typescript`) | call the contract over a network that may lose, delay or refuse |
| Property test | the oracle's balances and fees (`src/fuzz.rs`) | random pauses, tips and withdrawals | calls the contract and compares it with the oracle |
| Scripts, CI, unit tests | none | | |

**What is concurrent and what is not.** The host runs one invocation at a time,
as a transaction: a `panic_with_error!`, an arithmetic overflow (the release
profile sets `overflow-checks`), or a trap in a called token contract discards
every write, transfer and event of the invocation. So calls of different users
interleave at the grain of whole invocations, and the hard part is what long
interleavings do to state kept in several places:

* the same fact is stored more than once (`Profile` and `UsernameToAddress`,
  `CreatorCount` and the profiles, `CreatorTokens` and `Balance`, `TipCount`
  and `Tip`, credits and the tokens actually held), and each entry point updates
  its copies one by one;
* entries outlive the registration that made them: `unregister` removes
  `TipCount` and `CreatorTokens` but neither `Tip` nor `Balance` entries, and
  the same address may register again;
* every parameter (fee, recipient, caps, minimum, pause, administrator) may
  change between any two calls;
* the supporter, the creator, the fee recipient and the administrator may be
  the same address, and the token contract takes transfers the contract never
  sees;
* a client sees the contract through a network: what it simulated may no longer
  hold when its transaction is applied, it may give up on a transaction that is
  applied later, and it is run again by someone who does not know;
* an indexer knows the contract from its events alone, in which tip indices
  repeat after a re-registration and which other contracts can imitate;
* each persistent entry expires on its own clock and is extended only by some of
  the calls, so one call may need entries of very different age;
* the ledger of credits is written from the amounts callers pass and never
  compared with the token's balance, which a rebase may change at any time;
* a token may refuse a transfer although the sender holds enough (a frozen asset,
  a missing trustline), at either transfer of a tip or at a withdrawal;
* the numeric edges: fees that round to 0, fees of 100 percent that leave a
  credit of 0, products beyond `i128`, caps of 0 (disabled) and of 1.

`PROJECT.json` lists these as hazards, each at its line with the properties that
watch it.

**What makes each component correct.**

* Administration: initialization happens once and is final; only the
  administrator known from the last handover configures; a pause freezes what users can change; the fee
  always has somewhere to go that is not the contract.
* Registry: usernames and profiles are inverse to each other, the count is
  exact, caps hold at their boundary, a creator can leave exactly when it is
  owed nothing.
* Tipping: a tip moves exactly its amount, the fee is the floor of its share,
  the history has no holes and its live part never changes.
* Withdrawal: a credit goes to its owner and nobody else, every credit is
  covered by tokens and can be withdrawn whenever the contract is not paused and
  the token does not refuse.
* Errors and token rejections: a call that is refused leaves everything as it was;
  what a token refuses holds up only the calls that need the holding concerned,
  and can be repeated.
* Events: they suffice to rebuild configuration, registry, credits and live
  history, whatever is published in between.
* Storage lifetime: what a recently tipped creator needs is never archived.
* Rebasing token: the divergence it causes stays within that token, and no
  call of the contract moves it by a whole share.
* Property test: its oracle is right after every operation, not only about the
  batches it happens to draw.
* Clients: one tip however often the script is run, no success reported that did
  not happen, and an end to every run.

## 2. The modules

| Module | What it is |
|---|---|
| `StellarTipState` | constants and their assumptions, one variable per `DataKey`, storage helpers, token transfer, views |
| `StellarTip` | `Init`, one action per state-changing entry point, `Next`, `Spec` |
| `StellarTipProperties` | type invariant, safety and action properties, and the statements of the documentation that the code does not keep |
| `UsernameRegistry` | abstract specification: a name is claimed by somebody who has none and released by its owner |
| `TipEscrow` | abstract specification: what the contract holds and what it owes change together; it pays only what it owes, to whom it owes it |
| `StellarTipRefinement` | the two refinement mappings |
| `StellarTipErrors` | for every entry point its checks in order with their errors; calls as values, their answer and their step |
| `StellarTipRefusals` | the contract beside a caller that is refused once and remembers the call; the documented rule about errors never to be retried |
| `TokenRejections` | the contract over tokens that may refuse a transfer, and a creator that repeats a refused withdrawal |
| `TipClient` | the TypeScript client, the network and everybody else, composed with the contract |
| `StellarTipEvents` | the event of every entry point, the indexer that replays the stream, the orchestrator |
| `RebasingToken` | the token of `src/fixtures.rs` |
| `RebasingCustody` | the contract with one rebasing token among its tokens, whose other tokens are an instance of `TipEscrow` |
| `StorageLifetime` | every entry point with its footprint and its extensions; closing ledgers, archival, restoration |
| `FuzzHarness` | the batch of the property test with its oracle, driving the contract |
| `MCStellarTip`, `MCRejections`, `MCRefusals`, `MCClient`, `MCEvents`, `MCRebasing`, `MCLifetime`, `MCFuzz` | the small instances for TLC |
| `StellarTipProofs` | types, registry, credits, histories, fees |
| `StellarTipRefinementProofs` | the two refinements; sums of credits, solvency, withdrawal and exit |
| `StellarTipControlProofs` | administration, pause, caps, settlement of tips, token rejections |
| `TipClientProofs`, `StellarTipEventsProofs`, `StorageLifetimeProofs`, `RebasingCustodyProofs`, `FuzzHarnessProofs` | the theorems about the compositions |

`StellarTipErrors` has no variables of its own. `StellarTipRefusals`,
`TokenRejections`, `TipClient`, `StellarTipEvents` and `FuzzHarness` extend it: a
simulation is `outcome(call)` on the current state, and a call that the ledger applies is `Invoke(call)`, a step of
`StellarTip`. `StorageLifetime` conjoins to each action of `StellarTip` what it
needs to be live and what it extends. `RebasingCustody` replaces the token
transfers: `tip` and `withdraw` are written as `TipAccepted`, `TipBooked`,
`WithdrawAccepted` and `WithdrawBooked` around the transfers, so that both kinds
of token share the contract's own checks and bookkeeping, and the lemmas about
them.

**State.** A `DataKey` with arguments is a partial function from its arguments
to the stored value, and its `DOMAIN` is the set of entries in storage: an entry
holding 0 and no entry are different states, because `tip`, `withdraw` and
`unregister` treat them differently. A key without arguments holds the value
its readers fall back to until it is written (`Admin = None`, numbers 0). A
`CreatorTokens` map with unit values is the set of its keys. `tokenBalance` is
the state of all token contracts, and the only external variable.

**Actions.** An action is a successful invocation from its first check to its
last write; a failing one changes nothing and is no step. Its guard conjoins
every check of the entry point, the traps included (overflow of the fee product,
of a credit, of the counters; a transfer the sender cannot afford; extending the
TTL of a missing `CreatorTokens` entry, line 908). Where a property says that a
call would go through, the guard has a name of its own: `CanTip`, `CanWithdraw`
and `CanUnregister` are all that the code checks, and the sender's means to make
the transfers. `require_auth` restricts
callers to `Account`, the addresses that can sign; the contract and the all-zero
address cannot. `direct_transfer` is a holder moving tokens outside the
contract.

**Abstractions.** Display name and biography are one `Text`, of which only
"too long" is visible to the code; the tip message and the timestamps are left
out, no branch and no property reads them. Token transfers move exactly the
amount, as the Stellar Asset Contract does, except in `RebasingCustody`. They
fail for one reason only, that the sender holds too little (`CanTransfer`), except
in `TokenRejections`: lines 152-157 and `docs/client-failure-handling.md:59` name
frozen assets and other rejections as well. Everywhere but there, "a credit can be
withdrawn" (`CreditWithdrawable`, `PaidWhileBacked`, `RecentCreditWithdrawable`)
therefore means that neither a check of the contract nor a lack of tokens on its
side stands in the way; it says nothing of a token that has frozen the contract
or the creator.
`MAX_U32`, `MAX_U64` and `MAX_I128` are constants so that TLC can reach the
overflow checks. Each surrounding is a module of its own, so that its state does
not multiply that of the others.

**Errors.** A table of checks is a sequence of pairs, a condition to go on and
the error otherwise, in the order of the code; `FirstError` is what
`panic_with_error!` does. The tables say what a caller is told; the other modules
use them for simulations and for the answers to calls that are refused.

**Token rejections.** `frozen` is the set of holdings from and to which the token
moves nothing, for whatever reason; the issuer or the holder may change it between
any two calls (`freeze`, `thaw`). `tip` makes its transfers from the supporter to
the contract and, if there is a fee, from there to the fee recipient; `withdraw`
one from the contract to the creator. If the token refuses one of them the
invocation traps with all its writes, so there is no step, and what the caller is
told is `answer`: a trap of the host and not `TransferFailed`. `rejected` is a
withdrawal that ended that way and will be repeated. It is a history variable:
only the properties read it.

**Clients.** `runs` counts how often the script was started, `phase` and `stage`
are its program counter (`load`, `simulate`, `send`, `poll` within the call
`register` or `tip`), `tx` the transaction it built, `polls` and `result` the loop
that waits for the outcome. A transaction is the call, the sequence number read
from the account and the expiry second, which is what tells two transactions of
the same call apart. The network is three variables: `sequence`, the account's
sequence number; `pool`, what was accepted and is not in a ledger; `applied`, the
outcome of each transaction that is. It applies a transaction only at the next
sequence number, may apply it long after the script gave up, may drop it, and may
fail it for reasons of its own (the footprint recorded by simulation no longer
fits). The views the script calls for printing change nothing and are
left out; that they fail is one of the causes of `interrupted`. Runs follow one
another: two copies of the script at the same time are outside what the example
claims.

**Events.** The stream itself is not kept. `copy` is what an indexer has after
the events so far: `Replayed` is its reaction to one event, `Filtered` drops those
of other contracts. INIT carries
neither caps nor minimum, so the copy knows them only from their first change; a
registration starts a new history, whose indices begin at 0 again. `usurped` is
the indexer's audit: whether a setter's event, or a second INIT, ever named
another address than the administrator of the events before. The
orchestrator's target `stellar_tip` is any address of `StellarTipInput`; one that is not
the contract may publish events of exactly the same form, answers with any index,
and does nothing to the contract. Whatever the target, the orchestrator publishes
ORCH_TIP or ORCH_REG afterwards (`PublishVia`), with the index it was given. Those
are events of another contract, and the filter of
`docs/indexer-event-schema.md` drops them.

**Lifetimes.** Each map of `StellarTip` that holds persistent entries has a map
beside it with the ledgers left of each entry: `TipCountLife`, `BalanceLife`,
`CreatorTokensLife`, `TipLife`. All instance keys are one entry with one
lifetime. `SetExtended` is a write followed by the extension, `Remove` ends an
entry and its clock. `lasting_tip` and the others first require every entry of their
footprint to be live or absent. `sinceCredit` is a history variable that counts the ledgers
since the last tip to a creator in a token, and nothing reads it but the
properties. `LedgerCloses` and `restore` are steps of the ledger and of anybody.
Lifetimes of the token contracts' entries are the tokens' own affair, and direct
transfers, which touch no entry of the contract, are left out.

**The rebasing token.** A balance is `shares * num / den`, truncated, and a
transfer converts its amount to shares, truncated as well. After a rebase to 0
every transfer divides by zero and traps. `Moved` reads both balances before it writes either, as the
fixture does. The fixture does not check the sign of an amount either; the
contract passes positive ones, and so do the holders of `TokenOwnStep`.

**The property test.** One action is one operation of a batch. A tip takes two
actions, because the test reads `is_paused` first and judges the outcome by it.
The test funds a new supporter for each tip; one supporter who holds `Supply`
stands for all of them, since the contract does not tell supporters apart. The
final comparison is made after every operation, since a batch may end there.

The operators named `Fault...` are no part of the system. Each is a plausible
wrong version of the definition below it, used to confirm that the properties
detect it; the pairs are under `mutants` in `PROJECT.json`.

## 3. The runs

Unless the table says otherwise a run has two accounts, each of which may be
supporter, creator, fee recipient and administrator.

| Run | Bounds beyond the accounts | What it shows |
|---|---|---|
| `registry` | two usernames, two short texts and a long one, caps 0 and 1, histories of at most 2 tips (`MAX_U64`) | `RegistryConsistent`, `CreatorCountExact`, `HistoryContiguous`, `ExitIffSettled`, `CapsBoundGrowth`, `LiveHistoryImmutable`, `ImplementsRegistry` |
| `funds` | two usernames, two tokens, amounts 1 and 2, fees 0, 50 and 100 percent | `NoStrandedCredit`, `TrackedTokensBacked`, `Solvent`, `CreditWithdrawable`, `CreditLeavesToOwner`, `ImplementsEscrow` |
| `settlement` | amounts 0 to 2, fees 0, 50, 100 and 100.01 percent, minima -1, 0 and 2, caps 0 and 1, `MAX_I128` of 15000, every address as fee recipient, the contract and the zero address among the successors of the administrator, direct transfers to the contract | `TypeOK`, `FeeAlwaysPayable`, `TipSettlesExactly`, `SurplusPreserved`, `AdminSuccession`, `PausedFreezesUsers` |
| `rejections` | two tokens, amounts 1 and 2, a fee of 50 percent, histories of at most 2 tips, direct transfers to the contract; one account's holding in one token and the contract's in the other may be frozen and freed at any time | `RejectionsConfined`, `RejectedWithdrawalStands` |
| `client` | two runs, 2 polls per call, two expiry seconds; the other account administers, competes for the name and tips | `TipsOnce`, `PrintedIndexIsOwnTip`, `RegistrationShown`, `ScriptEnds` |
| `events` | one username, amounts 1 and 2, fees 0 and 50 percent, minima 0 and 1, either account as administrator; orchestrated calls to the contract and to another one | `ReplayedConfig`, `ReplayedLedger`, `ReplayedHistory`, `OnlyAdminConfigures` |
| `rebasing` | an ordinary and a rebasing token, amounts 1 and 3, supply 3, a fee of 50 percent, factors 1, 2, 1/2 and 0 | `OtherTokensWithdrawable`, `PaidWhileBacked`, `DivergencePersists` |
| `lifetime` | one account in every role, two tokens, amounts 1 and 2, fees 0 and 100 percent, entries extended to 4 ledgers when at most 2 are left, 1 for a new entry | `RecentlyTippedLive`, `RecentCreditWithdrawable`, `TipHeldUpByOldEntriesOnly`, `WritesOutliveThreshold` |
| `fuzz` | administrator, recipient, two creators and the supporter; amounts 1, 4 and 5, fees 0, 25 and 100 percent, until the 11 units are spent | `OracleAgrees`, `TipFailsIffPaused` |
| `forgotten_history`, `leftover_balances`, `never_retry` | one username, one token | the three divergences of section 5 |

**Why the bounds are enough to reach the cases.** Two accounts make every role
coincidence and every two-party interleaving possible; two usernames and two
tokens are the fewest that can be mixed up. A history of two tips is long
enough for a record to be overwritten, a cap of 1 to be met exactly, and to be set
below a count of 2. Amounts 1 and 2 at 50 percent give a fee that
rounds to 0 and one that does not; 100 percent gives a credit of 0, so that a
`Balance` entry holding 0 exists. `MAX_I128` of 15000 lets the product of amount
and basis points overflow for an amount of 2 at 100 percent and for no smaller
one. In `rejections`, one account is frozen in turn as supporter, creator and fee
recipient, in one token, and the contract in the other; 50 percent of 1 is a
fee of 0, for which a frozen recipient does not matter. In `events` the caps, the
recipient and the target of setters other than the minimum have one value each, so
TLC sees the administrator, the fee, the minimum and the pause change, and
`ConfigReplay` of section 6 covers the others. In `fuzz`, 25 percent of 1, 4 and 5 gives a
fee that rounds to 0, an exact one and one that is truncated, and `MAX_I128` and `MAX_U64`
are the least that `BatchSizeAssumption` allows: a batch of at most 30 tips of at
most 10,000,000 stays far below both limits of the code. In `rebasing`, the
factors are those of the repository's tests, and an amount of 1 is no whole
number of shares after a doubling. In `lifetime`, 4 - 2 leaves a ledger between
an extension and the moment an entry may be extended again, and two tokens give
entries of one creator with different ages; a second account would have
entries of its own only. `MAX_RUNS = 2` lets the first run of a client leave a
registration or a tip behind, pending or applied, which the second one meets;
`MAX_POLLS = 2`, 30 in the example, lets a loop end early, at its bound, and with
a result from its first pass overtaken in its second. The theorems of section 6
hold for any number of runs and polls. Every action and every disjunct of the
next-state relations fires in some passing run.

**Symmetry and view.** Usernames and tokens are symmetric where no input set
names one; accounts are not (`init` and the configuration tell them apart by name
in the cfg). The runs that say nothing about what records contain use the view
`WithoutRecords`, which drops the `Tip` entries: no entry point reads them, so two
states that agree on everything else have the same future in everything those
runs check. (In `lifetime` the clocks of the records stay in the view.) `events`
keeps the live records and drops the others (`WithoutStaleRecords`).
`settlement` checks the record of the tip being made, which is written by the
step itself, and TLC checks action properties on every step it generates; that
all older records have their type is `TypeCorrectness`.

**Deadlock** is checked in every passing run but one: the administrator can always
pause, and before `init` anybody can initialize; in `lifetime` ledgers close for
ever. In `settlement` the role can go to the contract itself, and the system may
really stop: paused for good, with all tokens in the contract.

**Fairness.** The contract has none. Nobody is obliged to call it and nothing in it
runs by itself, so a liveness property would rest on fairness that the code does
not justify. What would be liveness elsewhere, "a creator gets its money", is
stated as `CreditWithdrawable` (every part of every credit can be withdrawn at
once unless the contract is paused) and `ExitIffSettled`. The client has weak
fairness of the script's own steps (`FairClientSpec`): a process that is not
stopped keeps executing, and its requests return or fail, which is also the
script's progress. Neither the network nor being stopped is fair, so `ScriptEnds`
holds even if no transaction is ever applied; it rests on the poll counter alone.

## 4. Properties worth explaining

* `NoStrandedCredit` and `TrackedTokensBacked` relate the token set to the
  credits in both directions. `unregister` trusts the set (731-741), so the
  first one is why no credit can be left behind; the second one is why the set
  does not grow stale.
* `CreditWithdrawable` says that `CanWithdraw` holds, the whole guard of
  `withdraw`, the trap on line 908 included; `withdraw` is that guard and
  assignments, so the action can then be taken. `ExitIffSettled`,
  `TipFailsIffPaused`, `RecentCreditWithdrawable`, `TipHeldUpByOldEntriesOnly` and the two
  of `RebasingCustody` are stated in the same way, which makes them provable.
* `SurplusPreserved` says more than solvency: whatever `tip` and `withdraw` do
  to credits they do to holdings, to the unit, so a surplus left by a direct
  transfer can never hide a wrong debit.
* `TipSettlesExactly` states the settlement of a tip for every coincidence of
  roles, as the gain of every address.
* `LiveHistoryImmutable` is the part of "tips are permanent" that is true: while
  a creator stays registered. `TipHistoryPermanent` is the documented claim.
* `OnlyAdminConfigures` is about who calls: through any sequence of handovers, every
  change of the configuration comes from the address the events before it name as
  administrator. A setter that forgets to compare its caller breaks it.
* `AdminSuccession` is what a second successful `init` would violate. It does not
  say who calls. It also says
  what the loose check of `set_admin` (485-491) can lead to: the role is never with
  the zero address, but it can go to the contract or to another address that cannot
  sign, and then the configuration, a pause included, stays as it is
  (`PauseForGood` in section 6).
* `HistoryContiguous` is about every page a reader can ask for, the ones whose end
  is no `u64` included: those trap, and no page is answered that ends too early.
* `RejectionsConfined` says how far a refusal of the token reaches. A withdrawal
  traps only because the contract or the creator is frozen in that token, and never
  for lack of tokens. A tip traps only because the supporter cannot pay, a number
  gets too large, or the supporter, the contract or (with a fee) the fee recipient
  is frozen: not because the creator is, and never because the contract lacks the
  fee, which the administrator may have raised since the supporter signed. The last
  case is a price of the design: a fee recipient that cannot receive a token stops
  all tips in it that carry a fee. #15 is never the answer.
* `RejectedWithdrawalStands` is about what happens between a refused withdrawal and
  its repetition: tips, handovers, changes of the fee, attempts to leave. None of them
  may cost the creator the credit; in particular it cannot unregister meanwhile.
* `ReplayedLedger` and `ReplayedHistory` compare the views with a copy that
  has seen nothing but events, among them those of an orchestrator whose index its
  caller made up and of contracts that imitate this one. A TIP event carries the fee that was charged, which is why
  the copy stays exact when a FEEC event lies between two tips; a history copied
  without starting again at a registration would mix two.
* `DivergencePersists` is the price of a ledger that is never compared with
  balances: no call moves the gap a rebase opened by a whole share, and only a tip
  moves it down. It bounds a call and not the sum of many: the rounding of many tips
  may use up a surplus. `PaidWhileBacked` says who bears a shortfall:
  whoever withdraws last; and how far rounding lets one creator draw on it.
* `RecentlyTippedLive` is the guarantee the extensions give. Withdrawals extend
  only some of the entries (902-921), so it cannot be stated for creators that only
  withdraw. `TipHeldUpByOldEntriesOnly` is what is left open: entries of another
  token, and records of an earlier registration, which nothing extends any more
  and which the next tip at their index overwrites.
* `WritesOutliveThreshold` is a property of each write and independent of any
  history: a `set` that is not followed by its extension breaks it.
* `OracleAgrees` holds after every operation, so a batch of the property test
  that fails shows a fault of the contract and never one of the oracle.
  `TipFailsIffPaused` says that none of the other checks of `tip` can fail in a
  batch, whatever its amounts; the test runs in one thread, so the pause cannot
  change between its question and the tip.
* `TipsOnce` is not what the script checks: it checks nothing. It holds because
  every run starts with `register`, which is refused once the first run's
  registration is applied, and because a run gets to `tip` only if its own
  registration was. A script that skipped a finished registration, the first
  improvement one would make, would tip twice (mutant `FaultSkipRegistered`).
* `PrintedIndexIsOwnTip` relates the script's output to the contract's history
  while others tip the same creator.

## 5. Where code and documentation disagree

1. **Tip history is not permanent** (`forgotten_history`). `README.md:19` says
   every tip is permanently recorded. After `unregister` and `register` the next
   tip is recorded at index 0 again and overwrites the old record (746, 683,
   861). Line 950, "the total number of tips a creator has ever received",
   fails for the same reason.
2. **`unregister` leaves `Balance` entries** (`leftover_balances`).
   `docs/API_REFERENCE.md:144` says it removes all of them, and
   `docs/ARCHITECTURE.md:179` that zero-balance records are pruned; it removes
   none (731-748). The entries left are zero (`NoStrandedCredit`), as after a
   tip with a fee of 100 percent, so no money is affected.
3. **Errors "never to be retried" whose condition lifts** (`never_retry`). Lines
   101-102 call nine errors "Never retry (deterministic)", as opposed to those of
   line 104, whose condition lifts; `docs/client-failure-handling.md:32-36` says
   that the same call always fails in the same way without first resolving the
   condition, and the table at 209-226 says "Never". Four of the nine are final or do
   not occur: #6 and #12 depend on the arguments, #9 on an `init` that is never
   undone, #15 is unreachable (`RejectionsConfined`). The other five are not, and
   what resolves them may be done by somebody else: #8 before `init`, which the run
   shows; #3 until the holder of the name leaves; #11 until the role is handed
   over; #1 until the creator leaves; #13 until it withdraws, after which lines
   234-235 themselves say to retry.

Read in the code and not checked by a run: `TransferFailed` (#5) is never raised,
whatever lines 152-157 say, since a failing token call (820) traps; lines 246-247
say to retry #14 only after the administrator raises the cap, but a full registry
also admits a creator again when another one leaves (750); the Python example
stops with a NameError on import, because lines 45-49 of `register_and_tip.py` call
`require_env`, which line 263 defines; `examples/rust/src/lib.rs:103-104` offers
ORCH_TIP for observing orchestrated tips, but it is published whatever contract was
called and with the index that one returned, so alone it is no evidence of a tip;
overflow in `tip` (806) and
`get_tips` (965) traps without a typed error although `docs/ARCHITECTURE.md:191`
says every failure path has one; the administrator's setters do not call
`check_initialized_and_not_paused`, whatever `docs/ARCHITECTURE.md:213` says about
it; `docs/API_REFERENCE.md:194` says `get_tip` answers `None` for an index out of
range, but the code does not look at `TipCount` (956-958) and `unregister` leaves
the records; `docs/ARCHITECTURE.md:187` says `set_admin` rejects the contract's
own address, but lines 485-491 reject only the caller and the all-zero address;
`docs/ARCHITECTURE.md:114` says entries are extended on every read and write,
line 143 of the same file on every write, and the code does the latter
(`WritesOutliveThreshold`); the output that `examples/rust/src/lib.rs:163` shows
lists its own event before the contract's, which is published first.

## 6. What is proved

For every value of the constants that satisfies `AddressAssumption` (accounts,
the contract and the all-zero address are different; None is no address) and
`NumberAssumption` (the types of the inputs and limits), and, where the table says so, the
assumption of the composition:

| Theorem | Statement | Argument |
|---|---|---|
| `TypeCorrectness` | `Spec => []TypeOK` | inductive; the only arithmetic is `FeeBounds` (a fee of at most 100 percent lies between 0 and the amount), which keeps credits non-negative, and the overflow guards |
| `RegistryConsistency` | `Spec => []RegistryConsistent` | inductive given `TypeOK` |
| `CreatorCountExactness` | `Spec => []CreatorCountExact` | needs the strengthening `CountInv`: before `init` there is no profile, or `init`'s reset of the counter would break it |
| `CreditSafety` | `Spec => []NoStrandedCredit` | inductive given `TypeOK`; at `unregister` the credits it does not look at are those of untracked tokens, which the invariant says are 0 |
| `HistoryContiguity` | `Spec => []HistoryContiguous` | from `HistoryInv`: `TipCount` exists for exactly the profiles, and there is a record at every index below it, so every page that does not trap is whole (`HistoryHasNoHoles`) |
| `LiveHistoryImmutability` | `Spec => LiveHistoryImmutable` | `tip` writes at `TipCount`, above every live record; a registered creator cannot register again |
| `FeePayability` | `Spec => []FeeAlwaysPayable` | inductive |
| `RegistryRefinement` | `Spec => ImplementsRegistry` | step simulation under `TypeOK` and `RegistryConsistent`, which make the name `unregister` frees the caller's own |
| `EscrowRefinement` | `Spec => ImplementsEscrow` | step simulation under `TypeOK` and `FeeAlwaysPayable`: a tip is a collection, or nothing if the fee takes all; a withdrawal is a payment; a direct transfer is a gift or passes by |
| `CreditOwnership` | `Spec => CreditLeavesToOwner` | from what `tip` and `withdraw` do to the views |
| `AdminAuthority` | `EventSpec => []OnlyAdminConfigures` | with `ConfigReplay`: the administrator the indexer knows is the stored one, which every setter compares with its caller, and `init` happens once; the orchestrator's events are ignored (`OrchestratorIgnored`, under `OrchestratorAssumption`: it is not the contract) |
| `AdminFinality` | `Spec => AdminSuccession` | `AdminHandover`: a step of the administrator needs its signature, and one that changes the administrator writes nothing else; `ConfigFrame`: no other step writes the configuration; `NotZeroAdmin` is inductive |
| `PauseForGood` | `Spec => [](PausedForGood => []PausedForGood /\ [][UNCHANGED Stored]_vars)` | from `AdminFinality` and `PauseFreeze`: paused under an administrator that cannot sign, the contract never changes again |
| `PauseFreeze` | `Spec => PausedFreezesUsers` | every user step has passed `check_initialized_and_not_paused`; by `CountInv` the count that `init` resets is 0 already |
| `CapEnforcement` | `Spec => CapsBoundGrowth` | under `TypeOK` and `HistoryInv`, the step that raises a count has checked it against the cap in force |
| `TipSettlement` | `Spec => TipSettlesExactly` | the two transfers for each coincidence of roles under `FeeAlwaysPayable`, and `FeeFloor` for the fee |
| `Solvency` | `Spec => []Solvent` | the surplus is 0 at the start (`InitSolvent`) and no step lowers it (`StepSurplus`); rests on `FiniteBalance` (finitely many credits are on record) and the theory of sums below |
| `SurplusPreservation` | `Spec => SurplusPreserved` | `TipCredits` and `WithdrawCredits` give the change of the sum of all credits, `TipHeld` and `WithdrawMoves` that of the holding; they are equal under `FeeAlwaysPayable` |
| `CreditWithdrawal` | `Spec => []CreditWithdrawable` | a credit is at most the sum (`CreditInSum`), the sum at most the holding (`Solvency`), the owner is registered and has a token set (`NoStrandedCredit`) |
| `ExitRule` | `Spec => []ExitIffSettled` | the tokens that `unregister` looks at are, by `NoStrandedCredit`, all tokens with a credit |
| `RejectionsHarmless` | `RejectionSpec => Spec` | a refusal only forbids steps, so the theorems above hold whatever tokens refuse. Under `FreezableAssumption` (what may be frozen are holdings) |
| `RejectionConfinement` | `RejectionSpec => []RejectionsConfined` | a table answers with its first failing check (`FirstFailure`); the check for #15 follows from the first one by `FeeAlwaysPayable`, those of `withdraw` that trap from the ones before by `Solvency` (`CreditCovered`) and `NoStrandedCredit`, that of the second transfer of a tip from the first transfer and `FeeFloor` |
| `RejectedWithdrawals` | `RejectionSpec => []RejectedWithdrawalStands` | `RejectedCovered`: the credit is still at least the refused amount, since only a withdrawal by its owner lowers it (`TipEffect`, `WithdrawEffect`) and after that one it is no longer remembered; then `CreditWithdrawal` |
| `TokenTracking` | `Spec => []TrackedTokensBacked` | inductive given `TypeOK`; at a full withdrawal the entry and the membership end together |
| `ClientUsesContract` | `ClientSpec => Spec /\ []NetworkInv` | every step of the composition is a step of the contract or leaves it alone; `NetworkInv` says the network carries only the script's two calls, each pending or applied but not both. So all theorems above hold of the composition |
| `ClientTipsOnce` | `ClientSpec => []TipsOnce` | `OnceInv`: all tips the network has been given are the same transaction; there is none before the owner is registered, and none while a run that may still tip is on its way. It needs `RegisterAnswer` and `TipAnswer` (what a simulation that succeeds says) and `OwnerStays` (nobody else can remove the profile) |
| `RegistrationTruth` | `ClientSpec => []RegistrationShown` | `PollInv`: a success that polling returned is in the ledger; `ShownInv`: from the first successful registration on the profile is there |
| `PrintedIndex` | `ClientSpec => []PrintedIndexIsOwnTip` | `IndexInv` about the outcomes in the ledger, kept by `LiveHistoryImmutability` and `OwnerStays` |
| `RunsAreBounded` | `ClientSpec => []` (`StepsLeft` is at most `2 * (MAX_POLLS + 4)`, and positive exactly while a run is under way) and `[][OnlyMainRefills]_clientVars` | the variant behind `ScriptEnds`: each step of the script lowers `StepsLeft` (`ScriptShrinks`), and of all other steps only `main` raises it |
| `ObserversHarmless` | `EventSpec => Spec` | every step of the composition is a step of the contract or leaves it alone, so all theorems above hold beside orchestrators and indexers |
| `ConfigReplay` | `EventSpec => []ReplayedConfig` | inductive: each setter's event carries the value it wrote |
| `LedgerReplay` | `EventSpec => []ReplayedLedger` | `CopiedLedgerInv`: the copied registry is the usernames of the profiles, the copied credits are the views; the reverse map follows from `RegistryConsistent` |
| `HistoryReplay` | `EventSpec => []ReplayedHistory` | `CopiedHistoryInv`, with `HistoryInv` for the index of a tip and for the empty history at a registration |
| `LifetimeRestricts` | `LifetimeSpec => Spec` | archival only forbids steps. Under `LifetimeAssumption` (an entry is extended to more than the threshold) |
| `TippedCreatorStaysLive` | `LifetimeSpec => []RecentlyTippedLive` | `LifetimeInv`: an entry needed by a creator tipped `a` ledgers ago has more than `TTL_THRESHOLD - a` ledgers left (`Fresh`) |
| `WritesAreExtended` | `LifetimeSpec => WritesOutliveThreshold` | action by action: what is written is extended, the rest keeps its value |
| `RecentCreditsPayable`, `TipHoldUps` | `LifetimeSpec => []RecentCreditWithdrawable`, `[]TipHeldUpByOldEntriesOnly` | `CreditWithdrawal` holds here by `LifetimeRestricts`, and `TippedCreatorStaysLive` keeps what `withdraw` and `tip` read alive |
| `DivergenceConfined` | `CustodySpec => []OtherTokensWithdrawable` | `CustodyInv`: the contract's invariants with solvency in the other tokens only. The composition does not implement `Spec` (a tip in the rebasing token brings less than it credits), so the invariants are proved again, from the lemmas about checks and bookkeeping that both share |
| `PaymentUpToBalance` | `CustodySpec => []PaidWhileBacked` | `Conversion`: `nominal_to_shares` rounds down by less than a share; an amount within the balance converts to no more than the shares |
| `DivergenceStays` | `CustodySpec => DivergencePersists` | what a call does to the contract's shares (`TipShares`, `WithdrawShares`) and to its debts (`TipCredits`, `WithdrawCredits`) differs by the remainders of its conversions: two for a tip with a fee, one of each sign, one for a withdrawal |
| `OtherTokensRefinement` | `CustodySpec => OtherTokensEscrow` | a call in another token is a step of the escrow of those tokens (`EscrowRestricts`, from the same steps as `EscrowRefinement`), a call in the rebasing token and a rebase pass it by (`OthersUntouched`) |
| `LedgerSurvivesRebase` | `CustodySpec =>` `RegistryConsistent`, `CreatorCountExact`, `HistoryContiguous`, `NoStrandedCredit` and `ExitIffSettled` always, `LiveHistoryImmutable`, `ImplementsRegistry` | `LedgerInv` is inductive beside `CustodyInv`: a call in the rebasing token differs in its transfers only (`RebasingStepBooks`), and the lemmas about registry and records speak of the bookkeeping. After a rebase to 0 a creator that is owed the token can neither withdraw nor, by `ExitIffSettled`, leave |
| `HarnessUsesContract` | `BatchSpec => Spec /\ []BatchInv` | as `ClientUsesContract`; `BatchInv` has the configuration the batch keeps. Under `BatchAssumption` (the roles of the test are different accounts, as it generates them) |
| `OracleSoundness` | `BatchSpec => []OracleAgrees` | inductive given `TypeOK` and `BatchInv`; the oracle's fee is the contract's because the fee stays what `new` was given |
| `TipsFailOnlyPaused` | `BatchSpec => []TipFailsIffPaused` | `TipReadyInv`: a creator's credit and number of tips, each with what the supporters still hold, stay within `Supply`. Under `BatchSizeAssumption` no check but the pause can then fail |

**Sums.** `Solvent` adds up credits with `MapThenSumSet`, a recursive function on
the subsets of a set. The library's induction theorems cannot be instantiated
with an operator, so its value is found in another way: the units of the credits
(`Units`: one pair per key and unit) are a finite set whose cardinality satisfies
the recursive equation (`UnitsOfOneMore`), so the equation has a solution; that
the sum is this one follows by a least counterexample (`SumIsCount`, from the
well-foundedness of the strict subset order on a finite set). From there on only
`SumOfOneMore` and `SumOfSame` are used, and `CreditsAfterPut` and
`CreditsAfterRemove` say what writing one entry does to the sum.

The client theorems rest on `ClientAssumption` (the types of the script's
parameters), those about the rebasing token on `RebasingAssumption` (a factor is a
natural number over a positive one, as `rebase` checks). `TipEffect`, `WithdrawEffect` and `TipBooksHistory` say once what
an entry point does as seen through the views; the invariance proofs use them
instead of the definitions. `StepKinds`, `AdminFrame` and `MoneyFrame` split a
step into the kinds the invariants distinguish and say what each kind leaves
alone.

**Only model-checked.** `ScriptEnds` is liveness under fairness and out of the
prover's reach (`RunsAreBounded` proves that a run cannot go on for ever; that a
script with steps left can take one, and so does under weak fairness, is TLC's).
The three runs of section 5 show violations. `OtherTokensEscrow`, `PauseForGood`
and `LedgerSurvivesRebase` are theorems without a run of their own.

## 7. Not modelled, and the plan

* **Rollback.** A failing invocation is no step. That the host discards its
  writes, transfers and events is the host's doing; no code of the repository
  takes part in it.
* **The Python example.** It stops on import (section 5), so there is no behaviour
  to model; how it would poll if the helper were defined first is not examined.
* **The order of the checks** of an entry point is in `StellarTipErrors` as the code
  has it. No document states an order to compare it with.
* **Getters** that return one stored value have no operator of their own; the
  properties read the variable.
* **The rebasing token's** metadata and the methods that only say they are not
  supported.
* **The other four property tests** are single sequences of operations that the
  batch contains, and claim what `OracleAgrees` and `TipSettlesExactly` say.
* **Unit tests, scripts and CI configuration** are fixed sequences without state
  of their own; the fork tests are stubs.
* **Two copies of a client at once** are outside what the example claims.

What could still be added is one composition of clients and storage lifetime, in
which a simulated footprint names the entries to restore (now one of the causes
for which the network may fail a transaction).

## 8. Running

```
for run in registry funds settlement forgotten_history leftover_balances; do
    tlc -workers 2 -config $run.cfg MCStellarTip
done
tlc -workers 2 -config rejections.cfg MCRejections
tlc -workers 2 -config never_retry.cfg MCRefusals
tlc -workers 2 -config client.cfg MCClient
tlc -workers 2 -config events.cfg MCEvents
tlc -workers 2 -config rebasing.cfg MCRebasing
tlc -workers 2 -config lifetime.cfg MCLifetime
tlc -workers 2 -config fuzz.cfg MCFuzz

for module in *Proofs.tla; do tlapm $module; done
```
