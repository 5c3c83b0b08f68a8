--------------------------- MODULE StellarTipEvents ---------------------------
(***************************************************************************)
(* The events of the StellarTip contract, an indexer that knows the        *)
(* contract from its events alone, and the orchestrator contract of the    *)
(* examples, which forwards calls to a contract of its caller's choice and *)
(* publishes events of its own.                                            *)
(*                                                                         *)
(* Every successful invocation publishes its events in the order of its    *)
(* publish calls and a failed one publishes none, so the stream an indexer *)
(* reads is the sequence of steps.  Only what replaying it yields is kept. *)
(***************************************************************************)
EXTENDS StellarTipErrors

CONSTANTS
    Orchestrator,       \* the orchestrator contract's address
    StellarTipInput     \* addresses callers give the orchestrator as stellar_tip

ASSUME OrchestratorAssumption == Orchestrator # Contract

VARIABLE copy           \* the indexer's state after the events so far

eventVars == <<vars, copy>>

------------------------------------------------------------------------------
(* What the entry points publish: topic, acting address, payload.          *)

InitEvent(call) ==
    [topic |-> "INIT", actor |-> call.caller,
     fee_recipient |-> call.recipient, fee_bps |-> call.bps]

FaultSetterTopic ==
    [set_admin |-> "ADMC", pause |-> "PAUS", unpause |-> "PAUS",
     set_fee_percentage |-> "FEEC", set_fee_recipient |-> "FERC",
     set_max_creators |-> "CAPMC", set_max_tips_per_creator |-> "CAPMT",
     set_min_tip_amount |-> "MINTC"]

\* The setters' topics; the payload is the new value, none for a pause.
SetterTopic ==
    [set_admin |-> "ADMC", pause |-> "PAUS", unpause |-> "UNPA",
     set_fee_percentage |-> "FEEC", set_fee_recipient |-> "FERC",
     set_max_creators |-> "CAPMC", set_max_tips_per_creator |-> "CAPMT",
     set_min_tip_amount |-> "MINTC"]

SetterEvent(call) ==
    [topic |-> SetterTopic[call.fn], actor |-> call.caller, value |-> call.arg]

RegisterEvent(call) ==
    [topic |-> "CREG", actor |-> call.caller, username |-> call.username]

ProfileEvent(call) ==
    [topic |-> "PUPD", actor |-> call.caller,
     username |-> get_profile(call.caller).username]

UnregisterEvent(call) == [topic |-> "UREG", actor |-> call.caller]

FaultTipEventIndex(call) ==
    [topic |-> "TIP", actor |-> call.caller, creator |-> call.creator,
     token |-> call.token, amount |-> call.amount, fee |-> FeeOf(call.amount),
     index |-> get_tip_count(call.creator) + 1]

FaultTipEventFee(call) ==
    [topic |-> "TIP", actor |-> call.caller, creator |-> call.creator,
     token |-> call.token, amount |-> call.amount, fee |-> 0,
     index |-> get_tip_count(call.creator)]

TipEvent(call) ==
    [topic |-> "TIP", actor |-> call.caller, creator |-> call.creator,
     token |-> call.token, amount |-> call.amount, fee |-> FeeOf(call.amount),
     index |-> get_tip_count(call.creator)]

WithdrawEvent(call) ==
    [topic |-> "WDRW", actor |-> call.caller,
     token |-> call.token, amount |-> call.amount]

EventOf(call) ==
    CASE call.fn = "init" -> InitEvent(call)
      [] call.fn \in Setter -> SetterEvent(call)
      [] call.fn = "register" -> RegisterEvent(call)
      [] call.fn = "update_profile" -> ProfileEvent(call)
      [] call.fn = "unregister" -> UnregisterEvent(call)
      [] call.fn = "tip" -> TipEvent(call)
      [] call.fn = "withdraw" -> WithdrawEvent(call)

------------------------------------------------------------------------------
(* External: the indexer.  It learns the caps and the minimum only when    *)
(* they change, because INIT does not carry them; a registration starts a  *)
(* new history, in which tip indices repeat.  It notes (usurped) when the  *)
(* configuration was changed by anyone but the administrator it knows of.  *)

NothingRead ==
    [admin |-> None, fee_recipient |-> None, fee_bps |-> 0, paused |-> FALSE,
     max_creators |-> None, max_tips |-> None, min_tip |-> None,
     creators |-> EmptyMap,
     credits |-> [key \in Account \X Token |-> 0],
     history |-> EmptyMap,
     usurped |-> FALSE]

\* The keys of a history that are not the creator's.
OthersKeys(history, creator) == {key \in DOMAIN history : key[1] # creator}

AfterUREG(seen, event) ==
    [seen EXCEPT
        !.creators = Remove(@, event.actor),
        !.history = [key \in OthersKeys(@, event.actor) |-> @[key]]]

AfterTIP(seen, event) ==
    [seen EXCEPT
        !.credits[<<event.creator, event.token>>] = @ + (event.amount - event.fee),
        !.history = Put(@, <<event.creator, event.index>>,
                        [from |-> event.actor, token |-> event.token,
                         amount |-> event.amount])]

AfterWDRW(seen, event) ==
    [seen EXCEPT !.credits[<<event.actor, event.token>>] = @ - event.amount]

AfterINIT(seen, event) ==
    [seen EXCEPT !.admin = event.actor, !.fee_recipient = event.fee_recipient,
                 !.fee_bps = event.fee_bps, !.paused = FALSE,
                 !.usurped = @ \/ seen.admin # None]

\* An event of a setter names the administrator that called it.
Audited(seen, event) == [seen EXCEPT !.usurped = @ \/ event.actor # seen.admin]

Replayed(seen, event) ==
    CASE event.topic = "INIT" -> AfterINIT(seen, event)
      [] event.topic = "ADMC" -> [Audited(seen, event) EXCEPT !.admin = event.value]
      [] event.topic = "PAUS" -> [Audited(seen, event) EXCEPT !.paused = TRUE]
      [] event.topic = "UNPA" -> [Audited(seen, event) EXCEPT !.paused = FALSE]
      [] event.topic = "FEEC" -> [Audited(seen, event) EXCEPT !.fee_bps = event.value]
      [] event.topic = "FERC" -> [Audited(seen, event) EXCEPT !.fee_recipient = event.value]
      [] event.topic = "CAPMC" -> [Audited(seen, event) EXCEPT !.max_creators = event.value]
      [] event.topic = "CAPMT" -> [Audited(seen, event) EXCEPT !.max_tips = event.value]
      [] event.topic = "MINTC" -> [Audited(seen, event) EXCEPT !.min_tip = event.value]
      [] event.topic \in {"CREG", "PUPD"} ->
            [seen EXCEPT !.creators = Put(@, event.actor, event.username)]
      [] event.topic = "UREG" -> AfterUREG(seen, event)
      [] event.topic = "TIP" -> AfterTIP(seen, event)
      [] event.topic = "WDRW" -> AfterWDRW(seen, event)
      [] OTHER -> seen

\* Events of any other contract are discarded.
Filtered(seen, emitter, event) ==
    IF emitter = Contract THEN Replayed(seen, event) ELSE seen

\* A transaction in which the contract itself publishes one event.
Publish(event) == copy' = Filtered(copy, Contract, event)

------------------------------------------------------------------------------
(* The orchestrator: one nested call, then an event of its own, in the     *)
(* same transaction.  The contract it calls is its caller's choice; one    *)
(* that is not this contract does nothing here, may publish the events     *)
(* this one would, and returns any index.                                  *)

OrchTipEvent(call, index) ==
    [topic |-> "ORCH_TIP", actor |-> call.caller,
     creator |-> call.creator, index |-> index, amount |-> call.amount]

OrchRegEvent(call) ==
    [topic |-> "ORCH_REG", actor |-> call.caller, username |-> call.username]

\* The event of the contract called, then the orchestrator's, whatever was called.
PublishVia(stellar_tip, event, orchEvent) ==
    copy' = Filtered(Filtered(copy, stellar_tip, event), Orchestrator, orchEvent)

submit_tip(call, stellar_tip, index) ==
    /\ \/ stellar_tip = Contract /\ Invoke(call) /\ index = get_tip_count(call.creator)
       \/ stellar_tip # Contract /\ UNCHANGED vars
    /\ PublishVia(stellar_tip, TipEvent(call), OrchTipEvent(call, index))

register_creator(call, stellar_tip) ==
    /\ \/ stellar_tip = Contract /\ Invoke(call)
       \/ stellar_tip # Contract /\ UNCHANGED vars
    /\ PublishVia(stellar_tip, RegisterEvent(call), OrchRegEvent(call))

EventInit == Init /\ copy = NothingRead

EventNext ==
    \/ \E call \in Call : Invoke(call) /\ Publish(EventOf(call))
    \/ \E call \in UserCall, stellar_tip \in StellarTipInput :
          \/ call.fn = "tip" /\ \E index \in 0 .. MAX_U64 :
                                  submit_tip(call, stellar_tip, index)
          \/ call.fn = "register" /\ register_creator(call, stellar_tip)
    \/ \E src \in Account : TokenStep(src) /\ UNCHANGED copy

EventSpec == EventInit /\ [][EventNext]_eventVars

------------------------------------------------------------------------------
(* Properties.                                                             *)

\* The events suffice to know the configuration, except for a cap or minimum
\* that has not changed since init: no entry point changes what no event says.
ReplayedConfig ==
    /\ copy.admin = Admin
    /\ copy.fee_recipient = FeeRecipient
    /\ copy.fee_bps = FeeBps
    /\ copy.paused = Paused
    /\ copy.max_creators \in {None, MaxCreators}
    /\ copy.max_tips \in {None, MaxTipsPerCreator}
    /\ copy.min_tip \in {None, MinTipAmount}

\* Registry and credits rebuilt from the events are what the views answer,
\* whatever orchestrators and other contracts publish in between: a TIP event
\* carries the fee that was charged, not one to be computed again.
ReplayedLedger ==
    /\ \A address \in Account :
          is_creator(address) <=> address \in DOMAIN copy.creators
    /\ \A username \in Username :
          /\ is_username_taken(username) <=>
                \E creator \in DOMAIN copy.creators :
                   copy.creators[creator] = username
          /\ get_profile_by_username(username) # None =>
                get_profile_by_username(username).username =
                   copy.creators[get_creator_from_username(username)]
    /\ \A creator \in Account, token \in Token :
          copy.credits[<<creator, token>>] = get_balance(creator, token)

\* A creator's TIP events since its registration are its live history: the
\* pair (creator, index) names one record as long as the creator stays, and
\* the indices have neither gaps nor repetitions.
ReplayedHistory ==
    /\ DOMAIN copy.history =
          {key \in Account \X (0 .. MAX_U64) : key[2] < get_tip_count(key[1])}
    /\ \A key \in DOMAIN copy.history : copy.history[key] = get_tip(key[1], key[2])

\* Whoever changes the configuration is the administrator: the caller of the one
\* init, then the caller of every setter, is the address that the events before
\* name as administrator, through any sequence of handovers.
OnlyAdminConfigures == ~copy.usurped

==============================================================================
