------------------------ MODULE StellarTipEventsProofs ------------------------
(***************************************************************************)
(* Proofs that an indexer can rebuild the contract's state from its        *)
(* events, for every value of the constants.                               *)
(***************************************************************************)
EXTENDS StellarTipEvents, StellarTipProofs

------------------------------------------------------------------------------
(* What each kind of step does to the contract and to the indexer's copy   *)
(* at once.                                                                *)

\* The fields of the copy, whatever their values.
CopyShape ==
    copy = [admin |-> copy.admin, fee_recipient |-> copy.fee_recipient,
            fee_bps |-> copy.fee_bps, paused |-> copy.paused,
            max_creators |-> copy.max_creators, max_tips |-> copy.max_tips,
            min_tip |-> copy.min_tip, creators |-> copy.creators,
            credits |-> copy.credits, history |-> copy.history,
            usurped |-> copy.usurped]

\* The part of the copy that is not configuration.
copiedLedger == <<copy.creators, copy.credits, copy.history>>

copiedConfig ==
    <<copy.admin, copy.fee_recipient, copy.fee_bps, copy.paused,
      copy.max_creators, copy.max_tips, copy.min_tip, copy.usurped>>

\* An administrator's call and its event.
AdminShown(call) == Invoke(call) /\ Publish(EventOf(call))

RegisterShown(caller, username, text) ==
    /\ register(caller, username, text)
    /\ copy' = [copy EXCEPT !.creators = Put(@, caller, username)]

ProfileShown(caller, text) ==
    /\ update_profile(caller, text)
    /\ copy' = [copy EXCEPT !.creators = Put(@, caller, get_profile(caller).username)]

UnregisterShown(caller) ==
    /\ unregister(caller)
    /\ copy' = AfterUREG(copy, [topic |-> "UREG", actor |-> caller])

TipShown(from, creator, token, amount) ==
    LET call == [fn |-> "tip", caller |-> from, creator |-> creator,
                 token |-> token, amount |-> amount]
    IN  /\ tip(from, creator, token, amount)
        /\ copy' = AfterTIP(copy, TipEvent(call))

WithdrawShown(caller, token, amount) ==
    /\ withdraw(caller, token, amount)
    /\ copy' = [copy EXCEPT !.credits[<<caller, token>>] = @ - amount]

\* A user's call is one of five, with arguments of their types.
LEMMA UserCallKinds ==
    ASSUME NEW call \in UserCall
    PROVE  \/ \E caller \in Account, username \in Username, text \in Text :
                 call = [fn |-> "register", caller |-> caller,
                         username |-> username, text |-> text]
           \/ \E caller \in Account, text \in Text :
                 call = [fn |-> "update_profile", caller |-> caller, text |-> text]
           \/ \E caller \in Account : call = [fn |-> "unregister", caller |-> caller]
           \/ \E from, creator \in Account, token \in Token, amount \in Amount :
                 call = [fn |-> "tip", caller |-> from, creator |-> creator,
                         token |-> token, amount |-> amount]
           \/ \E caller \in Account, token \in Token, amount \in Amount :
                 call = [fn |-> "withdraw", caller |-> caller, token |-> token,
                         amount |-> amount]
BY DEF UserCall

\* A register call and its event.
LEMMA RegisterStep ==
    ASSUME NEW caller, NEW username, NEW text, NEW call,
           call = [fn |-> "register", caller |-> caller,
                   username |-> username, text |-> text]
    PROVE  /\ Invoke(call) => register(caller, username, text)
           /\ Publish(RegisterEvent(call)) =>
                 copy' = [copy EXCEPT !.creators = Put(@, caller, username)]
           /\ EventOf(call) = RegisterEvent(call)
<1>1. Invoke(call) => register(caller, username, text)
    BY DEF Invoke
<1>2. EventOf(call) = RegisterEvent(call)
    BY DEF EventOf, Setter
<1>3. Filtered(copy, Contract, RegisterEvent(call))
         = [copy EXCEPT !.creators = Put(@, caller, username)]
    BY DEF Filtered, RegisterEvent, Replayed
<1> QED
    BY <1>1, <1>2, <1>3 DEF Publish

\* The other calls of users that publish one event.
LEMMA ProfileStep ==
    ASSUME NEW caller, NEW text, NEW call,
           call = [fn |-> "update_profile", caller |-> caller, text |-> text],
           Invoke(call), Publish(EventOf(call))
    PROVE  ProfileShown(caller, text)
<1>1. update_profile(caller, text)
    BY DEF Invoke
<1>2. EventOf(call) = ProfileEvent(call)
    BY DEF EventOf, Setter
<1>3. Filtered(copy, Contract, ProfileEvent(call))
         = [copy EXCEPT !.creators = Put(@, caller, get_profile(caller).username)]
    BY DEF Filtered, ProfileEvent, Replayed
<1> QED
    BY <1>1, <1>2, <1>3 DEF Publish, ProfileShown

LEMMA UnregisterStep ==
    ASSUME NEW caller, NEW call, call = [fn |-> "unregister", caller |-> caller],
           Invoke(call), Publish(EventOf(call))
    PROVE  UnregisterShown(caller)
<1>1. unregister(caller)
    BY DEF Invoke
<1>2. EventOf(call) = UnregisterEvent(call)
    BY DEF EventOf, Setter
<1>3. Filtered(copy, Contract, UnregisterEvent(call))
         = AfterUREG(copy, [topic |-> "UREG", actor |-> caller])
    BY DEF Filtered, UnregisterEvent, Replayed
<1> QED
    BY <1>1, <1>2, <1>3 DEF Publish, UnregisterShown

LEMMA WithdrawStep ==
    ASSUME NEW caller, NEW token, NEW amount, NEW call,
           call = [fn |-> "withdraw", caller |-> caller, token |-> token,
                   amount |-> amount],
           Invoke(call), Publish(EventOf(call))
    PROVE  WithdrawShown(caller, token, amount)
<1>1. withdraw(caller, token, amount)
    BY DEF Invoke
<1>2. EventOf(call) = WithdrawEvent(call)
    BY DEF EventOf, Setter
<1>3. Filtered(copy, Contract, WithdrawEvent(call))
         = [copy EXCEPT !.credits[<<caller, token>>] = @ - amount]
    BY DEF Filtered, WithdrawEvent, Replayed, AfterWDRW
<1> QED
    BY <1>1, <1>2, <1>3 DEF Publish, WithdrawShown

\* The indexer passes over the orchestrator's own event.
LEMMA OrchestratorIgnored ==
    ASSUME NEW stellar_tip, NEW event, NEW orchEvent,
           PublishVia(stellar_tip, event, orchEvent)
    PROVE  copy' = Filtered(copy, stellar_tip, event)
BY OrchestratorAssumption DEF PublishVia, Filtered

\* A tip, made directly or through the orchestrator.
LEMMA TipStep ==
    ASSUME NEW from, NEW creator, NEW token, NEW amount, NEW call,
           call = [fn |-> "tip", caller |-> from, creator |-> creator,
                   token |-> token, amount |-> amount],
           \/ Invoke(call) /\ Publish(EventOf(call))
           \/ \E index \in 0 .. MAX_U64 : submit_tip(call, Contract, index)
    PROVE  TipShown(from, creator, token, amount)
<1>1. tip(from, creator, token, amount)
    BY DEF Invoke, submit_tip
<1>2. EventOf(call) = TipEvent(call)
    BY DEF EventOf, Setter
<1>3. Filtered(copy, Contract, TipEvent(call)) = AfterTIP(copy, TipEvent(call))
    BY DEF Filtered, TipEvent, Replayed
<1>4. copy' = Filtered(copy, Contract, TipEvent(call))
    BY <1>2, OrchestratorIgnored DEF Publish, submit_tip
<1> QED
    BY <1>1, <1>3, <1>4 DEF TipShown

\* The orchestrator pointed at another contract reaches neither the contract
\* nor, past the filter, the indexer, whatever index it names.
LEMMA ForeignStep ==
    ASSUME NEW call, NEW stellar_tip, stellar_tip # Contract,
           \/ \E index \in 0 .. MAX_U64 : submit_tip(call, stellar_tip, index)
           \/ register_creator(call, stellar_tip)
    PROVE  UNCHANGED <<vars, copy>>
<1>1. UNCHANGED vars
    BY DEF submit_tip, register_creator
<1>2. UNCHANGED copy
    BY OrchestratorIgnored DEF submit_tip, register_creator, Filtered
<1> QED
    BY <1>1, <1>2

LEMMA EventSteps ==
    ASSUME [EventNext]_eventVars
    PROVE  \/ \E call \in AdminCall \cup InitCall : AdminShown(call)
           \/ \E caller \in Account, username \in Username, text \in Text :
                 RegisterShown(caller, username, text)
           \/ \E caller \in Account, text \in Text : ProfileShown(caller, text)
           \/ \E caller \in Account : UnregisterShown(caller)
           \/ \E from, creator \in Account, token \in Token, amount \in Amount :
                 TipShown(from, creator, token, amount)
           \/ \E caller \in Account, token \in Token, amount \in Amount :
                 WithdrawShown(caller, token, amount)
           \/ \E src \in Account : TokenStep(src) /\ UNCHANGED copy
           \/ UNCHANGED <<vars, copy>>
<1> DEFINE Goal ==
           \/ \E caller \in Account, username \in Username, text \in Text :
                 RegisterShown(caller, username, text)
           \/ \E caller \in Account, text \in Text : ProfileShown(caller, text)
           \/ \E caller \in Account : UnregisterShown(caller)
           \/ \E from, creator \in Account, token \in Token, amount \in Amount :
                 TipShown(from, creator, token, amount)
           \/ \E caller \in Account, token \in Token, amount \in Amount :
                 WithdrawShown(caller, token, amount)
<1>1. ASSUME NEW call \in UserCall,
             \/ Invoke(call) /\ Publish(EventOf(call))
             \/ call.fn = "tip" /\ \E index \in 0 .. MAX_U64 :
                                     submit_tip(call, Contract, index)
             \/ call.fn = "register" /\ register_creator(call, Contract)
      PROVE  Goal
    <2>1. ASSUME NEW caller \in Account, NEW username \in Username, NEW text \in Text,
                 call = [fn |-> "register", caller |-> caller,
                         username |-> username, text |-> text]
          PROVE  Goal
        <3>1. Invoke(call) /\ Publish(RegisterEvent(call))
            <4>1. call.fn # "tip"
                BY <2>1
            <4>2. EventOf(call) = RegisterEvent(call)
                BY <2>1, RegisterStep
            <4> QED
                BY <1>1, <4>1, <4>2, OrchestratorIgnored DEF register_creator, Publish
        <3> QED
            BY <2>1, <3>1, RegisterStep DEF RegisterShown
    <2>2. ASSUME NEW caller \in Account, NEW text \in Text,
                 call = [fn |-> "update_profile", caller |-> caller, text |-> text]
          PROVE  Goal
        <3>1. call.fn # "tip" /\ call.fn # "register"
            BY <2>2
        <3> QED
            BY <1>1, <2>2, <3>1, ProfileStep
    <2>3. ASSUME NEW caller \in Account,
                 call = [fn |-> "unregister", caller |-> caller]
          PROVE  Goal
        <3>1. call.fn # "tip" /\ call.fn # "register"
            BY <2>3
        <3> QED
            BY <1>1, <2>3, <3>1, UnregisterStep
    <2>4. ASSUME NEW from \in Account, NEW creator \in Account, NEW token \in Token,
                 NEW amount \in Amount,
                 call = [fn |-> "tip", caller |-> from, creator |-> creator,
                         token |-> token, amount |-> amount]
          PROVE  Goal
        <3>1. call.fn # "register"
            BY <2>4
        <3> QED
            BY <1>1, <2>4, <3>1, TipStep
    <2>5. ASSUME NEW caller \in Account, NEW token \in Token, NEW amount \in Amount,
                 call = [fn |-> "withdraw", caller |-> caller, token |-> token,
                         amount |-> amount]
          PROVE  Goal
        <3>1. call.fn # "tip" /\ call.fn # "register"
            BY <2>5
        <3> QED
            BY <1>1, <2>5, <3>1, WithdrawStep
    <2> HIDE DEF Goal
    <2> QED
        BY <2>1, <2>2, <2>3, <2>4, <2>5, UserCallKinds
<1> HIDE DEF Goal
<1>2. CASE \E call \in Call : Invoke(call) /\ Publish(EventOf(call))
    <2>1. PICK call \in Call : Invoke(call) /\ Publish(EventOf(call))
        BY <1>2
    <2>2. CASE call \in AdminCall \cup InitCall
        BY <2>1, <2>2 DEF AdminShown
    <2>3. CASE call \in UserCall
        <3>1. Goal
            BY <1>1, <2>1, <2>3
        <3> QED
            BY <3>1 DEF Goal
    <2> QED
        BY <2>2, <2>3 DEF Call
<1>3. CASE \E call \in UserCall, stellar_tip \in StellarTipInput :
              \/ call.fn = "tip" /\ \E index \in 0 .. MAX_U64 :
                                      submit_tip(call, stellar_tip, index)
              \/ call.fn = "register" /\ register_creator(call, stellar_tip)
    <2>1. PICK call \in UserCall, stellar_tip \in StellarTipInput :
              \/ call.fn = "tip" /\ \E index \in 0 .. MAX_U64 :
                                      submit_tip(call, stellar_tip, index)
              \/ call.fn = "register" /\ register_creator(call, stellar_tip)
        BY <1>3
    <2>2. CASE stellar_tip = Contract
        <3>1. Goal
            BY <1>1, <2>1, <2>2
        <3> QED
            BY <3>1 DEF Goal
    <2>3. CASE stellar_tip # Contract
        BY <2>1, <2>3, ForeignStep
    <2> QED
        BY <2>2, <2>3
<1>4. CASE UNCHANGED eventVars
    BY <1>4 DEF eventVars
<1> QED
    BY <1>2, <1>3, <1>4 DEF EventNext

------------------------------------------------------------------------------
(* The configuration.                                                      *)

\* Before init no cap or minimum has been announced.
NothingAnnounced ==
    Admin = None =>
        copy.max_creators = None /\ copy.max_tips = None /\ copy.min_tip = None

ConfigInv ==
    CopyShape /\ ReplayedConfig /\ NothingAnnounced /\ OnlyAdminConfigures

\* The setters by name, with an argument of their type.
LEMMA AdminCallKinds ==
    ASSUME NEW call \in AdminCall
    PROVE  \E fn \in Setter, caller \in Account : \E arg \in ArgumentsOf(fn) :
              call = [fn |-> fn, caller |-> caller, arg |-> arg]
BY DEF AdminCall

\* init and its event.
LEMMA InitCopied ==
    ASSUME ConfigInv, NEW call \in InitCall, AdminShown(call)
    PROVE  /\ ConfigInv' /\ UNCHANGED copiedLedger
           /\ call.caller \in Account /\ AdminStep(call.caller)
<1>1. PICK caller \in Account, recipient \in RecipientInput, bps \in FeeInput,
           maxCreators \in CapInput, maxTips \in CapInput, minTip \in MinInput :
              call = [fn |-> "init", caller |-> caller, recipient |-> recipient,
                      bps |-> bps, maxCreators |-> maxCreators,
                      maxTips |-> maxTips, minTip |-> minTip]
    BY DEF InitCall
<1>2. init(caller, recipient, bps, maxCreators, maxTips, minTip)
    BY <1>1 DEF AdminShown, Invoke
<1>3. EventOf(call) = [topic |-> "INIT", actor |-> caller,
                       fee_recipient |-> recipient, fee_bps |-> bps]
    BY <1>1 DEF EventOf, InitEvent, Setter
<1>4. copy' = [copy EXCEPT !.admin = caller, !.fee_recipient = recipient,
                           !.fee_bps = bps, !.paused = FALSE,
                           !.usurped = @ \/ copy.admin # None]
    BY <1>3 DEF AdminShown, Publish, Filtered, Replayed, AfterINIT
<1>5. /\ CopyShape' /\ UNCHANGED copiedLedger
      /\ copy'.admin = caller /\ copy'.fee_recipient = recipient
      /\ copy'.fee_bps = bps /\ copy'.paused = FALSE
      /\ UNCHANGED <<copy.max_creators, copy.max_tips, copy.min_tip>>
    BY <1>4 DEF ConfigInv, CopyShape, copiedLedger
<1>6. OnlyAdminConfigures'
    <2>1. copy.admin = None /\ ~copy.usurped
        BY <1>2 DEF ConfigInv, ReplayedConfig, OnlyAdminConfigures, init,
                    NotYetInitialized
    <2> QED
        BY <1>4, <2>1 DEF ConfigInv, CopyShape, OnlyAdminConfigures
<1>7. caller # None
    BY AddressAssumption DEF Address
<1> QED
    BY <1>1, <1>2, <1>5, <1>6, <1>7
    DEF ConfigInv, ReplayedConfig, NothingAnnounced, init, NotYetInitialized, AdminStep

\* A setter and its event.
LEMMA SetterCopied ==
    ASSUME ConfigInv, NEW call \in AdminCall, AdminShown(call)
    PROVE  /\ ConfigInv' /\ UNCHANGED copiedLedger
           /\ call.caller \in Account /\ AdminStep(call.caller)
<1>1. PICK fn \in Setter, caller \in Account : \E arg \in ArgumentsOf(fn) :
              call = [fn |-> fn, caller |-> caller, arg |-> arg]
    BY AdminCallKinds
<1>2. PICK arg \in ArgumentsOf(fn) : call = [fn |-> fn, caller |-> caller, arg |-> arg]
    BY <1>1
<1>3. EventOf(call) = [topic |-> SetterTopic[fn], actor |-> caller, value |-> arg]
    BY <1>2 DEF EventOf, SetterEvent, Setter
<1>4. copy' = Replayed(copy, [topic |-> SetterTopic[fn], actor |-> caller, value |-> arg])
    BY <1>3 DEF AdminShown, Publish, Filtered
<1>5. Invoke(call)
    BY DEF AdminShown
<1>6. Audited(copy, [topic |-> SetterTopic[fn], actor |-> caller, value |-> arg]) = copy
    <2>1. AuthorizedAdmin(caller)
        BY <1>2, <1>5
        DEF Invoke, Setter, set_admin, pause, unpause, set_fee_percentage,
            set_fee_recipient, set_max_creators, set_max_tips_per_creator,
            set_min_tip_amount
    <2>2. caller = copy.admin /\ ~copy.usurped
        BY <2>1 DEF AuthorizedAdmin, ConfigInv, ReplayedConfig, OnlyAdminConfigures
    <2>3. [copy EXCEPT !.usurped = FALSE] = copy
        BY <2>2 DEF ConfigInv, CopyShape
    <2> QED
        BY <2>2, <2>3 DEF Audited
<1>7. CASE fn = "set_admin"
    <2>1. set_admin(caller, arg) /\ arg \in AdminInput
        BY <1>2, <1>5, <1>7 DEF Invoke, ArgumentsOf, Setter
    <2>2. SetterTopic[fn] = "ADMC"
        BY <1>7 DEF SetterTopic
    <2>3. copy' = [copy EXCEPT !.admin = arg]
        BY <1>4, <1>6, <2>2 DEF Replayed
    <2>4. /\ CopyShape' /\ UNCHANGED copiedLedger /\ copy'.admin = arg
          /\ UNCHANGED <<copy.fee_recipient, copy.fee_bps, copy.paused,
                         copy.max_creators, copy.max_tips, copy.min_tip, copy.usurped>>
        BY <2>3 DEF ConfigInv, CopyShape, copiedLedger
    <2> QED
        BY <1>2, <2>1, <2>4, AddressAssumption
        DEF ConfigInv, ReplayedConfig, NothingAnnounced, OnlyAdminConfigures,
            set_admin, AuthorizedAdmin, AdminStep
<1>8. CASE fn = "pause"
    <2>1. pause(caller)
        BY <1>2, <1>5, <1>8 DEF Invoke, ArgumentsOf, Setter
    <2>2. SetterTopic[fn] = "PAUS"
        BY <1>8 DEF SetterTopic
    <2>3. copy' = [copy EXCEPT !.paused = TRUE]
        BY <1>4, <1>6, <2>2 DEF Replayed
    <2>4. /\ CopyShape' /\ UNCHANGED copiedLedger /\ copy'.paused = TRUE
          /\ UNCHANGED <<copy.admin, copy.fee_recipient, copy.fee_bps,
                         copy.max_creators, copy.max_tips, copy.min_tip, copy.usurped>>
        BY <2>3 DEF ConfigInv, CopyShape, copiedLedger
    <2> QED
        BY <1>2, <2>1, <2>4, AddressAssumption
        DEF ConfigInv, ReplayedConfig, NothingAnnounced, OnlyAdminConfigures,
            pause, AuthorizedAdmin, AdminStep
<1>9. CASE fn = "unpause"
    <2>1. unpause(caller)
        BY <1>2, <1>5, <1>9 DEF Invoke, ArgumentsOf, Setter
    <2>2. SetterTopic[fn] = "UNPA"
        BY <1>9 DEF SetterTopic
    <2>3. copy' = [copy EXCEPT !.paused = FALSE]
        BY <1>4, <1>6, <2>2 DEF Replayed
    <2>4. /\ CopyShape' /\ UNCHANGED copiedLedger /\ copy'.paused = FALSE
          /\ UNCHANGED <<copy.admin, copy.fee_recipient, copy.fee_bps,
                         copy.max_creators, copy.max_tips, copy.min_tip, copy.usurped>>
        BY <2>3 DEF ConfigInv, CopyShape, copiedLedger
    <2> QED
        BY <1>2, <2>1, <2>4, AddressAssumption
        DEF ConfigInv, ReplayedConfig, NothingAnnounced, OnlyAdminConfigures,
            unpause, AuthorizedAdmin, AdminStep
<1>10. CASE fn = "set_fee_percentage"
    <2>1. set_fee_percentage(caller, arg) /\ arg \in FeeInput
        BY <1>2, <1>5, <1>10 DEF Invoke, ArgumentsOf, Setter
    <2>2. SetterTopic[fn] = "FEEC"
        BY <1>10 DEF SetterTopic
    <2>3. copy' = [copy EXCEPT !.fee_bps = arg]
        BY <1>4, <1>6, <2>2 DEF Replayed
    <2>4. /\ CopyShape' /\ UNCHANGED copiedLedger /\ copy'.fee_bps = arg
          /\ UNCHANGED <<copy.admin, copy.fee_recipient, copy.paused,
                         copy.max_creators, copy.max_tips, copy.min_tip, copy.usurped>>
        BY <2>3 DEF ConfigInv, CopyShape, copiedLedger
    <2> QED
        BY <1>2, <2>1, <2>4, AddressAssumption
        DEF ConfigInv, ReplayedConfig, NothingAnnounced, OnlyAdminConfigures,
            set_fee_percentage, AuthorizedAdmin, AdminStep
<1>11. CASE fn = "set_fee_recipient"
    <2>1. set_fee_recipient(caller, arg) /\ arg \in RecipientInput
        BY <1>2, <1>5, <1>11 DEF Invoke, ArgumentsOf, Setter
    <2>2. SetterTopic[fn] = "FERC"
        BY <1>11 DEF SetterTopic
    <2>3. copy' = [copy EXCEPT !.fee_recipient = arg]
        BY <1>4, <1>6, <2>2 DEF Replayed
    <2>4. /\ CopyShape' /\ UNCHANGED copiedLedger /\ copy'.fee_recipient = arg
          /\ UNCHANGED <<copy.admin, copy.fee_bps, copy.paused,
                         copy.max_creators, copy.max_tips, copy.min_tip, copy.usurped>>
        BY <2>3 DEF ConfigInv, CopyShape, copiedLedger
    <2> QED
        BY <1>2, <2>1, <2>4, AddressAssumption
        DEF ConfigInv, ReplayedConfig, NothingAnnounced, OnlyAdminConfigures,
            set_fee_recipient, AuthorizedAdmin, AdminStep
<1>12. CASE fn = "set_max_creators"
    <2>1. set_max_creators(caller, arg) /\ arg \in CapInput
        BY <1>2, <1>5, <1>12 DEF Invoke, ArgumentsOf, Setter
    <2>2. SetterTopic[fn] = "CAPMC"
        BY <1>12 DEF SetterTopic
    <2>3. copy' = [copy EXCEPT !.max_creators = arg]
        BY <1>4, <1>6, <2>2 DEF Replayed
    <2>4. /\ CopyShape' /\ UNCHANGED copiedLedger /\ copy'.max_creators = arg
          /\ UNCHANGED <<copy.admin, copy.fee_recipient, copy.fee_bps,
                         copy.paused, copy.max_tips, copy.min_tip, copy.usurped>>
        BY <2>3 DEF ConfigInv, CopyShape, copiedLedger
    <2> QED
        BY <1>2, <2>1, <2>4, AddressAssumption
        DEF ConfigInv, ReplayedConfig, NothingAnnounced, OnlyAdminConfigures,
            set_max_creators, AuthorizedAdmin, AdminStep
<1>13. CASE fn = "set_max_tips_per_creator"
    <2>1. set_max_tips_per_creator(caller, arg) /\ arg \in CapInput
        BY <1>2, <1>5, <1>13 DEF Invoke, ArgumentsOf, Setter
    <2>2. SetterTopic[fn] = "CAPMT"
        BY <1>13 DEF SetterTopic
    <2>3. copy' = [copy EXCEPT !.max_tips = arg]
        BY <1>4, <1>6, <2>2 DEF Replayed
    <2>4. /\ CopyShape' /\ UNCHANGED copiedLedger /\ copy'.max_tips = arg
          /\ UNCHANGED <<copy.admin, copy.fee_recipient, copy.fee_bps,
                         copy.paused, copy.max_creators, copy.min_tip, copy.usurped>>
        BY <2>3 DEF ConfigInv, CopyShape, copiedLedger
    <2> QED
        BY <1>2, <2>1, <2>4, AddressAssumption
        DEF ConfigInv, ReplayedConfig, NothingAnnounced, OnlyAdminConfigures,
            set_max_tips_per_creator, AuthorizedAdmin, AdminStep
<1>14. CASE fn = "set_min_tip_amount"
    <2>1. set_min_tip_amount(caller, arg) /\ arg \in MinInput
        BY <1>2, <1>5, <1>14 DEF Invoke, ArgumentsOf, Setter
    <2>2. SetterTopic[fn] = "MINTC"
        BY <1>14 DEF SetterTopic
    <2>3. copy' = [copy EXCEPT !.min_tip = arg]
        BY <1>4, <1>6, <2>2 DEF Replayed
    <2>4. /\ CopyShape' /\ UNCHANGED copiedLedger /\ copy'.min_tip = arg
          /\ UNCHANGED <<copy.admin, copy.fee_recipient, copy.fee_bps,
                         copy.paused, copy.max_creators, copy.max_tips, copy.usurped>>
        BY <2>3 DEF ConfigInv, CopyShape, copiedLedger
    <2> QED
        BY <1>2, <2>1, <2>4, AddressAssumption
        DEF ConfigInv, ReplayedConfig, NothingAnnounced, OnlyAdminConfigures,
            set_min_tip_amount, AuthorizedAdmin, AdminStep
<1> QED
    BY <1>7, <1>8, <1>9, <1>10, <1>11, <1>12, <1>13, <1>14 DEF Setter

\* What a user's step makes of the copy, field by field.
LEMMA UnregisterCopied ==
    ASSUME CopyShape, NEW caller, UnregisterShown(caller)
    PROVE  /\ CopyShape' /\ UNCHANGED <<copiedConfig, copy.credits>>
           /\ copy'.creators = Remove(copy.creators, caller)
           /\ copy'.history = [key \in OthersKeys(copy.history, caller) |->
                                  copy.history[key]]
<1> DEFINE creators == Remove(copy.creators, caller)
           history == [key \in OthersKeys(copy.history, caller) |-> copy.history[key]]
<1>1. copy' = [copy EXCEPT !.creators = creators, !.history = history]
    BY DEF UnregisterShown, AfterUREG
<1> HIDE DEF creators, history
<1>2. /\ CopyShape' /\ UNCHANGED <<copiedConfig, copy.credits>>
      /\ copy'.creators = creators /\ copy'.history = history
    BY <1>1 DEF CopyShape, copiedConfig
<1> QED
    BY <1>2 DEF creators, history

\* The copied credits after a tip.
CreditedWith(creator, token, amount) ==
    [copy.credits EXCEPT ![<<creator, token>>] = @ + (amount - FeeOf(amount))]

\* The copied history after a tip.
HistoryWith(from, creator, token, amount) ==
    Put(copy.history, <<creator, get_tip_count(creator)>>,
        [from |-> from, token |-> token, amount |-> amount])

LEMMA TipCopied ==
    ASSUME CopyShape, NEW from, NEW creator, NEW token, NEW amount,
           TipShown(from, creator, token, amount)
    PROVE  /\ CopyShape' /\ UNCHANGED <<copiedConfig, copy.creators>>
           /\ copy'.credits = CreditedWith(creator, token, amount)
           /\ copy'.history = HistoryWith(from, creator, token, amount)
<1> DEFINE index == get_tip_count(creator)
           fee == FeeOf(amount)
           credits == CreditedWith(creator, token, amount)
           history == HistoryWith(from, creator, token, amount)
           call == [fn |-> "tip", caller |-> from, creator |-> creator,
                    token |-> token, amount |-> amount]
           event == [topic |-> "TIP", actor |-> from, creator |-> creator,
                     token |-> token, amount |-> amount, fee |-> fee, index |-> index]
<1>1. TipEvent(call) = event
    BY DEF TipEvent
<1>2. /\ credits = [copy.credits EXCEPT ![<<creator, token>>] = @ + (amount - fee)]
      /\ history = Put(copy.history, <<creator, index>>,
                       [from |-> from, token |-> token, amount |-> amount])
    BY DEF CreditedWith, HistoryWith
<1> HIDE DEF index, fee, credits, history
<1>3. AfterTIP(copy, event) = [copy EXCEPT !.credits = credits, !.history = history]
    BY <1>2 DEF AfterTIP
<1> HIDE DEF event, call
<1>4. copy' = [copy EXCEPT !.credits = credits, !.history = history]
    BY <1>1, <1>3 DEF TipShown, call
<1>5. /\ CopyShape' /\ UNCHANGED <<copiedConfig, copy.creators>>
      /\ copy'.credits = credits /\ copy'.history = history
    BY <1>4 DEF CopyShape, copiedConfig
<1> QED
    BY <1>5 DEF credits, history

LEMMA OthersCopied ==
    ASSUME CopyShape, NEW caller, NEW username, NEW text, NEW token, NEW amount
    PROVE  /\ RegisterShown(caller, username, text) =>
                 /\ CopyShape'
                 /\ UNCHANGED <<copiedConfig, copy.credits, copy.history>>
                 /\ copy'.creators = Put(copy.creators, caller, username)
           /\ ProfileShown(caller, text) =>
                 /\ CopyShape'
                 /\ UNCHANGED <<copiedConfig, copy.credits, copy.history>>
                 /\ copy'.creators = Put(copy.creators, caller,
                                         get_profile(caller).username)
           /\ WithdrawShown(caller, token, amount) =>
                 /\ CopyShape'
                 /\ UNCHANGED <<copiedConfig, copy.creators, copy.history>>
                 /\ copy'.credits = [copy.credits EXCEPT ![<<caller, token>>] = @ - amount]
BY DEF RegisterShown, ProfileShown, WithdrawShown, CopyShape, copiedConfig

\* The indexer and the orchestrator only add to the contract's steps what the
\* contract does not see: every property of Spec holds of it here too.
THEOREM ObserversHarmless == EventSpec => Spec
<1>1. EventInit => Init
    BY DEF EventInit
<1>2. ASSUME NEW call \in AdminCall \cup InitCall, AdminShown(call)
      PROVE  Next
    <2>1. Invoke(call)
        BY <1>2 DEF AdminShown
    <2>2. CASE call \in InitCall
        <3>1. PICK caller \in Account, recipient \in RecipientInput, bps \in FeeInput,
                   maxCreators \in CapInput, maxTips \in CapInput, minTip \in MinInput :
                 call = [fn |-> "init", caller |-> caller, recipient |-> recipient,
                         bps |-> bps, maxCreators |-> maxCreators,
                         maxTips |-> maxTips, minTip |-> minTip]
            BY <2>2 DEF InitCall
        <3>2. init(caller, recipient, bps, maxCreators, maxTips, minTip)
            BY <2>1, <3>1 DEF Invoke
        <3> QED
            BY <3>2 DEF Next, AdminStep
    <2>3. CASE call \in AdminCall
        <3>1. PICK fn \in Setter, caller \in Account : \E arg \in ArgumentsOf(fn) :
                 call = [fn |-> fn, caller |-> caller, arg |-> arg]
            BY <2>3, AdminCallKinds
        <3>2. PICK arg \in ArgumentsOf(fn) :
                 call = [fn |-> fn, caller |-> caller, arg |-> arg]
            BY <3>1
        <3>3. AdminStep(caller)
            BY <2>1, <3>2 DEF Invoke, Setter, ArgumentsOf, AdminStep
        <3> QED
            BY <3>3 DEF Next
    <2> QED
        BY <1>2, <2>2, <2>3
<1>3. ASSUME \/ \E caller \in Account, username \in Username, text \in Text :
                   RegisterShown(caller, username, text)
             \/ \E caller \in Account, text \in Text : ProfileShown(caller, text)
             \/ \E caller \in Account : UnregisterShown(caller)
             \/ \E from, creator \in Account, token \in Token, amount \in Amount :
                   TipShown(from, creator, token, amount)
             \/ \E caller \in Account, token \in Token, amount \in Amount :
                   WithdrawShown(caller, token, amount)
      PROVE  Next
    BY <1>3
    DEF RegisterShown, ProfileShown, UnregisterShown, TipShown, WithdrawShown,
        Next, UserStep
<1>4. [EventNext]_eventVars => [Next]_vars
    <2> SUFFICES ASSUME [EventNext]_eventVars PROVE [Next]_vars
        OBVIOUS
    <2>1. ASSUME NEW src \in Account, TokenStep(src)
          PROVE  Next
        BY <2>1 DEF Next
    <2> QED
        BY <1>2, <1>3, <2>1, EventSteps
<1> QED
    BY <1>1, <1>4, PTL DEF EventSpec, Spec

\* The indexer's configuration is the contract's after every event.
LEMMA ConfigInvariance == EventSpec => []ConfigInv
<1>1. EventInit => ConfigInv
    <2> DEFINE zero == [key \in Account \X Token |-> 0]
    <2>1. NothingRead = [admin |-> None, fee_recipient |-> None, fee_bps |-> 0,
                         paused |-> FALSE, max_creators |-> None, max_tips |-> None,
                         min_tip |-> None, creators |-> EmptyMap, credits |-> zero,
                         history |-> EmptyMap, usurped |-> FALSE]
        BY DEF NothingRead
    <2> HIDE DEF zero
    <2>2. CASE EventInit
        <3>1. copy = NothingRead
            BY <2>2 DEF EventInit
        <3>2. /\ Admin = None /\ FeeRecipient = None /\ FeeBps = 0 /\ Paused = FALSE
              /\ MaxCreators = 0 /\ MaxTipsPerCreator = 0 /\ MinTipAmount = 0
            BY <2>2 DEF EventInit, Init
        <3>3. /\ copy.admin = None /\ copy.fee_recipient = None /\ copy.fee_bps = 0
              /\ copy.paused = FALSE /\ copy.max_creators = None
              /\ copy.max_tips = None /\ copy.min_tip = None
              /\ copy.usurped = FALSE
            BY <2>1, <3>1
        <3>4. CopyShape
            BY <2>1, <3>1 DEF CopyShape
        <3> QED
            BY <3>2, <3>3, <3>4
            DEF ConfigInv, ReplayedConfig, NothingAnnounced, OnlyAdminConfigures
    <2> QED
        BY <2>2
<1>2. ASSUME ConfigInv, [EventNext]_eventVars
      PROVE  ConfigInv'
    <2>1. ASSUME CopyShape', UNCHANGED <<copiedConfig, config>>
          PROVE  ConfigInv'
        BY <1>2, <2>1
        DEF ConfigInv, ReplayedConfig, NothingAnnounced, OnlyAdminConfigures,
            copiedConfig, config
    <2>2. CASE \E call \in AdminCall \cup InitCall : AdminShown(call)
        BY <1>2, <2>2, InitCopied, SetterCopied
    <2>3. ASSUME NEW caller \in Account, NEW username \in Username, NEW text \in Text,
                 RegisterShown(caller, username, text)
          PROVE  ConfigInv'
        BY <1>2, <2>1, <2>3, OthersCopied DEF ConfigInv, RegisterShown, register
    <2>4. ASSUME NEW caller \in Account, NEW text \in Text, ProfileShown(caller, text)
          PROVE  ConfigInv'
        BY <1>2, <2>1, <2>4, OthersCopied DEF ConfigInv, ProfileShown, update_profile
    <2>5. ASSUME NEW caller \in Account, UnregisterShown(caller)
          PROVE  ConfigInv'
        BY <1>2, <2>1, <2>5, UnregisterCopied DEF ConfigInv, UnregisterShown, unregister
    <2>6. ASSUME NEW from \in Account, NEW creator \in Account, NEW token \in Token,
                 NEW amount \in Amount, TipShown(from, creator, token, amount)
          PROVE  ConfigInv'
        BY <1>2, <2>1, <2>6, TipCopied DEF ConfigInv, TipShown, tip, TipBooked
    <2>7. ASSUME NEW caller \in Account, NEW token \in Token, NEW amount \in Amount,
                 WithdrawShown(caller, token, amount)
          PROVE  ConfigInv'
        BY <1>2, <2>1, <2>7, OthersCopied
        DEF ConfigInv, WithdrawShown, withdraw, WithdrawBooked
    <2>8. CASE \/ \E src \in Account : TokenStep(src) /\ UNCHANGED copy
               \/ UNCHANGED <<vars, copy>>
        BY <1>2, <2>1, <2>8
        DEF ConfigInv, CopyShape, copiedConfig, TokenStep, direct_transfer, vars
    <2> QED
        BY <1>2, <2>2, <2>3, <2>4, <2>5, <2>6, <2>7, <2>8, EventSteps
<1> QED
    BY <1>1, <1>2, PTL DEF EventSpec

\* An indexer that reads the events and nothing else knows the configuration.
THEOREM ConfigReplay == EventSpec => []ReplayedConfig
BY ConfigInvariance, PTL DEF ConfigInv

\* The configuration is changed by its administrator of the moment and by nobody
\* else, after any number of handovers.
THEOREM AdminAuthority == EventSpec => []OnlyAdminConfigures
BY ConfigInvariance, PTL DEF ConfigInv

------------------------------------------------------------------------------
(* Registry and credits.                                                   *)

CopiedLedgerInv ==
    /\ CopyShape
    /\ DOMAIN copy.creators = DOMAIN Profile
    /\ \A creator \in DOMAIN Profile :
          copy.creators[creator] = Profile[creator].username
    /\ copy.credits \in [Account \X Token -> Int]
    /\ \A creator \in Account, token \in Token :
          copy.credits[<<creator, token>>] = get_balance(creator, token)

LEMMA InitCopiedLedger == EventInit => CopiedLedgerInv
<1> SUFFICES ASSUME EventInit PROVE CopiedLedgerInv
    OBVIOUS
<1> DEFINE zero == [key \in Account \X Token |-> 0]
<1>1. copy = [admin |-> None, fee_recipient |-> None, fee_bps |-> 0,
              paused |-> FALSE, max_creators |-> None, max_tips |-> None,
              min_tip |-> None, creators |-> EmptyMap, credits |-> zero,
              history |-> EmptyMap, usurped |-> FALSE]
    BY DEF EventInit, NothingRead
<1>2. zero \in [Account \X Token -> Int] /\ \A key \in Account \X Token : zero[key] = 0
    OBVIOUS
<1> HIDE DEF zero
<1>3. CopyShape /\ copy.creators = EmptyMap /\ copy.credits = zero
    BY <1>1 DEF CopyShape
<1>4. Profile = EmptyMap /\ Balance = EmptyMap
    BY DEF EventInit, Init
<1>5. DOMAIN EmptyMap = {}
    BY DEF EmptyMap
<1> QED
    BY <1>2, <1>3, <1>4, <1>5 DEF CopiedLedgerInv, get_balance, GetOr

LEMMA NextCopiedLedger ==
    TypeOK /\ ConfigInv /\ CopiedLedgerInv /\ [EventNext]_eventVars => CopiedLedgerInv'
<1> SUFFICES ASSUME TypeOK, ConfigInv, CopiedLedgerInv, [EventNext]_eventVars
             PROVE  CopiedLedgerInv'
    OBVIOUS
<1>0. CopyShape
    BY DEF CopiedLedgerInv
<1>1. ASSUME CopyShape', UNCHANGED <<copy.creators, copy.credits, Profile, Balance>>
      PROVE  CopiedLedgerInv'
    BY <1>1 DEF CopiedLedgerInv, get_balance
<1>2. CASE \E call \in AdminCall \cup InitCall : AdminShown(call)
    <2>1. PICK call \in AdminCall \cup InitCall : AdminShown(call)
        BY <1>2
    <2>2. /\ ConfigInv' /\ UNCHANGED copiedLedger
          /\ call.caller \in Account /\ AdminStep(call.caller)
        BY <2>1, InitCopied, SetterCopied
    <2> QED
        BY <1>1, <2>2, AdminFrame DEF ConfigInv, copiedLedger, funds
<1>3. ASSUME NEW caller \in Account, NEW username \in Username, NEW text \in Text,
             RegisterShown(caller, username, text)
      PROVE  CopiedLedgerInv'
    <2>1. /\ Profile' = Put(Profile, caller, [username |-> username, text |-> text])
          /\ UNCHANGED Balance
        BY <1>3 DEF RegisterShown, register
    <2>2. /\ CopyShape' /\ UNCHANGED copy.credits
          /\ copy'.creators = Put(copy.creators, caller, username)
        BY <1>3, OthersCopied DEF CopiedLedgerInv
    <2>3. /\ DOMAIN copy'.creators = DOMAIN Profile'
          /\ \A creator \in DOMAIN Profile' :
                copy'.creators[creator] = Profile'[creator].username
        BY <2>1, <2>2 DEF CopiedLedgerInv, Put
    <2> QED
        BY <2>1, <2>2, <2>3 DEF CopiedLedgerInv, get_balance
<1>4. ASSUME NEW caller \in Account, NEW text \in Text, ProfileShown(caller, text)
      PROVE  CopiedLedgerInv'
    <2>1. /\ caller \in DOMAIN Profile
          /\ Profile' = [Profile EXCEPT ![caller].text = text]
          /\ UNCHANGED Balance
        BY <1>4 DEF ProfileShown, update_profile, funds
    <2>2. /\ CopyShape' /\ UNCHANGED copy.credits
          /\ copy'.creators = Put(copy.creators, caller, Profile[caller].username)
        BY <1>4, <2>1, OthersCopied DEF CopiedLedgerInv, get_profile, GetOr
    <2>3. \A creator \in DOMAIN Profile :
             Profile'[creator].username = Profile[creator].username
        BY <2>1 DEF TypeOK, RegistryTypeOK, MapOf
    <2>4. /\ DOMAIN copy'.creators = DOMAIN Profile'
          /\ \A creator \in DOMAIN Profile' :
                copy'.creators[creator] = Profile'[creator].username
        BY <2>1, <2>2, <2>3 DEF CopiedLedgerInv, Put
    <2> QED
        BY <2>1, <2>2, <2>4 DEF CopiedLedgerInv, get_balance
<1>5. ASSUME NEW caller \in Account, UnregisterShown(caller)
      PROVE  CopiedLedgerInv'
    <2>1. Profile' = Remove(Profile, caller) /\ UNCHANGED Balance
        BY <1>5 DEF UnregisterShown, unregister
    <2>2. /\ CopyShape' /\ UNCHANGED copy.credits
          /\ copy'.creators = Remove(copy.creators, caller)
        BY <1>5, UnregisterCopied DEF CopiedLedgerInv
    <2> QED
        BY <2>1, <2>2 DEF CopiedLedgerInv, get_balance, Remove
<1>6. ASSUME NEW from \in Account, NEW creator \in Account, NEW token \in Token,
             NEW amount \in Amount, TipShown(from, creator, token, amount)
      PROVE  CopiedLedgerInv'
    <2> DEFINE gain == amount - FeeOf(amount)
    <2>1. tip(from, creator, token, amount) /\ UNCHANGED Profile
        BY <1>6 DEF TipShown, tip, TipBooked, registry
    <2>2. /\ CopyShape' /\ UNCHANGED copy.creators
          /\ copy'.credits = [copy.credits EXCEPT ![<<creator, token>>] = @ + gain]
        <3>1. /\ CopyShape' /\ UNCHANGED <<copiedConfig, copy.creators>>
              /\ copy'.credits = CreditedWith(creator, token, amount)
            BY <1>0, <1>6, TipCopied
        <3> QED
            BY <3>1 DEF CreditedWith
    <2>3. gain \in Int
        BY <2>1, NumberAssumption, FeeBounds
        DEF tip, CanTip, TipAccepted, MeetsMinimum, FeeOf, TypeOK, ConfigTypeOK
    <2>4. \A other \in Account, asset \in Token :
             get_balance(other, asset)' =
                IF other = creator /\ asset = token
                THEN get_balance(other, asset) + gain ELSE get_balance(other, asset)
        BY <2>1, TipEffect DEF CreatorAmount
    <2> HIDE DEF gain
    <2>5. copy'.credits \in [Account \X Token -> Int]
        BY <2>2, <2>3 DEF CopiedLedgerInv
    <2>6. ASSUME NEW other \in Account, NEW asset \in Token
          PROVE  copy'.credits[<<other, asset>>] = get_balance(other, asset)'
        BY <2>2, <2>4 DEF CopiedLedgerInv
    <2> QED
        BY <2>1, <2>2, <2>5, <2>6 DEF CopiedLedgerInv
<1>7. ASSUME NEW caller \in Account, NEW token \in Token, NEW amount \in Amount,
             WithdrawShown(caller, token, amount)
      PROVE  CopiedLedgerInv'
    <2>1. withdraw(caller, token, amount) /\ UNCHANGED Profile
        BY <1>7 DEF WithdrawShown, withdraw, WithdrawBooked, registry
    <2>2. /\ CopyShape' /\ UNCHANGED copy.creators
          /\ copy'.credits = [copy.credits EXCEPT ![<<caller, token>>] = @ - amount]
        BY <1>0, <1>7, OthersCopied
    <2>3. amount \in Int
        BY NumberAssumption
    <2>4. \A other \in Account, asset \in Token :
             get_balance(other, asset)' =
                IF other = caller /\ asset = token
                THEN get_balance(other, asset) - amount ELSE get_balance(other, asset)
        BY <2>1, WithdrawEffect
    <2>5. copy'.credits \in [Account \X Token -> Int]
        BY <2>2, <2>3 DEF CopiedLedgerInv
    <2>6. ASSUME NEW other \in Account, NEW asset \in Token
          PROVE  copy'.credits[<<other, asset>>] = get_balance(other, asset)'
        BY <2>2, <2>4 DEF CopiedLedgerInv
    <2> QED
        BY <2>1, <2>2, <2>5, <2>6 DEF CopiedLedgerInv
<1>8. CASE \/ \E src \in Account : TokenStep(src) /\ UNCHANGED copy
           \/ UNCHANGED <<vars, copy>>
    BY <1>1, <1>8
    DEF CopiedLedgerInv, CopyShape, TokenStep, direct_transfer, vars, registry, funds
<1> QED
    BY <1>2, <1>3, <1>4, <1>5, <1>6, <1>7, <1>8, EventSteps

\* Registry and credits rebuilt from the events are the contract's.
THEOREM LedgerReplay == EventSpec => []ReplayedLedger
<1>1. EventSpec => []CopiedLedgerInv
    BY InitCopiedLedger, NextCopiedLedger, ConfigInvariance, ObserversHarmless,
       TypeCorrectness, PTL DEF EventSpec
<1>2. TypeOK /\ RegistryConsistent /\ CopiedLedgerInv => ReplayedLedger
    <2> SUFFICES ASSUME TypeOK, RegistryConsistent, CopiedLedgerInv
                 PROVE  ReplayedLedger
        OBVIOUS
    <2>1. ASSUME NEW username \in Username
          PROVE  /\ is_username_taken(username) <=>
                       \E creator \in DOMAIN copy.creators :
                          copy.creators[creator] = username
                 /\ get_profile_by_username(username) # None =>
                       get_profile_by_username(username).username =
                          copy.creators[get_creator_from_username(username)]
        <3>1. CASE username \in DOMAIN UsernameToAddress
            BY <3>1 DEF RegistryConsistent, CopiedLedgerInv, is_username_taken,
                        is_creator, get_profile_by_username,
                        get_creator_from_username, GetOr
        <3>2. CASE username \notin DOMAIN UsernameToAddress
            <4>1. None \notin DOMAIN Profile
                BY AddressAssumption DEF TypeOK, RegistryTypeOK, MapOf, Address
            <4>2. \A creator \in DOMAIN Profile : Profile[creator].username # username
                BY <3>2, <4>1, AddressAssumption
                DEF RegistryConsistent, get_creator_from_username, GetOr
            <4> QED
                BY <3>2, <4>1, <4>2
                DEF CopiedLedgerInv, is_username_taken, get_profile_by_username,
                    get_creator_from_username, GetOr
        <3> QED
            BY <3>1, <3>2
    <2> QED
        BY <2>1 DEF ReplayedLedger, CopiedLedgerInv, is_creator
<1> QED
    BY <1>1, <1>2, ObserversHarmless, TypeCorrectness, RegistryConsistency, PTL

------------------------------------------------------------------------------
(* Histories.                                                              *)

CopiedHistoryInv ==
    /\ CopyShape
    /\ ReplayedHistory

LEMMA InitCopiedHistory == EventInit => CopiedHistoryInv
<1> SUFFICES ASSUME EventInit PROVE CopiedHistoryInv
    OBVIOUS
<1> DEFINE zero == [key \in Account \X Token |-> 0]
<1>1. copy = [admin |-> None, fee_recipient |-> None, fee_bps |-> 0,
              paused |-> FALSE, max_creators |-> None, max_tips |-> None,
              min_tip |-> None, creators |-> EmptyMap, credits |-> zero,
              history |-> EmptyMap, usurped |-> FALSE]
    BY DEF EventInit, NothingRead
<1> HIDE DEF zero
<1>2. CopyShape /\ copy.history = EmptyMap
    BY <1>1 DEF CopyShape
<1>3. TipCount = EmptyMap
    BY DEF EventInit, Init
<1>4. DOMAIN EmptyMap = {}
    BY DEF EmptyMap
<1>5. \A creator : get_tip_count(creator) = 0
    BY <1>3, <1>4 DEF get_tip_count, GetOr
<1> QED
    BY <1>2, <1>4, <1>5, NumberAssumption DEF CopiedHistoryInv, ReplayedHistory

\* A creator's count is an index, and a key of the live histories is below it.
LEMMA CountBound ==
    ASSUME TypeOK, NEW creator \in Account
    PROVE  get_tip_count(creator) \in 0 .. MAX_U64
BY NumberAssumption DEF TypeOK, FundsTypeOK, MapOf, get_tip_count, GetOr

\* A step after which every history is what it was.
LEMMA HistoryKept ==
    ASSUME CopiedHistoryInv, CopyShape',
           UNCHANGED <<copy.history, Tip>>,
           \A creator \in Account : get_tip_count(creator)' = get_tip_count(creator)
    PROVE  CopiedHistoryInv'
BY DEF CopiedHistoryInv, ReplayedHistory, get_tip

LEMMA UnregisterHistory ==
    ASSUME TypeOK, CopiedHistoryInv, NEW caller \in Account, UnregisterShown(caller)
    PROVE  CopiedHistoryInv'
<1>1. TipCount' = Remove(TipCount, caller) /\ Tip' = Tip
    BY DEF UnregisterShown, unregister
<1>2. \A creator \in Account : get_tip_count(creator)' =
         IF creator = caller THEN 0 ELSE get_tip_count(creator)
    BY <1>1 DEF get_tip_count, GetOr, Remove
<1>3. CopyShape
    BY DEF CopiedHistoryInv
<1>4. /\ CopyShape'
      /\ copy'.history = [key \in OthersKeys(copy.history, caller) |-> copy.history[key]]
    BY <1>3, UnregisterCopied
<1>5. \A creator, index : get_tip(creator, index)' = get_tip(creator, index)
    BY <1>1 DEF get_tip
<1>6. DOMAIN copy'.history =
         {key \in Account \X (0 .. MAX_U64) : key[2] < get_tip_count(key[1])'}
    BY <1>2, <1>4 DEF CopiedHistoryInv, ReplayedHistory, OthersKeys
<1>7. \A key \in DOMAIN copy'.history : copy'.history[key] = get_tip(key[1], key[2])'
    BY <1>4, <1>5 DEF CopiedHistoryInv, ReplayedHistory, OthersKeys
<1> QED
    BY <1>4, <1>6, <1>7 DEF CopiedHistoryInv, ReplayedHistory

LEMMA TipHistoryCopied ==
    ASSUME TypeOK, CopiedHistoryInv, NEW from \in Account, NEW creator \in Account,
           NEW token \in Token, NEW amount \in Amount,
           TipShown(from, creator, token, amount)
    PROVE  CopiedHistoryInv'
<1> DEFINE n == get_tip_count(creator)
           record == [from |-> from, token |-> token, amount |-> amount]
<1>1. tip(from, creator, token, amount)
    BY DEF TipShown
<1>2. n \in 0 .. MAX_U64 /\ n + 1 \in 0 .. MAX_U64
    BY <1>1, CountBound, NumberAssumption DEF tip, CanTip, TipAccepted
<1>3. TipCount' = Put(TipCount, creator, n + 1) /\ Tip' = Put(Tip, <<creator, n>>, record)
    BY <1>1 DEF tip, TipBooked, RecordIndex
<1>4. CopyShape
    BY DEF CopiedHistoryInv
<1>5. CopyShape' /\ copy'.history = Put(copy.history, <<creator, n>>, record)
    <2>1. CopyShape' /\ copy'.history = HistoryWith(from, creator, token, amount)
        BY <1>4, TipCopied
    <2> QED
        BY <2>1 DEF HistoryWith
<1> HIDE DEF n, record
<1>6. \A other \in Account :
         get_tip_count(other)' = IF other = creator THEN n + 1 ELSE get_tip_count(other)
    BY <1>3 DEF get_tip_count, GetOr, Put
<1>7. \A other, index : get_tip(other, index)' =
         IF other = creator /\ index = n THEN record ELSE get_tip(other, index)
    BY <1>3 DEF get_tip, GetOr, Put
<1>8. \A other \in Account : get_tip_count(other) \in 0 .. MAX_U64
    BY CountBound
<1>9. n = get_tip_count(creator)
    BY DEF n
<1>10. DOMAIN copy'.history =
          {key \in Account \X (0 .. MAX_U64) : key[2] < get_tip_count(key[1])'}
    <2>1. DOMAIN copy'.history = DOMAIN copy.history \cup {<<creator, n>>}
        BY <1>5 DEF Put
    <2>2. ASSUME NEW key \in Account \X (0 .. MAX_U64)
          PROVE  key[2] < get_tip_count(key[1])' <=>
                    key[2] < get_tip_count(key[1]) \/ key = <<creator, n>>
        BY <1>2, <1>6, <1>8, <1>9, NumberAssumption
    <2> QED
        BY <1>2, <2>1, <2>2 DEF CopiedHistoryInv, ReplayedHistory
<1>11. \A key \in DOMAIN copy'.history : copy'.history[key] = get_tip(key[1], key[2])'
    <2>1. ASSUME NEW key \in Account \X (0 .. MAX_U64), key # <<creator, n>>
          PROVE  get_tip(key[1], key[2])' = get_tip(key[1], key[2])
        BY <1>7, <2>1
    <2>2. ASSUME NEW key, key = <<creator, n>>
          PROVE  get_tip(key[1], key[2])' = record
        BY <1>7, <2>2
    <2>3. copy'.history[<<creator, n>>] = record
        BY <1>5 DEF Put
    <2>4. \A key \in DOMAIN copy.history :
             key # <<creator, n>> => copy'.history[key] = copy.history[key]
        BY <1>5 DEF Put
    <2>5. DOMAIN copy'.history = DOMAIN copy.history \cup {<<creator, n>>}
        BY <1>5 DEF Put
    <2>6. ASSUME NEW key \in DOMAIN copy'.history
          PROVE  copy'.history[key] = get_tip(key[1], key[2])'
        <3>1. CASE key = <<creator, n>>
            BY <2>2, <2>3, <3>1
        <3>2. CASE key # <<creator, n>>
            BY <2>1, <2>4, <2>5, <2>6, <3>2 DEF CopiedHistoryInv, ReplayedHistory
        <3> QED
            BY <3>1, <3>2
    <2> QED
        BY <2>6
<1> QED
    BY <1>5, <1>10, <1>11 DEF CopiedHistoryInv, ReplayedHistory

LEMMA NextCopiedHistory ==
    TypeOK /\ HistoryInv /\ ConfigInv /\ CopiedHistoryInv /\ [EventNext]_eventVars
        => CopiedHistoryInv'
<1> SUFFICES ASSUME TypeOK, HistoryInv, ConfigInv, CopiedHistoryInv,
                    [EventNext]_eventVars
             PROVE  CopiedHistoryInv'
    OBVIOUS
<1>0. CopyShape
    BY DEF CopiedHistoryInv
<1>1. ASSUME CopyShape', UNCHANGED <<copy.history, TipCount, Tip>>
      PROVE  CopiedHistoryInv'
    BY <1>1, HistoryKept DEF get_tip_count
<1>2. CASE \E call \in AdminCall \cup InitCall : AdminShown(call)
    <2>1. PICK call \in AdminCall \cup InitCall : AdminShown(call)
        BY <1>2
    <2>2. /\ ConfigInv' /\ UNCHANGED copiedLedger
          /\ call.caller \in Account /\ AdminStep(call.caller)
        BY <2>1, InitCopied, SetterCopied
    <2> QED
        BY <1>1, <2>2, AdminFrame DEF ConfigInv, copiedLedger, funds
<1>3. ASSUME NEW caller \in Account, NEW username \in Username, NEW text \in Text,
             RegisterShown(caller, username, text)
      PROVE  CopiedHistoryInv'
    <2>1. /\ TipCount' = Put(TipCount, caller, 0) /\ UNCHANGED Tip
          /\ caller \notin DOMAIN TipCount
        BY <1>3 DEF RegisterShown, register, Registrable, HistoryInv
    <2>2. \A creator \in Account : get_tip_count(creator)' = get_tip_count(creator)
        BY <2>1 DEF get_tip_count, GetOr, Put
    <2>3. CopyShape' /\ UNCHANGED copy.history
        BY <1>0, <1>3, OthersCopied
    <2> QED
        BY <2>1, <2>2, <2>3, HistoryKept
<1>4. ASSUME NEW caller \in Account, NEW text \in Text, ProfileShown(caller, text)
      PROVE  CopiedHistoryInv'
    <2>1. CopyShape' /\ UNCHANGED copy.history
        BY <1>0, <1>4, OthersCopied
    <2> QED
        BY <1>1, <1>4, <2>1 DEF ProfileShown, update_profile, funds
<1>5. ASSUME NEW caller \in Account, UnregisterShown(caller)
      PROVE  CopiedHistoryInv'
    BY <1>5, UnregisterHistory
<1>6. ASSUME NEW from \in Account, NEW creator \in Account, NEW token \in Token,
             NEW amount \in Amount, TipShown(from, creator, token, amount)
      PROVE  CopiedHistoryInv'
    BY <1>6, TipHistoryCopied
<1>7. ASSUME NEW caller \in Account, NEW token \in Token, NEW amount \in Amount,
             WithdrawShown(caller, token, amount)
      PROVE  CopiedHistoryInv'
    <2>1. CopyShape' /\ UNCHANGED copy.history
        BY <1>0, <1>7, OthersCopied
    <2> QED
        BY <1>1, <1>7, <2>1 DEF WithdrawShown, withdraw, WithdrawBooked
<1>8. CASE \/ \E src \in Account : TokenStep(src) /\ UNCHANGED copy
           \/ UNCHANGED <<vars, copy>>
    BY <1>0, <1>1, <1>8 DEF CopyShape, TokenStep, direct_transfer, vars, funds
<1> QED
    BY <1>2, <1>3, <1>4, <1>5, <1>6, <1>7, <1>8, EventSteps

LEMMA CopiedHistoryInvariance == EventSpec => []CopiedHistoryInv
BY InitCopiedHistory, NextCopiedHistory, ConfigInvariance, ObserversHarmless,
   TypeCorrectness, HistoryInvariance, PTL DEF EventSpec

\* The TIP events since a creator's registration are its live history.
THEOREM HistoryReplay == EventSpec => []ReplayedHistory
BY CopiedHistoryInvariance, PTL DEF CopiedHistoryInv

==============================================================================
