---------------------------- MODULE TipClientProofs ----------------------------
(***************************************************************************)
(* Proofs about the example client, for  every number of runs and polls    *)
(* and for every value of the contract's constants.                        *)
(***************************************************************************)
EXTENDS TipClient, StellarTipProofs

------------------------------------------------------------------------------
(* Errors.                                                                 *)

\* register answers Ok only to an address that has no profile yet.
LEMMA RegisterAnswer ==
    ASSUME outcome(Arguments("register")) = Ok
    PROVE  ~is_creator(Owner)
<1>1. /\ Arguments("register").fn = "register"
      /\ Arguments("register").caller = Owner
    BY DEF Arguments
<1>2. registerError(Arguments("register")) = Ok
    BY <1>1, OutcomeTable
<1> QED
    BY <1>1, <1>2, RegisterOk DEF Registrable, is_creator

\* tip answers Ok only if the creator is registered.
LEMMA TipAnswer ==
    ASSUME outcome(Arguments("tip")) = Ok
    PROVE  is_creator(Owner)
<1>1. Arguments("tip").fn = "tip" /\ Arguments("tip").creator = Owner
    BY DEF Arguments
<1>2. tipError(Arguments("tip")) = Ok
    BY <1>1, OutcomeTable
<1> QED
    BY <1>1, <1>2, TipOk DEF CanTip, TipAccepted, is_creator

------------------------------------------------------------------------------
(* The script uses the contract and nothing else.                          *)

\* What the ledger does for the owner is one of its two calls.
LEMMA OwnerCalls ==
    ASSUME NEW t, t.fn \in {"register", "tip"}, ledgerSucceeds(t)
    PROVE  \/ t.fn = "register" /\ register(Owner, Handle, Bio)
           \/ t.fn = "tip" /\ tip(Owner, Owner, Asset, TipAmount)
<1> DEFINE call == Arguments(t.fn)
<1>1. Invoke(call)
    BY DEF ledgerSucceeds
<1>2. CASE t.fn = "register"
    <2>1. /\ call.fn = "register" /\ call.caller = Owner
          /\ call.username = Handle /\ call.text = Bio
        BY <1>2 DEF Arguments
    <2> QED
        <3> HIDE DEF call
        <3> QED
            BY <1>1, <1>2, <2>1 DEF Invoke
<1>3. CASE t.fn = "tip"
    <2>1. /\ call.fn = "tip" /\ call.caller = Owner /\ call.creator = Owner
          /\ call.token = Asset /\ call.amount = TipAmount
        BY <1>3 DEF Arguments
    <2> QED
        <3> HIDE DEF call
        <3> QED
            BY <1>1, <1>3, <2>1 DEF Invoke
<1> QED
    BY <1>2, <1>3

\* The calls a transaction can carry, and that none is both pending and applied.
NetworkInv ==
    /\ \A t \in pool \cup DOMAIN applied : t.fn \in {"register", "tip"}
    /\ pool \cap DOMAIN applied = {}
    /\ stage \in {"register", "tip"}
    /\ phase \in {"simulate", "send", "poll"} => tx.fn = stage

\* Every step of the composition is a step of the contract, or leaves it alone.
LEMMA ContractStep == NetworkInv /\ [ClientNext]_clientVars => [Next]_vars
<1> SUFFICES ASSUME NetworkInv, ClientNext PROVE [Next]_vars
    BY DEF clientVars
<1>1. CASE main \/ ScriptStep \/ interrupted
    BY <1>1 DEF main, ScriptStep, freshBuilder, simulateTransaction, sendTransaction,
        sendNotAccepted, getTransaction, registered, tipped, throw, interrupted
<1>2. ASSUME NEW t \in pool, ledgerSucceeds(t) PROVE [Next]_vars
    <2>1. CASE register(Owner, Handle, Bio)
        BY <2>1, ClientAssumption DEF Next, UserStep
    <2>2. CASE tip(Owner, Owner, Asset, TipAmount)
        BY <2>2, ClientAssumption DEF Next, UserStep
    <2> QED
        BY <1>2, <2>1, <2>2, OwnerCalls DEF NetworkInv
<1>3. ASSUME NEW t \in pool, ledgerFails(t) \/ drop(t) PROVE [Next]_vars
    BY <1>3 DEF ledgerFails, drop
<1>4. CASE Others
    BY <1>4 DEF Others, Next
<1> QED
    BY <1>1, <1>2, <1>3, <1>4 DEF ClientNext

\* The owner's profile, once there, stays and keeps its name: nobody else can
\* remove it, and the script does not.
LEMMA OwnerStays ==
    ASSUME TypeOK, NetworkInv, [ClientNext]_clientVars, is_creator(Owner)
    PROVE  is_creator(Owner)' /\ Profile'[Owner].username = Profile[Owner].username
<1> DEFINE Stays ==
        is_creator(Owner)' /\ Profile'[Owner].username = Profile[Owner].username
<1>1. CASE Profile' = Profile
    BY <1>1 DEF is_creator
<1>2. ASSUME NEW caller, NEW username, NEW text, register(caller, username, text)
      PROVE  Stays
    <2>1. caller # Owner /\ DOMAIN Profile' = DOMAIN Profile \cup {caller}
        BY <1>2, PutMap DEF register, Registrable, is_creator
    <2> DEFINE record == [username |-> username, text |-> text]
    <2>2. Profile' = Put(Profile, caller, record)
        BY <1>2 DEF register
    <2>3. Profile'[Owner] = Profile[Owner]
        <3> HIDE DEF record
        <3>1. Owner \in DOMAIN Profile /\ Owner # caller
            BY <2>1 DEF is_creator
        <3> QED
            BY <2>2, <3>1 DEF Put
    <2> QED
        BY <2>1, <2>3 DEF is_creator
<1>3. ASSUME NEW caller \in Account, NEW text, update_profile(caller, text)
      PROVE  Stays
    <2>1. Profile \in [DOMAIN Profile -> [username : Username, text : Text]]
        BY DEF TypeOK, RegistryTypeOK, MapOf
    <2> QED
        BY <1>3, <2>1 DEF update_profile, is_creator
<1>4. ASSUME NEW caller \in Account \ {Owner}, unregister(caller) PROVE Stays
    BY <1>4, RemoveMap DEF unregister, is_creator
<1>5. ASSUME NEW from, NEW creator, NEW token, NEW amount,
             tip(from, creator, token, amount)
      PROVE  Stays
    BY <1>1, <1>5 DEF tip, CanTip, TipAccepted, TipBooked, registry
<1>6. ASSUME NEW caller \in Account \ {Owner}, UserStep(caller) PROVE Stays
    <2>1. ASSUME NEW token \in Token, NEW amount \in Amount,
                 withdraw(caller, token, amount)
          PROVE  Stays
        BY <1>1, <2>1 DEF withdraw, CanWithdraw, WithdrawAccepted, WithdrawBooked, registry
    <2> QED
        BY <1>2, <1>3, <1>4, <1>5, <1>6, <2>1 DEF UserStep
<1>7. CASE Others
    <2> PICK caller \in Account \ {Owner} :
            AdminStep(caller) \/ UserStep(caller) \/ TokenStep(caller)
        BY <1>7 DEF Others
    <2>1. CASE AdminStep(caller)
        BY <1>1, <2>1, AdminFrame
    <2>2. CASE TokenStep(caller)
        BY <1>1, <2>2 DEF TokenStep, direct_transfer, registry
    <2> QED
        BY <1>6, <2>1, <2>2
<1>8. ASSUME NEW t \in pool, ledgerSucceeds(t) PROVE Stays
    <2>1. t.fn \in {"register", "tip"}
        BY DEF NetworkInv
    <2> QED
        BY <1>2, <1>5, <1>8, <2>1, OwnerCalls
<1>9. ASSUME UNCHANGED vars PROVE Stays
    BY <1>1, <1>9 DEF vars, registry
<1>10. CASE main \/ ScriptStep \/ interrupted
    BY <1>9, <1>10 DEF main, ScriptStep, freshBuilder, simulateTransaction,
        sendTransaction, sendNotAccepted, getTransaction, registered, tipped,
        throw, interrupted
<1>11. ASSUME NEW t \in pool, ledgerFails(t) \/ drop(t) PROVE Stays
    BY <1>9, <1>11 DEF ledgerFails, drop
<1>12. CASE UNCHANGED clientVars
    BY <1>9, <1>12 DEF clientVars
<1> QED
    BY <1>7, <1>8, <1>10, <1>11, <1>12 DEF ClientNext

------------------------------------------------------------------------------
(* The network carries the script's two calls and nothing else.            *)

\* NetworkInv is inductive.
LEMMA NextNetworkInv == NetworkInv /\ [ClientNext]_clientVars => NetworkInv'
<1> SUFFICES ASSUME NetworkInv, [ClientNext]_clientVars PROVE NetworkInv'
    OBVIOUS
<1>1. CASE main
    BY <1>1 DEF main, NetworkInv, FirstCall, network
<1>2. CASE freshBuilder
    <2>1. tx'.fn = stage
        BY <1>2 DEF freshBuilder
    <2> QED
        BY <1>2, <2>1 DEF freshBuilder, NetworkInv, network
<1>3. CASE simulateTransaction
    BY <1>3 DEF simulateTransaction, NetworkInv, network
<1>4. CASE sendTransaction
    BY <1>4 DEF sendTransaction, StartPolling, NetworkInv
<1>5. CASE sendNotAccepted
    BY <1>5 DEF sendNotAccepted, StartPolling, NetworkInv, network
<1>6. CASE getTransaction
    BY <1>6 DEF getTransaction, NetworkInv, network
<1>7. CASE registered \/ tipped \/ throw \/ interrupted
    BY <1>7 DEF registered, tipped, throw, interrupted, NetworkInv, network
<1>8. ASSUME NEW t \in pool, NEW status, NEW index, Settle(t, status, index)
      PROVE  NetworkInv'
    <2>1. pool' = pool \ {t} /\ DOMAIN applied' = DOMAIN applied \cup {t}
        BY <1>8 DEF Settle, Put
    <2> QED
        BY <1>8, <2>1 DEF Settle, script, NetworkInv
<1>9. ASSUME NEW t \in pool, drop(t) PROVE NetworkInv'
    BY <1>9 DEF drop, script, NetworkInv
<1>10. CASE Others \/ UNCHANGED clientVars
    BY <1>10 DEF Others, clientVars, script, network, NetworkInv
<1> QED
    BY <1>1, <1>2, <1>3, <1>4, <1>5, <1>6, <1>7, <1>8, <1>9, <1>10
    DEF ClientNext, ScriptStep, ledgerSucceeds, ledgerFails

\* The script and the network leave the contract every guarantee it has: what
\* they do to it are steps of its own specification.
THEOREM ClientUsesContract == ClientSpec => Spec /\ []NetworkInv
<1>1. ClientInit => Init /\ NetworkInv
    BY DEF ClientInit, NetworkInv, EmptyMap
<1> QED
    BY <1>1, NextNetworkInv, ContractStep, PTL DEF ClientSpec, Spec

------------------------------------------------------------------------------
(* One tip in all.                                                         *)

\* The tips the network has been given and may still apply, or has applied.
TipSent == {t \in pool \cup DOMAIN applied : t.fn = "tip"}

\* There is one tip at most, and none before the owner is registered.
OnceInv ==
    /\ \A s, t \in TipSent : s = t
    /\ TipSent # {} => is_creator(Owner)
    /\ stage = "register" /\ phase \in {"send", "poll"} => TipSent = {}
    /\ stage = "tip" /\ phase \in {"load", "simulate", "send"} => TipSent = {}
    /\ stage = "tip" /\ phase = "send" => is_creator(Owner)

\* A step that sends no tip and gives the script no new duty keeps OnceInv.
LEMMA OnceFrame ==
    ASSUME TypeOK, NetworkInv, OnceInv, [ClientNext]_clientVars, TipSent' \subseteq TipSent,
           \/ stage' = stage /\ phase' = phase
           \/ phase' \in {"done", "failed"}
    PROVE  OnceInv'
<1>1. is_creator(Owner) => is_creator(Owner)'
    BY OwnerStays
<1> QED
    BY <1>1 DEF OnceInv

\* OnceInv is inductive: register is refused once the owner has a profile, so
\* a run that gets as far as tip is the first to do so.
LEMMA NextOnceInv ==
    TypeOK /\ NetworkInv /\ OnceInv /\ [ClientNext]_clientVars => OnceInv'
<1> SUFFICES ASSUME TypeOK, NetworkInv, OnceInv, [ClientNext]_clientVars PROVE OnceInv'
    OBVIOUS
<1>1. is_creator(Owner) => is_creator(Owner)'
    BY OwnerStays
<1>2. CASE main
    <2>1. TipSent' = TipSent
        BY <1>2 DEF main, network, TipSent
    <2> QED
        BY <1>1, <1>2, <2>1 DEF main, FirstCall, OnceInv
<1>3. CASE freshBuilder
    <2>1. TipSent' = TipSent
        BY <1>3 DEF freshBuilder, network, TipSent
    <2> QED
        BY <1>1, <1>3, <2>1 DEF freshBuilder, OnceInv
<1>4. CASE simulateTransaction
    <2>1. TipSent' = TipSent
        BY <1>4 DEF simulateTransaction, network, TipSent
    <2>2. CASE stage = "register"
        <3>1. TipSent = {}
            BY <1>4, <2>2, RegisterAnswer DEF simulateTransaction, OnceInv
        <3> QED
            BY <1>4, <2>1, <2>2, <3>1 DEF simulateTransaction, OnceInv
    <2>3. CASE stage = "tip"
        <3>1. is_creator(Owner)
            BY <1>4, <2>3, TipAnswer DEF simulateTransaction
        <3> QED
            BY <1>1, <1>4, <2>1, <2>3, <3>1 DEF simulateTransaction, OnceInv
    <2> QED
        BY <2>2, <2>3 DEF NetworkInv
<1>5. CASE sendTransaction
    <2>1. TipSent' = TipSent \cup {t \in {tx} : t.fn = "tip"}
        BY <1>5 DEF sendTransaction, TipSent
    <2>2. tx.fn = stage
        BY <1>5 DEF sendTransaction, NetworkInv
    <2>3. CASE stage = "register"
        <3>1. TipSent' = {}
            BY <1>5, <2>1, <2>2, <2>3 DEF sendTransaction, OnceInv
        <3> QED
            BY <1>5, <2>3, <3>1 DEF sendTransaction, StartPolling, OnceInv
    <2>4. CASE stage = "tip"
        <3>1. TipSent' = {tx} /\ is_creator(Owner)
            BY <1>5, <2>1, <2>2, <2>4 DEF sendTransaction, OnceInv
        <3> QED
            BY <1>1, <1>5, <2>4, <3>1 DEF sendTransaction, StartPolling, OnceInv
    <2> QED
        BY <2>3, <2>4 DEF NetworkInv
<1>6. CASE sendNotAccepted
    <2>1. TipSent' = TipSent
        BY <1>6 DEF sendNotAccepted, network, TipSent
    <2> QED
        BY <1>1, <1>6, <2>1 DEF sendNotAccepted, StartPolling, OnceInv
<1>7. CASE getTransaction
    <2>1. TipSent' = TipSent
        BY <1>7 DEF getTransaction, network, TipSent
    <2> QED
        BY <1>7, <2>1, OnceFrame DEF getTransaction
<1>8. CASE registered
    <2>1. TipSent' = TipSent
        BY <1>8 DEF registered, network, TipSent
    <2> QED
        BY <1>1, <1>8, <2>1 DEF registered, LoopEnded, OnceInv
<1>9. CASE tipped \/ throw \/ interrupted
    <2>1. TipSent' = TipSent
        BY <1>9 DEF tipped, throw, interrupted, network, TipSent
    <2> QED
        BY <1>9, <2>1, OnceFrame DEF tipped, throw, interrupted
<1>10. ASSUME NEW t \in pool, NEW status, NEW index, Settle(t, status, index)
       PROVE  OnceInv'
    <2>1. pool' = pool \ {t} /\ DOMAIN applied' = DOMAIN applied \cup {t}
        BY <1>10 DEF Settle, Put
    <2>2. TipSent' = TipSent
        BY <2>1 DEF TipSent
    <2> QED
        BY <1>10, <2>2, OnceFrame DEF Settle, script
<1>11. ASSUME NEW t \in pool, drop(t) PROVE OnceInv'
    <2>1. TipSent' \subseteq TipSent
        BY <1>11 DEF drop, TipSent
    <2> QED
        BY <1>11, <2>1, OnceFrame DEF drop, script
<1>12. CASE Others \/ UNCHANGED clientVars
    <2>1. TipSent' = TipSent
        BY <1>12 DEF Others, clientVars, network, TipSent
    <2> QED
        BY <1>12, <2>1, OnceFrame DEF Others, clientVars, script
<1> QED
    BY <1>2, <1>3, <1>4, <1>5, <1>6, <1>7, <1>8, <1>9, <1>10, <1>11, <1>12
    DEF ClientNext, ScriptStep, ledgerSucceeds, ledgerFails

\* However often the script is run, and however late its transactions land, at
\* most one tip succeeds.
THEOREM ClientTipsOnce == ClientSpec => []TipsOnce
<1>1. ClientInit => OnceInv
    BY DEF ClientInit, OnceInv, TipSent, EmptyMap
<1>2. OnceInv => TipsOnce
    <2> SUFFICES ASSUME OnceInv PROVE TipsOnce
        OBVIOUS
    <2> DEFINE paid == {t \in DOMAIN applied : t.fn = "tip" /\ applied[t].status = "SUCCESS"}
    <2>1. \A s, t \in paid : s = t
        BY DEF OnceInv, TipSent
    <2>2. paid = {} \/ \E t : paid = {t}
        <3> HIDE DEF paid
        <3> QED
            BY <2>1
    <2>3. Cardinality(paid) <= 1
        <3> HIDE DEF paid
        <3> QED
            BY <2>2, FS_EmptySet, FS_Singleton
    <2> QED
        BY <2>3 DEF TipsOnce
<1>3. ClientSpec => []TypeOK
    BY ClientUsesContract, TypeCorrectness, PTL
<1> QED
    BY <1>1, <1>2, <1>3, NextOnceInv, ClientUsesContract, PTL DEF ClientSpec

------------------------------------------------------------------------------
(* What the script shows is true.                                          *)

\* A success that polling returned is in the ledger.
PollInv ==
    phase = "poll" /\ result = "SUCCESS" =>
        tx \in DOMAIN applied /\ applied[tx].status = "SUCCESS"

\* PollInv is inductive: what is in the ledger stays as it is.
LEMMA NextPollInv ==
    NetworkInv /\ PollInv /\ [ClientNext]_clientVars => PollInv'
<1> SUFFICES ASSUME NetworkInv, PollInv, [ClientNext]_clientVars PROVE PollInv'
    OBVIOUS
<1>1. CASE main \/ freshBuilder \/ simulateTransaction \/ registered \/ tipped
                \/ throw \/ interrupted
    BY <1>1 DEF main, freshBuilder, simulateTransaction, registered, tipped, throw,
        interrupted, PollInv
<1>2. CASE sendTransaction \/ sendNotAccepted
    BY <1>2, ClientAssumption
    DEF sendTransaction, sendNotAccepted, StartPolling, PollInv
<1>3. CASE getTransaction
    BY <1>3 DEF getTransaction, Fetched, Status, network, PollInv
<1>4. ASSUME NEW t \in pool, NEW status, NEW index, Settle(t, status, index)
      PROVE  PollInv'
    <2>1. DOMAIN applied' = DOMAIN applied \cup {t} /\ t \notin DOMAIN applied
        BY <1>4 DEF Settle, Put, NetworkInv
    <2>2. tx \in DOMAIN applied => applied'[tx] = applied[tx]
        BY <1>4, <2>1 DEF Settle, Put
    <2> QED
        BY <1>4, <2>1, <2>2 DEF Settle, script, PollInv
<1>5. ASSUME NEW t \in pool, drop(t) PROVE PollInv'
    BY <1>5 DEF drop, script, PollInv
<1>6. CASE Others \/ UNCHANGED clientVars
    BY <1>6 DEF Others, clientVars, script, network, PollInv
<1> QED
    BY <1>1, <1>2, <1>3, <1>4, <1>5, <1>6
    DEF ClientNext, ScriptStep, ledgerSucceeds, ledgerFails

\* The owner has the profile that was asked for.
Known == is_creator(Owner) /\ Profile[Owner].username = Handle

\* Known holds from the success of a registration on.
ShownInv ==
    /\ \A t \in DOMAIN applied :
          t.fn = "register" /\ applied[t].status = "SUCCESS" => Known
    /\ stage = "tip" => Known

\* The script takes only a success for a confirmation.
LEMMA NextShownInv ==
    ASSUME TypeOK, NetworkInv, PollInv, ShownInv, [ClientNext]_clientVars
    PROVE  ShownInv'
<1>1. Known => Known'
    BY OwnerStays DEF Known
<1>2. CASE /\ UNCHANGED applied
           /\ stage' \in {"register", stage}
    BY <1>1, <1>2 DEF ShownInv
<1>3. CASE main \/ freshBuilder \/ simulateTransaction \/ sendTransaction
                \/ sendNotAccepted \/ getTransaction \/ tipped \/ throw \/ interrupted
    BY <1>2, <1>3 DEF main, FirstCall, freshBuilder, simulateTransaction, sendTransaction,
        sendNotAccepted, StartPolling, getTransaction, tipped, throw, interrupted,
        network
<1>4. CASE registered
    <2>1. result = "SUCCESS" /\ phase = "poll" /\ stage = "register"
        BY <1>4 DEF registered, LoopEnded, Confirmed
    <2>2. tx \in DOMAIN applied /\ applied[tx].status = "SUCCESS" /\ tx.fn = "register"
        BY <2>1 DEF PollInv, NetworkInv
    <2>3. Known
        BY <2>2 DEF ShownInv
    <2> QED
        BY <1>1, <1>4, <2>3 DEF registered, network, ShownInv
<1>5. ASSUME NEW t \in pool, ledgerSucceeds(t) PROVE ShownInv'
    <2>1. /\ DOMAIN applied' = DOMAIN applied \cup {t}
          /\ \A other \in DOMAIN applied : other # t => applied'[other] = applied[other]
          /\ stage' = stage
        BY <1>5 DEF ledgerSucceeds, Settle, Put, script
    <2>2. t.fn = "register" => Known'
        <3> SUFFICES ASSUME t.fn = "register" PROVE Known'
            OBVIOUS
        <3>1. register(Owner, Handle, Bio)
            BY <1>5, OwnerCalls
        <3>2. Profile' = Put(Profile, Owner, [username |-> Handle, text |-> Bio])
            BY <3>1 DEF register
        <3> QED
            BY <3>2 DEF Put, Known, is_creator
    <2>3. t \notin DOMAIN applied
        BY DEF NetworkInv
    <2> QED
        BY <1>1, <2>1, <2>2, <2>3 DEF ShownInv
<1>6. ASSUME NEW t \in pool, ledgerFails(t) PROVE ShownInv'
    <2>1. /\ DOMAIN applied' = DOMAIN applied \cup {t}
          /\ applied'[t].status = "FAILED"
          /\ \A other \in DOMAIN applied : other # t => applied'[other] = applied[other]
          /\ stage' = stage
        BY <1>6 DEF ledgerFails, Settle, Put, script
    <2> QED
        BY <1>1, <2>1 DEF ShownInv
<1>7. ASSUME NEW t \in pool, drop(t) PROVE ShownInv'
    BY <1>2, <1>7 DEF drop, script
<1>8. CASE Others \/ UNCHANGED clientVars
    BY <1>2, <1>8 DEF Others, clientVars, script, network
<1> QED
    BY <1>3, <1>4, <1>5, <1>6, <1>7, <1>8 DEF ClientNext, ScriptStep

\* A registration that is shown has happened, and the profile keeps the name
\* that was registered.
THEOREM RegistrationTruth == ClientSpec => []RegistrationShown
<1>1. ClientInit => PollInv /\ ShownInv
    BY DEF ClientInit, PollInv, ShownInv, EmptyMap
<1>2. TypeOK /\ NetworkInv /\ PollInv /\ ShownInv /\ [ClientNext]_clientVars => ShownInv'
    BY NextShownInv
<1>3. ShownInv => RegistrationShown
    BY DEF ShownInv, Known, RegistrationShown
<1>4. ClientSpec => []TypeOK
    BY ClientUsesContract, TypeCorrectness, PTL
<1> QED
    BY <1>1, <1>2, <1>3, <1>4, NextPollInv, ClientUsesContract, PTL DEF ClientSpec

------------------------------------------------------------------------------
(* The printed index.                                                      *)

\* The record at index of the owner's live history is the script's tip.
OwnTipAt(index) ==
    /\ Owner \in DOMAIN TipCount
    /\ index \in 0 .. TipCount[Owner] - 1
    /\ get_tip(Owner, index) = [from |-> Owner, token |-> Asset, amount |-> TipAmount]

\* Every tip of the script that succeeded is where the ledger said.
IndexInv ==
    /\ \A t \in DOMAIN applied :
          t.fn = "tip" /\ applied[t].status = "SUCCESS" => OwnTipAt(applied[t].index)
    /\ tipIndex # None => OwnTipAt(tipIndex)

\* A tip of the owner to itself is recorded at the index it returns.
LEMMA OwnTipRecorded ==
    ASSUME TypeOK, HistoryInv, tip(Owner, Owner, Asset, TipAmount),
           NEW index, index = get_tip_count(Owner)
    PROVE  OwnTipAt(index)'
<1> DEFINE record == [from |-> Owner, token |-> Asset, amount |-> TipAmount]
<1>1. Owner \in DOMAIN TipCount /\ index = TipCount[Owner] /\ index \in Nat
    BY NumberAssumption
    DEF tip, CanTip, TipAccepted, TipBooked, HistoryInv, get_tip_count, GetOr, TypeOK, FundsTypeOK, MapOf
<1>2. TipCount' = Put(TipCount, Owner, index + 1)
    BY DEF tip, CanTip, TipAccepted, TipBooked
<1>3. Tip' = Put(Tip, <<Owner, index>>, record)
    BY DEF tip, CanTip, TipAccepted, TipBooked, RecordIndex
<1>4. Owner \in DOMAIN TipCount' /\ TipCount'[Owner] = index + 1
    BY <1>2 DEF Put
<1>5. <<Owner, index>> \in DOMAIN Tip' /\ Tip'[<<Owner, index>>] = record
    <2> HIDE DEF record
    <2> QED
        BY <1>3 DEF Put
<1> QED
    BY <1>1, <1>4, <1>5 DEF OwnTipAt, get_tip, GetOr

\* What is the script's tip stays the script's tip.
LEMMA OwnTipStays ==
    ASSUME TypeOK, NetworkInv, HistoryInv, HistoryInv', [ClientNext]_clientVars,
           [OnlyAppended]_vars, TypeOK', NEW index, OwnTipAt(index)
    PROVE  OwnTipAt(index)'
<1>1. Owner \in DOMAIN TipCount'
    BY OwnerStays DEF OwnTipAt, HistoryInv, is_creator
<1>2. TipCount[Owner] \in Int /\ TipCount'[Owner] \in Int
    BY <1>1, NumberAssumption DEF OwnTipAt, TypeOK, FundsTypeOK, MapOf
<1>3. CASE OnlyAppended
    BY <1>1, <1>2, <1>3 DEF OnlyAppended, OwnTipAt
<1>4. CASE UNCHANGED vars
    BY <1>4 DEF vars, funds, OwnTipAt, get_tip
<1> QED
    BY <1>3, <1>4

\* IndexInv is inductive beside the contract's own invariants.
LEMMA NextIndexInv ==
    ASSUME TypeOK, TypeOK', NetworkInv, HistoryInv, HistoryInv', PollInv, IndexInv,
           [ClientNext]_clientVars, [OnlyAppended]_vars
    PROVE  IndexInv'
<1>1. \A index : OwnTipAt(index) => OwnTipAt(index)'
    BY OwnTipStays
<1>2. CASE UNCHANGED <<applied, tipIndex>>
    BY <1>1, <1>2 DEF IndexInv
<1>3. CASE main \/ freshBuilder \/ simulateTransaction \/ sendTransaction
                \/ sendNotAccepted \/ getTransaction \/ registered \/ throw \/ interrupted
    BY <1>2, <1>3 DEF main, freshBuilder, simulateTransaction, sendTransaction,
        sendNotAccepted, StartPolling, getTransaction, registered, throw, interrupted,
        network
<1>4. CASE tipped
    <2>1. result = "SUCCESS" /\ phase = "poll" /\ stage = "tip"
        BY <1>4 DEF tipped, LoopEnded, Confirmed
    <2>2. tx \in DOMAIN applied /\ applied[tx].status = "SUCCESS" /\ tx.fn = "tip"
        BY <2>1 DEF PollInv, NetworkInv
    <2>3. OwnTipAt(applied[tx].index)
        BY <2>2 DEF IndexInv
    <2> QED
        BY <1>1, <1>4, <2>3 DEF tipped, network, IndexInv
<1>5. ASSUME NEW t \in pool, ledgerSucceeds(t) PROVE IndexInv'
    <2>1. /\ DOMAIN applied' = DOMAIN applied \cup {t}
          /\ \A other \in DOMAIN applied : other # t => applied'[other] = applied[other]
          /\ tipIndex' = tipIndex
        BY <1>5 DEF ledgerSucceeds, Settle, Put, script
    <2>2. t.fn = "tip" => OwnTipAt(applied[t].index)'
        <3> SUFFICES ASSUME t.fn = "tip" PROVE OwnTipAt(applied[t].index)'
            OBVIOUS
        <3>1. tip(Owner, Owner, Asset, TipAmount)
            BY <1>5, OwnerCalls
        <3>2. PICK index : index = get_tip_count(Owner)
            OBVIOUS
        <3>3. applied'[t].index = index
            BY <1>5, <3>2 DEF ledgerSucceeds, Settle, Put
        <3>4. OwnTipAt(index)'
            BY <3>1, <3>2, OwnTipRecorded
        <3> QED
            BY <3>3, <3>4 DEF OwnTipAt
    <2> QED
        BY <1>1, <2>1, <2>2 DEF IndexInv
<1>6. ASSUME NEW t \in pool, ledgerFails(t) PROVE IndexInv'
    <2>1. /\ DOMAIN applied' = DOMAIN applied \cup {t}
          /\ applied'[t].status = "FAILED"
          /\ \A other \in DOMAIN applied : other # t => applied'[other] = applied[other]
          /\ tipIndex' = tipIndex
        BY <1>6 DEF ledgerFails, Settle, Put, script
    <2> QED
        BY <1>1, <2>1 DEF IndexInv
<1>7. ASSUME NEW t \in pool, drop(t) PROVE IndexInv'
    BY <1>2, <1>7 DEF drop, script
<1>8. CASE Others \/ UNCHANGED clientVars
    BY <1>2, <1>8 DEF Others, clientVars, script, network
<1> QED
    BY <1>3, <1>4, <1>5, <1>6, <1>7, <1>8 DEF ClientNext, ScriptStep

\* The index the script prints leads to its own tip, then and from then on.
THEOREM PrintedIndex == ClientSpec => []PrintedIndexIsOwnTip
<1>1. ClientInit => PollInv /\ IndexInv
    BY DEF ClientInit, PollInv, IndexInv, EmptyMap
<1>2. /\ TypeOK /\ NetworkInv /\ HistoryInv /\ PollInv /\ IndexInv
      /\ TypeOK' /\ HistoryInv'
      /\ [ClientNext]_clientVars /\ [OnlyAppended]_vars
      => IndexInv'
    BY NextIndexInv
<1>3. IndexInv => PrintedIndexIsOwnTip
    BY DEF IndexInv, OwnTipAt, PrintedIndexIsOwnTip
<1>4. ClientSpec => []TypeOK
    BY ClientUsesContract, TypeCorrectness, PTL
<1>5. ClientSpec => []HistoryInv
    BY ClientUsesContract, HistoryInvariance, PTL
<1>6. ClientSpec => [][OnlyAppended]_vars
    BY ClientUsesContract, LiveHistoryImmutability, PTL
    DEF LiveHistoryImmutable, OnlyAppended
<1> QED
    BY <1>1, <1>2, <1>3, <1>4, <1>5, <1>6, NextPollInv, ClientUsesContract, PTL
    DEF ClientSpec

------------------------------------------------------------------------------
(* How long a run can take.                                                *)

\* The steps left in the call the script is making, the outcome included.
LeftInCall ==
    [load |-> MAX_POLLS + 4, simulate |-> MAX_POLLS + 3, send |-> MAX_POLLS + 2,
     poll |-> MAX_POLLS - polls + 1]

\* The steps left in the run: after register there is tip to come.
StepsLeft ==
    IF phase \in Active
    THEN LeftInCall[phase] + (IF stage = "register" THEN MAX_POLLS + 4 ELSE 0)
    ELSE 0

\* The attempts to fetch an outcome never pass their limit.
PollsBounded == polls \in 0 .. MAX_POLLS

\* A run that is under way has a step left, and never more than two calls'.
LEMMA StepsLeftRange ==
    ASSUME PollsBounded
    PROVE  /\ StepsLeft \in 0 .. 2 * (MAX_POLLS + 4)
           /\ phase \in Active <=> StepsLeft > 0
<1>1. CASE phase \notin Active
    BY <1>1, ClientAssumption DEF StepsLeft
<1>2. CASE phase \in Active
    <2>1. LeftInCall[phase] \in 1 .. MAX_POLLS + 4
        BY <1>2, ClientAssumption DEF PollsBounded, LeftInCall, Active
    <2> QED
        BY <1>2, <2>1, ClientAssumption DEF StepsLeft
<1> QED
    BY <1>1, <1>2

\* Each step of the script uses up one of the steps left.
LEMMA ScriptShrinks ==
    ASSUME PollsBounded, ScriptStep
    PROVE  PollsBounded' /\ StepsLeft' \in Nat /\ StepsLeft' < StepsLeft
<1>1. polls \in Int /\ 0 <= polls /\ polls <= MAX_POLLS /\ MAX_POLLS \in Nat
    BY ClientAssumption DEF PollsBounded
<1> DEFINE later == IF stage = "register" THEN MAX_POLLS + 4 ELSE 0
<1>2. later \in Nat
    BY <1>1
<1>3. /\ phase = "load" => StepsLeft = MAX_POLLS + 4 + later
      /\ phase = "simulate" => StepsLeft = MAX_POLLS + 3 + later
      /\ phase = "send" => StepsLeft = MAX_POLLS + 2 + later
      /\ phase = "poll" => StepsLeft = MAX_POLLS - polls + 1 + later
    BY DEF StepsLeft, LeftInCall, Active
<1>4. ASSUME stage' = stage
      PROVE  /\ phase' = "simulate" => StepsLeft' = MAX_POLLS + 3 + later
             /\ phase' = "send" => StepsLeft' = MAX_POLLS + 2 + later
             /\ phase' = "poll" => StepsLeft' = MAX_POLLS - polls' + 1 + later
    BY <1>4 DEF StepsLeft, LeftInCall, Active
<1>5. phase' \in {"done", "failed"} => StepsLeft' = 0
    BY DEF StepsLeft, Active
<1> HIDE DEF later
<1>6. CASE freshBuilder
    BY <1>1, <1>2, <1>3, <1>4, <1>6 DEF freshBuilder, PollsBounded
<1>7. CASE simulateTransaction
    BY <1>1, <1>2, <1>3, <1>4, <1>7 DEF simulateTransaction, PollsBounded
<1>8. CASE sendTransaction \/ sendNotAccepted
    BY <1>1, <1>2, <1>3, <1>4, <1>8
    DEF sendTransaction, sendNotAccepted, StartPolling, PollsBounded
<1>9. CASE getTransaction
    BY <1>1, <1>2, <1>3, <1>4, <1>9 DEF getTransaction, PollCounted, PollsBounded
<1>10. CASE registered
    <2>1. phase = "poll" /\ stage = "register" /\ phase' = "load" /\ stage' = "tip"
          /\ polls' = polls
        BY <1>10 DEF registered, LoopEnded
    <2>2. later = MAX_POLLS + 4
        BY <2>1 DEF later
    <2>3. StepsLeft' = MAX_POLLS + 4
        BY <1>1, <2>1 DEF StepsLeft, LeftInCall, Active
    <2> QED
        BY <1>1, <1>3, <2>1, <2>2, <2>3 DEF PollsBounded
<1>11. CASE tipped \/ throw
    <2>1. phase \in {"simulate", "send", "poll"} /\ phase' \in {"done", "failed"}
          /\ polls' = polls
        BY <1>11 DEF tipped, throw, LoopEnded
    <2> QED
        BY <1>1, <1>2, <1>3, <1>5, <2>1 DEF PollsBounded
<1> QED
    BY <1>6, <1>7, <1>8, <1>9, <1>10, <1>11 DEF ScriptStep

\* What one step of the script, of the network or of anybody else does to the
\* steps left: the script uses them up and only main gives it new ones.
OnlyMainRefills ==
    /\ ScriptStep => StepsLeft' < StepsLeft
    /\ ~main => StepsLeft' <= StepsLeft

\* Whatever the network does with its transactions, a run that is not
\* interrupted has at most 2 * (MAX_POLLS + 4) steps of its own, and one left
\* for as long as it has not ended.
THEOREM RunsAreBounded ==
    ClientSpec => /\ []/\ StepsLeft \in 0 .. 2 * (MAX_POLLS + 4)
                       /\ phase \in Active <=> StepsLeft > 0
                  /\ [][OnlyMainRefills]_clientVars
<1>1. ClientInit => PollsBounded
    BY ClientAssumption DEF ClientInit, PollsBounded
<1>2. PollsBounded /\ [ClientNext]_clientVars => PollsBounded' /\ [OnlyMainRefills]_clientVars
    <2> SUFFICES ASSUME PollsBounded, [ClientNext]_clientVars
                 PROVE  PollsBounded' /\ [OnlyMainRefills]_clientVars
        OBVIOUS
    <2>1. StepsLeft \in Nat
        BY StepsLeftRange, ClientAssumption
    <2>2. CASE ScriptStep
        BY <2>1, <2>2, ScriptShrinks DEF OnlyMainRefills
    <2>3. CASE main
        BY <2>2, <2>3 DEF main, PollsBounded, OnlyMainRefills
    <2>4. CASE interrupted
        <3>1. StepsLeft' = 0 /\ polls' = polls
            BY <2>4 DEF interrupted, StepsLeft, Active
        <3> QED
            BY <2>1, <2>2, <3>1 DEF PollsBounded, OnlyMainRefills
    <2>5. CASE UNCHANGED script
        <3>1. StepsLeft' = StepsLeft /\ polls' = polls
            BY <2>5 DEF script, StepsLeft, LeftInCall
        <3> QED
            BY <2>1, <2>2, <3>1 DEF PollsBounded, OnlyMainRefills
    <2> QED
        BY <2>2, <2>3, <2>4, <2>5
        DEF ClientNext, ledgerSucceeds, ledgerFails, Settle, drop, Others, clientVars
<1> QED
    BY <1>1, <1>2, StepsLeftRange, PTL DEF ClientSpec

==============================================================================
