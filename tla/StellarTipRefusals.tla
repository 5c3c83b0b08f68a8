-------------------------- MODULE StellarTipRefusals --------------------------
(***************************************************************************)
(* The contract beside a caller that is refused once and remembers the     *)
(* call and its error: what may a refusal tell it about a later attempt?   *)
(***************************************************************************)
EXTENDS StellarTipErrors

VARIABLE refused    \* None, or a refused call and its error

NoteRefusal(call) ==
    /\ refused = None
    /\ outcome(call) # Ok
    /\ refused' = [call |-> call, error |-> outcome(call)]
    /\ UNCHANGED vars

RefusalInit == Init /\ refused = None

RefusalNext ==
    \/ Next /\ UNCHANGED refused
    \/ \E call \in Call : NoteRefusal(call)

RefusalSpec == RefusalInit /\ [][RefusalNext]_<<vars, refused>>

------------------------------------------------------------------------------
(* A statement of the documentation that the code does not keep.           *)

\* The errors of lib.rs:101-102, "Never retry (deterministic)".
NeverRetry ==
    {CreatorAlreadyExists, UsernameTaken, InvalidAmount, NotInitialized,
     AlreadyInitialized, NotAuthorized, InvalidInput, BalanceNotEmpty,
     FeeRecipientNotSet}

\* A call refused with one of them is refused whenever it is made again.
NeverRetryIsFinal ==
    refused # None /\ refused.error \in NeverRetry => outcome(refused.call) # Ok

==============================================================================
