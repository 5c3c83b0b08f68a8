------------------------------- MODULE TipEscrow -------------------------------
(***************************************************************************)
(* What tip and withdraw promise: the contract is an escrow that takes in  *)
(* exactly what it comes to owe and pays out only what it owes, to the     *)
(* creator it owes it to, in the token it owes it in.  Tokens may also     *)
(* arrive that it owes to nobody; they never leave.                        *)
(*                                                                         *)
(* The amounts of a step are read off the step, not chosen from a set, so  *)
(* the specification bounds them by nothing but what is owed.              *)
(***************************************************************************)
EXTENDS Integers

CONSTANTS Creator, Asset

VARIABLES
    owed,   \* <<creator, asset>> |-> credit
    held,   \* asset |-> what the escrow holds
    wallet  \* <<creator, asset>> |-> what the creator itself holds

vars == <<owed, held, wallet>>

Init ==
    /\ owed = [key \in Creator \X Asset |-> 0]
    /\ held = [asset \in Asset |-> 0]
    /\ wallet \in [Creator \X Asset -> Nat]

\* A supporter's payment, less the fee, is credited to the creator.
Collect(creator, asset) ==
    LET amount == held'[asset] - held[asset]
    IN  /\ amount > 0
        /\ held' = [held EXCEPT ![asset] = @ + amount]
        /\ owed' = [owed EXCEPT ![<<creator, asset>>] = @ + amount]

\* The creator withdraws some or all of its credit.
Pay(creator, asset) ==
    LET amount == held[asset] - held'[asset]
    IN  /\ amount \in 1 .. owed[<<creator, asset>>]
        /\ held' = [held EXCEPT ![asset] = @ - amount]
        /\ owed' = [owed EXCEPT ![<<creator, asset>>] = @ - amount]
        /\ wallet' = [wallet EXCEPT ![<<creator, asset>>] = @ + amount]

\* Tokens arrive that are credited to nobody.
Gift(asset) ==
    LET amount == held'[asset] - held[asset]
    IN  /\ amount > 0
        /\ held' = [held EXCEPT ![asset] = @ + amount]
        /\ UNCHANGED owed

\* Creators and supporters move their own tokens among themselves.
Elsewhere == UNCHANGED <<owed, held>>

Next ==
    \/ \E creator \in Creator, asset \in Asset :
          Collect(creator, asset) \/ Pay(creator, asset)
    \/ \E asset \in Asset : Gift(asset)
    \/ Elsewhere

Spec == Init /\ [][Next]_vars

==============================================================================
