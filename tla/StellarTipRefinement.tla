------------------------- MODULE StellarTipRefinement -------------------------
(***************************************************************************)
(* StellarTip implements the username registry and the escrow.             *)
(***************************************************************************)
EXTENDS StellarTipProperties

\* The registry's owners are the UsernameToAddress entries; the Profile keys,
\* from which unregister takes the name it frees, must agree with them.
Registry == INSTANCE UsernameRegistry
    WITH Holder <- Account, Name <- Username, owner <- UsernameToAddress

\* What is owed is the credit on record: a missing Balance entry and one that
\* holds 0 are the same promise.
Escrow == INSTANCE TipEscrow
    WITH Creator <- Account, Asset <- Token,
         owed <- [key \in Account \X Token |-> GetOr(Balance, key, 0)],
         held <- [token \in Token |-> tokenBalance[<<Contract, token>>]],
         wallet <- [key \in Account \X Token |-> tokenBalance[key]]

\* register and unregister claim and release usernames as the registry
\* specification says: no name is handed from one creator to another.
ImplementsRegistry == Registry!Spec

\* tip and withdraw keep the escrow's books: no token, amount or creator is
\* mixed up between what is moved and what is recorded, and a fee never comes
\* out of what is held for creators.
ImplementsEscrow == Escrow!Spec

==============================================================================
