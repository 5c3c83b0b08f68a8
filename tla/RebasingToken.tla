----------------------------- MODULE RebasingToken -----------------------------
(***************************************************************************)
(* The rebasing token of the repository's tests: holders own shares, and   *)
(* the balance a holder sees is its shares times num / den.  A rebase      *)
(* rescales every balance at once without moving a share.                  *)
(***************************************************************************)
EXTENDS Integers

VARIABLES
    shares,    \* holder |-> shares
    num, den   \* the rebase factor

tokenVars == <<shares, num, den>>

balance(id) == (shares[id] * num) \div den

FaultNominalAsShares(amount) == amount

\* Only for num # 0: after a wipeout no amount converts.
nominal_to_shares(amount) == (amount * den) \div num

CanMove(held, src, amount) == num # 0 /\ held[src] >= nominal_to_shares(amount)

\* What dst held is read before src is debited, so a transfer to oneself
\* would create shares.
Moved(held, src, dst, amount) ==
    [held EXCEPT ![src] = held[src] - nominal_to_shares(amount),
                 ![dst] = held[dst] + nominal_to_shares(amount)]

transfer(src, dst, amount) ==
    /\ CanMove(shares, src, amount)
    /\ shares' = Moved(shares, src, dst, amount)
    /\ UNCHANGED <<num, den>>

rebase(n, d) ==
    /\ n >= 0
    /\ d > 0
    /\ num' = n
    /\ den' = d
    /\ UNCHANGED shares

==============================================================================
