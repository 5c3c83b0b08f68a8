--------------------------- MODULE UsernameRegistry ---------------------------
(***************************************************************************)
(* What registration promises, whatever keys it is stored under: a holder  *)
(* owns at most one name, a name has at most one owner, and a name comes   *)
(* and goes only with its owner's claim and release.                       *)
(***************************************************************************)
CONSTANTS Holder, Name

VARIABLE owner  \* the names taken |-> who owns them

Init == owner = [name \in {} |-> name]

Claim(holder, name) ==
    /\ name \notin DOMAIN owner
    /\ \A taken \in DOMAIN owner : owner[taken] # holder
    /\ owner' = [n \in DOMAIN owner \cup {name} |->
                    IF n = name THEN holder ELSE owner[n]]

Release(holder, name) ==
    /\ name \in DOMAIN owner
    /\ owner[name] = holder
    /\ owner' = [n \in DOMAIN owner \ {name} |-> owner[n]]

Next == \E holder \in Holder, name \in Name :
            Claim(holder, name) \/ Release(holder, name)

Spec == Init /\ [][Next]_owner

==============================================================================
