------------------------ MODULE WorkerPrerequisites -------------------------
(***************************************************************************)
(* What the infrastructure controller promises to those who create the     *)
(* machines of a shoot: the SSH key and the worker network that it offers  *)
(* exist in the HCloud project for as long as it offers them, and it never *)
(* replaces the network it offers by another one.                          *)
(***************************************************************************)
CONSTANTS Keys, NetworkIDs, NoKey, NoNetwork

VARIABLES
    keys,   \* SSH keys in the project
    net,    \* the worker network, or NoNetwork
    offer   \* what machines may be created with: [key, network]

vars == <<keys, net, offer>>

Nothing == [key |-> NoKey, network |-> NoNetwork]

Init == keys = {} /\ net = NoNetwork /\ offer = Nothing

Create ==
    /\ \/ (\E k \in Keys : keys' = keys \cup {k}) /\ UNCHANGED net
       \/ net = NoNetwork /\ net' \in NetworkIDs /\ UNCHANGED keys
    /\ UNCHANGED offer

\* Only what is not offered is removed.
Retire ==
    /\ \/ (\E k \in keys \ {offer.key} : keys' = keys \ {k}) /\ UNCHANGED net
       \/ offer.network = NoNetwork /\ net' = NoNetwork /\ UNCHANGED keys
    /\ UNCHANGED offer

\* Only what exists is offered; the network stays the one offered before.
Publish ==
    /\ offer'.key \in keys \cup {NoKey}
    /\ offer'.network \in {net, NoNetwork}
    /\ offer.network # NoNetwork => offer'.network = offer.network
    /\ UNCHANGED <<keys, net>>

\* The shoot is deleted, or the spec names another key.
Withdraw ==
    /\ \/ offer' = Nothing
       \/ offer' = [offer EXCEPT !.key = NoKey]
    /\ UNCHANGED <<keys, net>>

Next == Create \/ Retire \/ Publish \/ Withdraw

Spec == Init /\ [][Next]_vars
=============================================================================
