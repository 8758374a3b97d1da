------------------------------ MODULE Binding ------------------------------
(***************************************************************************)
(* What pairing promises, nothing of how: every device is made for one     *)
(* claim, offered to at most one screen, and to that screen only; a screen *)
(* accepts one offer, once and for good.  Codes, sessions, polls, expiry   *)
(* and lost answers are not visible here; Pairing implements this module.  *)
(***************************************************************************)
CONSTANTS Agent, Device, None

VARIABLES
    made,    \* every device ever made
    alive,   \* the devices that have not been removed
    fresh,   \* devices made for a claim that has not taken effect
    offers,  \* the pairs of an agent and a device it may still accept
    bound    \* bound[a]: the device agent a has accepted, or None

vars == <<made, alive, fresh, offers, bound>>

Init ==
    /\ made = {} /\ alive = {} /\ fresh = {}
    /\ offers = {}
    /\ bound = [a \in Agent |-> None]

\* A claim makes a device that never was before.
Make(d) ==
    /\ d \notin made
    /\ made' = made \cup {d} /\ alive' = alive \cup {d} /\ fresh' = fresh \cup {d}
    /\ UNCHANGED <<offers, bound>>

\* The claim takes effect: a device that nobody has been offered, to a screen that
\* has none. Offers to the same screen may be withdrawn for it.
Offer(a, d) ==
    /\ d \in fresh \cap alive /\ bound[a] = None
    /\ fresh' = fresh \ {d}
    /\ <<a, d>> \in offers'
    /\ offers' \subseteq offers \cup {<<a, d>>}
    /\ \A o \in offers \ offers' : o[1] = a
    /\ UNCHANGED <<made, alive, bound>>

\* The screen accepts one of its offers; the others are void.
Accept(a, d) ==
    /\ <<a, d>> \in offers /\ bound[a] = None
    /\ bound' = [bound EXCEPT ![a] = d]
    /\ offers' = {o \in offers : o[1] # a}
    /\ UNCHANGED <<made, alive, fresh>>

\* Removing a device withdraws it, unless its offer has already been read.
Remove(d) ==
    /\ d \in alive
    /\ alive' = alive \ {d}
    /\ offers' \subseteq offers
    /\ \A o \in offers \ offers' : o[2] = d
    /\ UNCHANGED <<made, fresh, bound>>

\* Offers are forgotten by the one who should accept them, claims fail half-way:
\* what is lost in this way never comes back.
Lose ==
    /\ offers' \subseteq offers /\ fresh' \subseteq fresh
    /\ UNCHANGED <<made, alive, bound>>

-----------------------------------------------------------------------------
Next ==
    \/ \E d \in Device : Make(d) \/ Remove(d)
    \/ \E a \in Agent, d \in Device : Offer(a, d) \/ Accept(a, d)
    \/ Lose

Spec == Init /\ [][Next]_vars
=============================================================================
