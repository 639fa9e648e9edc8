------------------------------ MODULE Delivery ------------------------------
(***************************************************************************)
(* What the OCPP task promises of transaction messages: they are settled   *)
(* one at a time, in the order in which they were made, and none is left   *)
(* out or settled twice.                                                   *)
(***************************************************************************)
EXTENDS Integers

VARIABLES
    owed,   \* the numbers of the messages accepted and not yet settled
    out     \* the number of the message being delivered, 0 when there is none

Init == owed = {} /\ out = 0

\* New messages are younger than every message there is.
Accept ==
    /\ owed \subseteq owed'
    /\ \A m \in owed' \ owed : \A n \in owed : n < m
    /\ UNCHANGED out

Take ==
    /\ out = 0
    /\ out' \in owed
    /\ \A n \in owed : out' <= n
    /\ UNCHANGED owed

Settle ==
    /\ out \in owed
    /\ owed' = owed \ {out}
    /\ out' = 0

Next == Accept \/ Take \/ Settle

Spec == Init /\ [][Next]_<<owed, out>>
=============================================================================
