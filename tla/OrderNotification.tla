------------------------- MODULE OrderNotification -------------------------
(***************************************************************************)
(* What the event pipeline promises: the orders that are recorded, and     *)
(* only they, are notified, each at least once.                            *)
(***************************************************************************)
CONSTANT Orders

VARIABLES recorded, notified

vars == <<recorded, notified>>

Init == recorded = {} /\ notified = {}

Record(o) ==
    /\ o \in Orders \ recorded
    /\ recorded' = recorded \cup {o}
    /\ UNCHANGED notified

Notify(o) ==
    /\ o \in recorded \ notified
    /\ notified' = notified \cup {o}
    /\ UNCHANGED recorded

Next == \E o \in Orders : Record(o) \/ Notify(o)

SafetySpec == Init /\ [][Next]_vars

Spec == SafetySpec /\ \A o \in Orders : WF_vars(Notify(o))

=============================================================================
