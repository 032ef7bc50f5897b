------------------------------ MODULE Faults ------------------------------
(***************************************************************************)
(* What the parts of the event pipeline share: the events of the attempted *)
(* purchases, and the misbehaviour of the world around the services.       *)
(* Every crash, stop request, rebalance and failed call spends one unit of *)
(* a budget, so that a behaviour has finitely many of them and counters    *)
(* stay bounded.  The theorems hold for every budget.                      *)
(***************************************************************************)
EXTENDS Naturals

CONSTANTS Events,       \* one event per attempted purchase
          FaultKinds,   \* the kinds of fault that may occur
          MaxFaults     \* how many faults a behaviour may have

ASSUME FaultsAssumption == MaxFaults \in Nat

VARIABLE faults         \* how many have occurred

Fault(kind) ==
    /\ kind \in FaultKinds
    /\ faults < MaxFaults
    /\ faults' = faults + 1

=============================================================================
