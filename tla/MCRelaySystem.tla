--------------------------- MODULE MCRelaySystem ---------------------------
(* RelaySystem on one partition. *)
EXTENDS RelaySystem

OnePartition == [e \in Events |-> 1]

=============================================================================
