----------------------------- MODULE MCPipeline -----------------------------
(* Pipeline on one or two partitions. *)
EXTENDS Pipeline, TLC

OnePartition == [e \in Events |-> 1]

\* The events are spread over the partitions.
Spread == CHOOSE f \in [Events -> Partitions] : \A p \in Partitions : \E e \in Events : f[e] = p

=============================================================================
