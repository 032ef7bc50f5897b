-------------------------- MODULE MCNotifierSystem --------------------------
(* NotifierSystem on one partition. *)
EXTENDS NotifierSystem

OnePartition == [e \in Events |-> 1]

=============================================================================
