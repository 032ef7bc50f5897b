------------------------------- MODULE MCApi -------------------------------
(* Api with two calls and two credentials; the notifier has no password. *)
EXTENDS Api, TLC

AllMethods == ClientMethods \cup {ListNotifications}

Configured == [s \in {"orders", "notifier"} |-> IF s = "orders" THEN "right" ELSE NoPassword]

Symmetry == Permutations(Calls)

=============================================================================
