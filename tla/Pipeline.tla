------------------------------ MODULE Pipeline ------------------------------
(***************************************************************************)
(* The whole event pipeline: purchase transactions fill the outbox, the    *)
(* relays publish its rows, the notifiers show the events and mark the     *)
(* rows delivered.  The outbox is the one table both services write.       *)
(***************************************************************************)
EXTENDS Relay, Notifier

vars == <<outboxVars, brokerVars, relayVars, notifierVars, faults>>

Init ==
    /\ OutboxInit
    /\ BrokerInit
    /\ RelayInit
    /\ NotifierInit
    /\ faults = 0

Next ==
    \/ \E e \in Events : OrderStep(e) /\ UNCHANGED <<brokerVars, relayVars, notifierVars, faults>>
    \/ \E r \in Relays : RelayStep(r) /\ UNCHANGED notifierVars
    \/ \E n \in Notifiers : NotifierStep(n) /\ UNCHANGED relayVars
    \/ BrokerStep /\ UNCHANGED <<outboxVars, relayVars, notifierVars>>

Fairness ==
    /\ \A r \in Relays :
          /\ WF_vars(~Waits(r) /\ RelayRuns(r) /\ UNCHANGED notifierVars)
          /\ SF_vars(ExitRelay(r) /\ UNCHANGED notifierVars)
    /\ \A n \in Notifiers : WF_vars(NotifierRuns(n) /\ UNCHANGED relayVars)
    /\ \A p \in Partitions :
          WF_vars(/\ owner[p] = NoOwner
                  /\ \E n \in Notifiers : Assign(p, n) /\ UNCHANGED relayVars)
    /\ WF_vars(BrokerRecovers /\ UNCHANGED <<outboxVars, relayVars, notifierVars>>)

SafetySpec == Init /\ [][Next]_vars

Spec == SafetySpec /\ Fairness

-----------------------------------------------------------------------------
Promise == INSTANCE OrderNotification WITH
    Orders <- Events,
    recorded <- Visible,
    notified <- {e \in Events : shown[e] > 0}

\* The pipeline notifies every committed order, and no other (purchase.go,
\* relay.go, notifier/service.go taken together).
KeepsPromise == Promise!Spec

\* The safety half: nothing is shown that is not a committed order.
KeepsPromiseSafely == Promise!SafetySpec

\* A committed order's row is marked published in the end, and marked
\* delivered unless its write or its mark failed, whatever crashes, stops or
\* changes hands on the way (relay.go drain, notifier/service.go consume).
EventuallySettled ==
    \A e \in Events :
        e \in Visible ~> [](publishedAt[e] /\ (deliveredAt[e] \/ failed[e]))

\* How often an order can be notified (the product of what the relays and the
\* notifiers may repeat).
NotificationBound ==
    \A e \in Events : shown[e] <= (Cardinality(Relays) + faults) * (1 + faults)

\* The two marks of a row are written by two services, and the notifier may
\* come first (relay.go publish marks after Publish returned).  A row that is
\* delivered and not published is about to be marked by a relay, or there has
\* been a fault (a failed mark or a crash; which one is not recorded).
DeliveredIsPublished ==
    \A e \in Events : deliveredAt[e] /\ ~publishedAt[e] => Marking(e) # {} \/ faults > 0

-----------------------------------------------------------------------------
(* The inductive invariant of the proofs. *)

\* Only records of the topic are shown.
ShownIsLogged == \A e \in Events : shown[e] > 0 => Logged(e)

PipelineInv ==
    /\ AccountedInv
    /\ NotifierInv
    /\ ShownIsLogged

=============================================================================
