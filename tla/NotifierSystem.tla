--------------------------- MODULE NotifierSystem ---------------------------
(***************************************************************************)
(* The notifiers with a broker that receives any event of a committed      *)
(* order any number of times, up to MaxLog records per partition: every    *)
(* log the relays can write, whatever they do.                             *)
(***************************************************************************)
EXTENDS Notifier

CONSTANT MaxLog         \* bound on the records of a partition

notifierSystemVars == <<outboxVars, brokerVars, notifierVars, faults>>

NotifierSystemInit ==
    /\ OutboxInit
    /\ BrokerInit
    /\ NotifierInit
    /\ faults = 0

\* Some relay publishes the event of a visible row.
RelayPublishes(e) ==
    /\ e \in Visible
    /\ up
    /\ Len(log[PartitionOf[e]]) < MaxLog
    /\ Produce(e)
    /\ UNCHANGED <<outboxVars, up, notifierVars, faults>>

NotifierSystemNext ==
    \/ \E e \in Events : OrderStep(e) /\ UNCHANGED <<brokerVars, notifierVars, faults>>
    \/ \E e \in Events : RelayPublishes(e)
    \/ \E n \in Notifiers : NotifierStep(n)
    \/ BrokerStep /\ UNCHANGED <<outboxVars, notifierVars>>

\* The notifiers keep running, the broker comes back, and the group assigns
\* every partition to some live member.
NotifierFairness ==
    /\ \A n \in Notifiers : WF_notifierSystemVars(NotifierRuns(n))
    /\ WF_notifierSystemVars(BrokerRecovers /\ UNCHANGED <<outboxVars, notifierVars>>)
    /\ \A p \in Partitions :
          WF_notifierSystemVars(owner[p] = NoOwner /\ \E n \in Notifiers : Assign(p, n))

NotifierSafetySpec == NotifierSystemInit /\ [][NotifierSystemNext]_notifierSystemVars

NotifierSpec == NotifierSafetySpec /\ NotifierFairness

-----------------------------------------------------------------------------
\* Committed offsets never move back, so a partition that changes hands does
\* not replay what was already acknowledged (client.go Commit).
CommitsAdvance == [][\A p \in Partitions : committed[p] <= committed'[p]]_notifierSystemVars

\* Every event that reaches the log is shown in the end, whatever fails on
\* the way.
EventuallyShown == \A e \in Events : Logged(e) ~> shown[e] > 0

=============================================================================
