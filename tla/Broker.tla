------------------------------- MODULE Broker -------------------------------
(***************************************************************************)
(* The Kafka topic as the kafka client of messaging/kafka uses it: an      *)
(* append-only log per partition, the partition chosen by the record key   *)
(* (the order reference, one per event).  A restart of the broker loses    *)
(* nothing that was acknowledged.                                          *)
(***************************************************************************)
EXTENDS Naturals, Sequences, Faults

CONSTANTS Partitions,
          PartitionOf   \* the partition a record key hashes to

ASSUME PartitionAssumption == PartitionOf \in [Events -> Partitions]

VARIABLES log,          \* the records of each partition, oldest first
          up            \* the broker answers requests

brokerVars == <<log, up>>

BrokerTypeOK ==
    /\ log \in [Partitions -> Seq(Events)]
    /\ up \in BOOLEAN

BrokerInit ==
    /\ log = [p \in Partitions |-> <<>>]
    /\ up = TRUE

\* A record is appended to the partition of its key.
Produce(e) == log' = [log EXCEPT ![PartitionOf[e]] = Append(@, e)]

BrokerFails ==
    /\ up
    /\ Fault("broker")
    /\ up' = FALSE
    /\ UNCHANGED log

BrokerRecovers ==
    /\ ~up
    /\ up' = TRUE
    /\ UNCHANGED <<log, faults>>

BrokerStep == BrokerFails \/ BrokerRecovers

\* The offsets at which e stands in the log (offsets count from 1).
Copies(e) == {o \in 1 .. Len(log[PartitionOf[e]]) : log[PartitionOf[e]][o] = e}

Logged(e) == Copies(e) # {}

\* A record stands in the partition of its key.
KeyedLog == \A p \in Partitions : \A o \in 1 .. Len(log[p]) : PartitionOf[log[p][o]] = p

=============================================================================
