------------------------------ MODULE Notifier ------------------------------
(***************************************************************************)
(* The notifier's consume loop (services/notifier/service.go) over the     *)
(* consumer side of the kafka client, its sinks (sink.go) and its mark in  *)
(* the outbox.  Replicas are members of one consumer group, with automatic *)
(* commits disabled.  Offsets count from 1, so "committed up to o" is o.   *)
(*                                                                         *)
(* Every record of the log decodes and renders: the relays are the only    *)
(* producers, they publish what they have decoded and encoded themselves   *)
(* (relay.go publish, kafka/client.go Publish), and the data of a row is   *)
(* the order its purchase has marshalled (purchase.go).  So Poll skips no  *)
(* record and dispatch has no render error.                                *)
(***************************************************************************)
EXTENDS OutboxStore, Broker

CONSTANTS Notifiers,    \* replicas of the notifier service
          NoOwner,      \* the owner of an unassigned partition
          FileSink      \* a notification file is configured

ASSUME NotifierAssumption ==
    /\ IsFiniteSet(Notifiers)
    /\ NoOwner \notin Notifiers
    /\ FileSink \in BOOLEAN

VARIABLES owner,        \* the group member each partition is assigned to
          committed,    \* the group's committed offset in each partition
          npc,          \* where the consume loop of each notifier stands
          pos,          \* how far each notifier has polled each partition
          batch,        \* polled records it has not dispatched yet
          current,      \* the record it is marking delivered, as a set
          ncancel,      \* Stop has cancelled its context
          shown,        \* notifications written to the terminal, per event
          filed,        \* notifications written to the file, per event
          failed        \* history: a sink or the mark of the event failed

groupVars == <<owner, committed>>
loopVars == <<npc, pos, batch, current, ncancel>>
sinkVars == <<shown, filed, failed>>
notifierVars == <<groupVars, loopVars, sinkVars>>

\* A record's position in the topic.
Positions == Partitions \X (Nat \ {0})

NotifierTypeOK ==
    /\ OutboxTypeOK
    /\ BrokerTypeOK
    /\ faults \in 0 .. MaxFaults
    /\ owner \in [Partitions -> Notifiers \cup {NoOwner}]
    /\ committed \in [Partitions -> Nat]
    /\ npc \in [Notifiers -> {"down", "poll", "dispatch", "mark", "commit"}]
    /\ pos \in [Notifiers -> [Partitions -> Nat]]
    /\ batch \in [Notifiers -> SUBSET Positions]
    /\ current \in [Notifiers -> SUBSET Positions]
    /\ ncancel \in [Notifiers -> BOOLEAN]
    /\ shown \in [Events -> Nat]
    /\ filed \in [Events -> Nat]
    /\ failed \in [Events -> BOOLEAN]

NotifierInit ==
    /\ owner = [p \in Partitions |-> NoOwner]
    /\ committed = [p \in Partitions |-> 0]
    /\ npc = [n \in Notifiers |-> "down"]
    /\ pos = [n \in Notifiers |-> [p \in Partitions |-> 0]]
    /\ batch = [n \in Notifiers |-> {}]
    /\ current = [n \in Notifiers |-> {}]
    /\ ncancel = [n \in Notifiers |-> FALSE]
    /\ shown = [e \in Events |-> 0]
    /\ filed = [e \in Events |-> 0]
    /\ failed = [e \in Events |-> FALSE]

Record(x) == log[x[1]][x[2]]

-----------------------------------------------------------------------------
\* Start: the consumer is pinged, then the loop is launched.
StartNotifier(n) ==
    /\ npc[n] = "down"
    /\ up
    /\ npc' = [npc EXCEPT ![n] = "poll"]
    /\ ncancel' = [ncancel EXCEPT ![n] = FALSE]
    /\ UNCHANGED <<groupVars, pos, batch, current, sinkVars, outboxVars, brokerVars, faults>>

\* Mutant: without a committed offset, a member starts at the end of the log.
AssignAtEnd(p, n) ==
    /\ npc[n] # "down"
    /\ up
    /\ owner[p] # n
    /\ IF owner[p] = NoOwner THEN UNCHANGED faults ELSE Fault("rebalance")
    /\ owner' = [owner EXCEPT ![p] = n]
    /\ pos' = [pos EXCEPT ![n][p] = IF committed[p] = 0 THEN Len(log[p]) ELSE committed[p]]
    /\ UNCHANGED <<committed, npc, batch, current, ncancel, sinkVars, outboxVars, brokerVars>>

\* The group assigns p to n, which starts at the committed offset, or at the
\* start of the log if there is none.  Taking p from a member that is alive
\* is a fault of the group (a missed heartbeat); what that member has polled
\* stays in its batch.
Assign(p, n) ==
    /\ npc[n] # "down"
    /\ up
    /\ owner[p] # n
    /\ IF owner[p] = NoOwner THEN UNCHANGED faults ELSE Fault("rebalance")
    /\ owner' = [owner EXCEPT ![p] = n]
    /\ pos' = [pos EXCEPT ![n][p] = committed[p]]
    /\ UNCHANGED <<committed, npc, batch, current, ncancel, sinkVars, outboxVars, brokerVars>>

\* Poll: some records of the partitions n owns, a run of each.  A poll that
\* fails is repeated and changes nothing.
Poll(n) ==
    /\ npc[n] = "poll"
    /\ ~ncancel[n]
    /\ up
    /\ \E reached \in [Partitions -> UNION {0 .. Len(log[p]) : p \in Partitions}] :
          /\ reached # pos[n]
          /\ \A p \in Partitions :
                /\ pos[n][p] <= reached[p]
                /\ owner[p] = n => reached[p] <= Len(log[p])
                /\ owner[p] # n => reached[p] = pos[n][p]
          /\ pos' = [pos EXCEPT ![n] = reached]
          /\ batch' = [batch EXCEPT ![n] =
                UNION {{p} \X (pos[n][p] + 1 .. reached[p]) : p \in Partitions}]
    /\ npc' = [npc EXCEPT ![n] = "dispatch"]
    /\ UNCHANGED <<groupVars, current, ncancel, sinkVars, outboxVars, brokerVars, faults>>

\* The loop over the batch stands at x: offset order within a partition.
Dispatching(n, x) ==
    /\ npc[n] = "dispatch"
    /\ x \in batch[n]
    /\ \A y \in batch[n] : y[1] = x[1] => x[2] <= y[2]

\* Mutant: the loop commits after every record.
AfterEach(rest) == "commit"

\* Where the loop goes once the record it holds is handled.
AfterDispatch(rest) == IF rest = {} THEN "commit" ELSE "dispatch"

\* Mutant: the record stays in the batch.
WriteAgain(n, x) ==
    /\ Dispatching(n, x)
    /\ shown' = [shown EXCEPT ![Record(x)] = @ + 1]
    /\ filed' = [filed EXCEPT ![Record(x)] = IF FileSink THEN @ + 1 ELSE @]
    /\ current' = [current EXCEPT ![n] = {x}]
    /\ npc' = [npc EXCEPT ![n] = "mark"]
    /\ UNCHANGED <<groupVars, pos, batch, ncancel, failed, outboxVars, brokerVars, faults>>

\* dispatch: the notification is written to the terminal and, if configured,
\* to the file.
WriteNotification(n, x) ==
    /\ Dispatching(n, x)
    /\ shown' = [shown EXCEPT ![Record(x)] = @ + 1]
    /\ filed' = [filed EXCEPT ![Record(x)] = IF FileSink THEN @ + 1 ELSE @]
    /\ batch' = [batch EXCEPT ![n] = @ \ {x}]
    /\ current' = [current EXCEPT ![n] = {x}]
    /\ npc' = [npc EXCEPT ![n] = "mark"]
    /\ UNCHANGED <<groupVars, pos, ncancel, failed, outboxVars, brokerVars, faults>>

\* Mutant: dispatch does not return after a failed write.
WriteErrorMarks(n, x) ==
    /\ Dispatching(n, x)
    /\ FileSink
    /\ Fault("sink")
    /\ shown' = [shown EXCEPT ![Record(x)] = @ + 1]
    /\ batch' = [batch EXCEPT ![n] = @ \ {x}]
    /\ current' = [current EXCEPT ![n] = {x}]
    /\ npc' = [npc EXCEPT ![n] = "mark"]
    /\ UNCHANGED <<groupVars, pos, ncancel, filed, failed, outboxVars, brokerVars>>

\* History: the dispatch of these records failed, and not because Stop had
\* cancelled the loop.
Failed(n, records) ==
    failed' = [e \in Events |->
        failed[e] \/ (~ncancel[n] /\ \E x \in records : Record(x) = e)]

\* dispatch: the file cannot be written; the terminal, which comes first in
\* the tee, has the notification already.  dispatch returns.
WriteError(n, x) ==
    /\ Dispatching(n, x)
    /\ FileSink
    /\ Fault("sink")
    /\ shown' = [shown EXCEPT ![Record(x)] = @ + 1]
    /\ batch' = [batch EXCEPT ![n] = @ \ {x}]
    /\ npc' = [npc EXCEPT ![n] = AfterDispatch(batch'[n])]
    /\ Failed(n, {x})
    /\ UNCHANGED <<groupVars, pos, current, ncancel, filed, outboxVars, brokerVars>>

Marked(n) ==
    /\ npc' = [npc EXCEPT ![n] = AfterDispatch(batch[n])]
    /\ current' = [current EXCEPT ![n] = {}]
    /\ UNCHANGED <<groupVars, pos, batch, ncancel, shown, filed, brokerVars>>

MarkDelivered(n, x) ==
    /\ npc[n] = "mark"
    /\ x \in current[n]
    /\ ~ncancel[n]
    /\ SetDeliveredByEventID(Record(x))
    /\ Marked(n)
    /\ UNCHANGED <<failed, faults>>

\* The update fails: always so once the context is cancelled.
MarkDeliveredError(n) ==
    /\ npc[n] = "mark"
    /\ IF ncancel[n] THEN UNCHANGED faults ELSE Fault("db")
    /\ Marked(n)
    /\ Failed(n, current[n])
    /\ UNCHANGED outboxVars

\* Mutant: the commit of a member that lost a partition is accepted.
CommitUnfenced(n) ==
    /\ npc[n] = "commit"
    /\ ~ncancel[n]
    /\ up
    /\ committed' = [p \in Partitions |-> IF pos[n][p] > 0 THEN pos[n][p] ELSE committed[p]]
    /\ npc' = [npc EXCEPT ![n] = "poll"]
    /\ UNCHANGED <<owner, pos, batch, current, ncancel, sinkVars, outboxVars, brokerVars, faults>>

\* Mutant: the commit does not use the loop's context.
CommitCancelled(n) ==
    /\ npc[n] = "commit"
    /\ up
    /\ committed' = [p \in Partitions |-> IF owner[p] = n THEN pos[n][p] ELSE committed[p]]
    /\ npc' = [npc EXCEPT ![n] = "poll"]
    /\ UNCHANGED <<owner, pos, batch, current, ncancel, sinkVars, outboxVars, brokerVars, faults>>

\* Commit acknowledges everything polled, in the partitions n still owns:
\* the broker refuses the commit of a member of an older generation.
Commit(n) ==
    /\ npc[n] = "commit"
    /\ ~ncancel[n]
    /\ up
    /\ committed' = [p \in Partitions |-> IF owner[p] = n THEN pos[n][p] ELSE committed[p]]
    /\ npc' = [npc EXCEPT ![n] = "poll"]
    /\ UNCHANGED <<owner, pos, batch, current, ncancel, sinkVars, outboxVars, brokerVars, faults>>

\* The commit fails and is logged; the next one covers it.
CommitError(n) ==
    /\ npc[n] = "commit"
    /\ IF ncancel[n] \/ ~up THEN UNCHANGED faults ELSE Fault("commit")
    /\ npc' = [npc EXCEPT ![n] = "poll"]
    /\ UNCHANGED <<groupVars, pos, batch, current, ncancel, sinkVars, outboxVars, brokerVars>>

\* Stop cancels the context of the loop ...
StopNotifier(n) ==
    /\ npc[n] # "down"
    /\ ~ncancel[n]
    /\ Fault("stop")
    /\ ncancel' = [ncancel EXCEPT ![n] = TRUE]
    /\ UNCHANGED <<groupVars, npc, pos, batch, current, sinkVars, outboxVars, brokerVars>>

\* The process is gone; the group gives up its membership.
Leave(n) ==
    /\ npc' = [npc EXCEPT ![n] = "down"]
    /\ batch' = [batch EXCEPT ![n] = {}]
    /\ current' = [current EXCEPT ![n] = {}]
    /\ owner' = [p \in Partitions |-> IF owner[p] = n THEN NoOwner ELSE owner[p]]
    /\ pos' = [pos EXCEPT ![n] = [p \in Partitions |-> 0]]
    /\ UNCHANGED <<committed, ncancel, sinkVars, outboxVars, brokerVars>>

\* ... and the loop ends before or in its next Poll.
ExitNotifier(n) ==
    /\ npc[n] = "poll"
    /\ ncancel[n]
    /\ Leave(n)
    /\ UNCHANGED faults

CrashNotifier(n) ==
    /\ npc[n] # "down"
    /\ Fault("crash")
    /\ Leave(n)

\* The steps of a notifier that nothing but its own scheduling delays.
NotifierRuns(n) ==
    \/ StartNotifier(n) \/ Poll(n) \/ Commit(n) \/ ExitNotifier(n)
    \/ \E x \in batch[n] : WriteNotification(n, x)
    \/ \E x \in current[n] : MarkDelivered(n, x)
    \/ ncancel[n] /\ MarkDeliveredError(n)
    \/ (ncancel[n] \/ ~up) /\ CommitError(n)

NotifierStep(n) ==
    \/ NotifierRuns(n)
    \/ \E p \in Partitions : Assign(p, n)
    \/ \E x \in batch[n] : WriteError(n, x)
    \/ MarkDeliveredError(n) \/ CommitError(n)
    \/ StopNotifier(n) \/ CrashNotifier(n)

-----------------------------------------------------------------------------
\* At least once: an event the group has committed past has been shown, so no
\* crash, restart or rebalance loses one (service.go consume: commit only
\* after processing).
CommittedIsShown ==
    \A p \in Partitions : \A o \in 1 .. committed[p] : shown[log[p][o]] > 0

\* A row marked delivered has been written to every configured sink
\* (service.go dispatch: the mark follows a Write that returned nil).
DeliveredIsWritten ==
    \A e \in Events : deliveredAt[e] => shown[e] > 0 /\ (FileSink => filed[e] > 0)

\* An event the group has committed past is marked delivered: whatever is
\* undelivered will be redelivered (service.go dispatch).
UndeliveredIsRetried ==
    \A p \in Partitions : \A o \in 1 .. committed[p] : deliveredAt[log[p][o]]

\* No row is stranded silently: an event the group has committed past is
\* marked delivered, or its own write or mark failed (service.go dispatch).
\* Stop, a crash or a rebalance between the two strands nothing.
StrandedHasFailed ==
    \A p \in Partitions : \A o \in 1 .. committed[p] :
        deliveredAt[log[p][o]] \/ failed[log[p][o]]

\* How often an event can be shown: once per copy in the log, and once more
\* per copy and fault (service.go dispatch has no other guard).
RedeliveryBound ==
    \A e \in Events : shown[e] <= Cardinality(Copies(e)) * (1 + faults)

-----------------------------------------------------------------------------
(* The inductive invariant of the proofs. *)

\* Nothing points beyond the log, and an owner starts at the committed offset.
OffsetsInLog ==
    /\ \A p \in Partitions : committed[p] <= Len(log[p])
    /\ \A p \in Partitions, n \in Notifiers :
          owner[p] = n => committed[p] <= pos[n][p] /\ pos[n][p] <= Len(log[p])
    /\ \A n \in Notifiers : \A x \in batch[n] \cup current[n] : x[2] <= Len(log[x[1]])

\* What an owner has polled beyond the committed offset is shown already, or
\* still in its batch.
PolledIsShownOrHeld ==
    \A p \in Partitions, n \in Notifiers : owner[p] = n =>
        \A o \in committed[p] + 1 .. pos[n][p] : shown[log[p][o]] > 0 \/ <<p, o>> \in batch[n]

\* While its loop is not cancelled, what an owner has polled beyond the
\* committed offset is marked, has failed, or is still in its hands.
PolledIsMarkedOrHeld ==
    \A p \in Partitions, n \in Notifiers : owner[p] = n /\ ~ncancel[n] =>
        \A o \in committed[p] + 1 .. pos[n][p] :
            \/ deliveredAt[log[p][o]] \/ failed[log[p][o]]
            \/ <<p, o>> \in batch[n] \cup current[n]

\* The loop commits and polls only after it has dispatched the whole batch,
\* holds one record only while it marks it, and owns nothing once it is down.
BatchDoneBeforeCommit ==
    \A n \in Notifiers :
        /\ npc[n] \in {"down", "poll", "commit"} => batch[n] = {}
        /\ npc[n] # "mark" => current[n] = {}
        /\ \A x, y \in current[n] : x = y
        /\ npc[n] = "down" => \A p \in Partitions : owner[p] # n

\* The record being marked has been written to every configured sink.
MarkingIsWritten ==
    \A n \in Notifiers : \A x \in current[n] :
        shown[Record(x)] > 0 /\ (FileSink => filed[Record(x)] > 0)

ConsumeInv ==
    /\ NotifierTypeOK
    /\ OffsetsInLog
    /\ PolledIsShownOrHeld
    /\ PolledIsMarkedOrHeld
    /\ BatchDoneBeforeCommit
    /\ MarkingIsWritten
    /\ CommittedIsShown
    /\ StrandedHasFailed
    /\ DeliveredIsWritten

\* Where the next poll of p begins unless something else fails: the owner goes
\* on where it is; a cancelled one exits without another commit.
StartsAt(p) ==
    IF owner[p] = NoOwner \/ ncancel[owner[p]] THEN committed[p] ELSE pos[owner[p]][p]

\* What is due to be shown without another fault: a copy of e in the batch of
\* n, or one that a poll may yet return (written with NoOwner).
DueAt(e, o, n) ==
    IF n = NoOwner THEN o > StartsAt(PartitionOf[e]) ELSE <<PartitionOf[e], o>> \in batch[n]

Due(e) == {t \in Copies(e) \X (Notifiers \cup {NoOwner}) : DueAt(e, t[1], t[2])}

\* Every notification, shown or due, is paid for by a copy or by a fault.
Paid(e) == shown[e] + Cardinality(Due(e)) <= Cardinality(Copies(e)) * (1 + faults)

NotifierInv == ConsumeInv /\ KeyedLog /\ \A e \in Events : Paid(e)

=============================================================================
