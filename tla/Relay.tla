------------------------------- MODULE Relay -------------------------------
(***************************************************************************)
(* The outbox relay (services/orders/relay.go): in every replica of the    *)
(* orders service one goroutine scans the outbox on each tick, publishes   *)
(* the unpublished rows and marks each one published.  Replicas share the  *)
(* table and claim nothing.                                                *)
(***************************************************************************)
EXTENDS OutboxStore, Broker

CONSTANTS Relays,       \* replicas of the orders service
          BatchSize,    \* rows per scan (100 in the code)
          MayRefuse     \* events that may turn out impossible to publish

ASSUME RelayAssumption ==
    /\ IsFiniteSet(Relays)
    /\ BatchSize \in Nat \ {0}
    /\ MayRefuse \subseteq Events

VARIABLES rpc,          \* where the goroutine of each relay stands
          todo,         \* the rows of its scan it has not handled yet
          fullBatch,    \* its last scan returned BatchSize rows
          rcancel,      \* Stop has cancelled its context
          refused       \* events no attempt publishes: the row does not
                        \* decode, or the broker refuses the record (too large)

relayVars == <<rpc, todo, fullBatch, rcancel, refused>>

RelayTypeOK ==
    /\ OutboxTypeOK
    /\ BrokerTypeOK
    /\ faults \in 0 .. MaxFaults
    /\ rpc \in [Relays -> {"down", "idle", "scan", "publish", "mark"}]
    /\ todo \in [Relays -> SUBSET Events]
    /\ fullBatch \in [Relays -> BOOLEAN]
    /\ rcancel \in [Relays -> BOOLEAN]
    /\ refused \subseteq MayRefuse

RelayInit ==
    /\ rpc = [r \in Relays |-> "down"]
    /\ todo = [r \in Relays |-> {}]
    /\ fullBatch = [r \in Relays |-> FALSE]
    /\ rcancel = [r \in Relays |-> FALSE]
    /\ refused \in SUBSET MayRefuse

\* Start: the publisher is pinged, then the loop is launched.
StartRelay(r) ==
    /\ rpc[r] = "down"
    /\ up
    /\ rpc' = [rpc EXCEPT ![r] = "idle"]
    /\ rcancel' = [rcancel EXCEPT ![r] = FALSE]
    /\ UNCHANGED <<todo, fullBatch, refused, outboxVars, brokerVars, faults>>

\* run: the ticker fires.  When the context is cancelled too, select may
\* still choose the tick.
Tick(r) ==
    /\ rpc[r] = "idle"
    /\ rpc' = [rpc EXCEPT ![r] = "scan"]
    /\ UNCHANGED <<todo, fullBatch, rcancel, refused, outboxVars, brokerVars, faults>>

\* Mutant: a drain ends only when it is cancelled.
ScanOn(r) ==
    /\ rpc[r] = "scan"
    /\ LET items == GetUnpublished(BatchSize)
       IN  /\ todo' = [todo EXCEPT ![r] = items]
           /\ fullBatch' = [fullBatch EXCEPT ![r] = Cardinality(items) >= BatchSize]
           /\ rpc' = [rpc EXCEPT ![r] = IF items = {} THEN "scan" ELSE "publish"]
    /\ UNCHANGED <<rcancel, refused, outboxVars, brokerVars, faults>>

\* drain: one scan.  No row: wait for the next tick.
Scan(r) ==
    /\ rpc[r] = "scan"
    /\ LET items == GetUnpublished(BatchSize)
       IN  /\ todo' = [todo EXCEPT ![r] = items]
           /\ fullBatch' = [fullBatch EXCEPT ![r] = Cardinality(items) >= BatchSize]
           /\ rpc' = [rpc EXCEPT ![r] = IF items = {} THEN "idle" ELSE "publish"]
    /\ UNCHANGED <<rcancel, refused, outboxVars, brokerVars, faults>>

ScanError(r) ==
    /\ rpc[r] = "scan"
    /\ Fault("db")
    /\ rpc' = [rpc EXCEPT ![r] = "idle"]
    /\ UNCHANGED <<todo, fullBatch, rcancel, refused, outboxVars, brokerVars>>

\* The row the loop over the batch stands at: rows are handled in id order.
Current(r, e) ==
    /\ e \in todo[r]
    /\ \A f \in todo[r] : rowId[e] <= rowId[f]

\* The loop moves past e; after a full batch the next scan follows at once.
Advance(r, e) ==
    /\ todo' = [todo EXCEPT ![r] = @ \ {e}]
    /\ rpc' = [rpc EXCEPT ![r] = IF todo[r] # {e} THEN "publish"
                                 ELSE IF fullBatch[r] THEN "scan" ELSE "idle"]
    /\ UNCHANGED <<fullBatch, rcancel, refused>>

\* Mutant: the row is not marked.
PublishUnmarked(r, e) ==
    /\ rpc[r] = "publish"
    /\ Current(r, e)
    /\ up
    /\ e \notin refused
    /\ Produce(e)
    /\ Advance(r, e)
    /\ UNCHANGED <<outboxVars, up, faults>>

\* publish: the broker acknowledges the record.
Publish(r, e) ==
    /\ rpc[r] = "publish"
    /\ Current(r, e)
    /\ up
    /\ e \notin refused
    /\ Produce(e)
    /\ rpc' = [rpc EXCEPT ![r] = "mark"]
    /\ UNCHANGED <<todo, fullBatch, rcancel, refused, outboxVars, up, faults>>

\* Mutant: the error of Publish is only logged.
PublishIgnored(r, e) ==
    /\ rpc[r] = "publish"
    /\ Current(r, e)
    /\ ~up \/ e \in refused
    /\ rpc' = [rpc EXCEPT ![r] = "mark"]
    /\ UNCHANGED <<todo, fullBatch, rcancel, refused, outboxVars, brokerVars, faults>>

\* Mutant: the drain stops at the first row it cannot publish.
PublishStops(r, e) ==
    /\ rpc[r] = "publish"
    /\ Current(r, e)
    /\ ~up \/ e \in refused
    /\ todo' = [todo EXCEPT ![r] = {}]
    /\ rpc' = [rpc EXCEPT ![r] = "idle"]
    /\ UNCHANGED <<fullBatch, rcancel, refused, outboxVars, brokerVars, faults>>

\* publish: the broker is unreachable, or the row cannot be published at all.
\* Whether Publish fails while the broker is down or waits for it is up to the
\* client library (see Waits).
PublishFails(r, e) ==
    /\ rpc[r] = "publish"
    /\ Current(r, e)
    /\ ~up \/ e \in refused
    /\ Advance(r, e)
    /\ UNCHANGED <<outboxVars, brokerVars, faults>>

\* publish: the call fails although the broker is up; the record may have
\* been written before the acknowledgement was lost.
PublishError(r, e) ==
    /\ rpc[r] = "publish"
    /\ Current(r, e)
    /\ up
    /\ e \notin refused
    /\ Fault("publish")
    /\ Produce(e) \/ UNCHANGED log
    /\ Advance(r, e)
    /\ UNCHANGED <<outboxVars, up>>

MarkPublished(r, e) ==
    /\ rpc[r] = "mark"
    /\ Current(r, e)
    /\ SetPublishedAt(e)
    /\ Advance(r, e)
    /\ UNCHANGED <<brokerVars, faults>>

MarkPublishedError(r, e) ==
    /\ rpc[r] = "mark"
    /\ Current(r, e)
    /\ Fault("db")
    /\ Advance(r, e)
    /\ UNCHANGED <<outboxVars, brokerVars>>

\* Stop cancels the loop's context ...
StopRelay(r) ==
    /\ rpc[r] # "down"
    /\ ~rcancel[r]
    /\ Fault("stop")
    /\ rcancel' = [rcancel EXCEPT ![r] = TRUE]
    /\ UNCHANGED <<rpc, todo, fullBatch, refused, outboxVars, brokerVars>>

\* ... which the loop sees only in its select; Stop then closes the
\* publisher and returns.
ExitRelay(r) ==
    /\ rpc[r] = "idle"
    /\ rcancel[r]
    /\ rpc' = [rpc EXCEPT ![r] = "down"]
    /\ UNCHANGED <<todo, fullBatch, rcancel, refused, outboxVars, brokerVars, faults>>

\* The process dies: its place in the batch is lost.
CrashRelay(r) ==
    /\ rpc[r] # "down"
    /\ Fault("crash")
    /\ rpc' = [rpc EXCEPT ![r] = "down"]
    /\ todo' = [todo EXCEPT ![r] = {}]
    /\ fullBatch' = [fullBatch EXCEPT ![r] = FALSE]
    /\ UNCHANGED <<rcancel, refused, outboxVars, brokerVars>>

\* Publish may be waiting for the broker: ProduceSync runs on the drain's
\* background context, and franz-go by default retries without limit.
Waits(r) == rpc[r] = "publish" /\ ~up

\* The steps of a relay that nothing but its own scheduling, and Waits, delays.
RelayRuns(r) ==
    \/ StartRelay(r) \/ Tick(r) \/ Scan(r)
    \/ \E e \in Events : Publish(r, e) \/ PublishFails(r, e) \/ MarkPublished(r, e)

RelayStep(r) ==
    \/ RelayRuns(r)
    \/ ScanError(r) \/ StopRelay(r) \/ ExitRelay(r) \/ CrashRelay(r)
    \/ \E e \in Events : PublishError(r, e) \/ MarkPublishedError(r, e)

-----------------------------------------------------------------------------
\* A row is marked published only after the broker has its event
\* (relay.go publish: SetPublishedAt follows a Publish that returned nil).
PublishedIsLogged == \A e \in Events : publishedAt[e] => Logged(e)

\* The broker holds only events of orders that were committed: the event is
\* enqueued in the order's transaction and published from the table, never
\* inline (purchase.go, Transaction).
OnlyOrdersLogged == \A e \in Events : Logged(e) => e \in Visible

\* The replicas that have published e and are about to mark it, and those that
\* hold it and have not published it yet.
Marking(e) == {r \in Relays : rpc[r] = "mark" /\ Current(r, e)}
Pending(e) == {r \in Relays : e \in todo[r] /\ r \notin Marking(e)}

\* How often an event can be published: once per replica, and once more per
\* fault (relay.go publish: the filter on published_at is the only claim).
DuplicateBound ==
    \A e \in Events : Cardinality(Copies(e)) <= Cardinality(Relays) + faults

-----------------------------------------------------------------------------
(* The inductive invariant of the proofs. *)

\* Rows draw distinct ids from the sequence.
IdsUnique ==
    /\ \A e \in Events : rowId[e] < nextId
    /\ \A e \in Events : txn[e] # "none" => rowId[e] # 0
    /\ \A e, f \in Events : rowId[e] # 0 /\ rowId[e] = rowId[f] => e = f

\* Relays hold only rows they could see.
TodoVisible == \A r \in Relays : todo[r] \subseteq Visible

\* The row a relay is about to mark is in the log.
MarkingIsLogged ==
    \A r \in Relays : \A e \in Events : rpc[r] = "mark" /\ Current(r, e) => Logged(e)

RelayInv ==
    /\ RelayTypeOK
    /\ IdsUnique
    /\ TodoVisible
    /\ MarkingIsLogged
    /\ PublishedIsLogged
    /\ OnlyOrdersLogged

\* Every copy of an unmarked event is accounted for by a replica about to mark
\* it or by a fault; once it is marked, only replicas that held it already add
\* a copy.
Accounted(e) ==
    IF publishedAt[e]
    THEN Cardinality(Copies(e)) + Cardinality(Pending(e)) <= Cardinality(Relays) + faults
    ELSE Cardinality(Copies(e)) <= Cardinality(Marking(e)) + faults

AccountedInv == RelayInv /\ \A e \in Events : Accounted(e)

=============================================================================
