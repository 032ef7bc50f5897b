---------------------------- MODULE OutboxStore ----------------------------
(***************************************************************************)
(* The transactional outbox table (database/database.go, model/outbox.go)  *)
(* and the purchase transaction that fills it (services/orders).           *)
(*                                                                         *)
(* A row is identified by its event: event_id is unique and every purchase *)
(* draws a fresh one.  The row's serial id is drawn from the database      *)
(* sequence at INSERT, the row becomes visible at COMMIT, so rows may      *)
(* become visible out of id order and a rolled back insert leaves a gap.   *)
(* A timestamp column is abstracted to whether it is set.                  *)
(***************************************************************************)
EXTENDS Naturals, FiniteSets, Faults

VARIABLES txn,          \* the purchase transaction of each event
          rowId,        \* outbox.id, 0 until the row is inserted
          nextId,       \* the database sequence
          publishedAt,  \* published_at IS NOT NULL
          deliveredAt   \* delivered_at IS NOT NULL

outboxVars == <<txn, rowId, nextId, publishedAt, deliveredAt>>

OutboxTypeOK ==
    /\ txn \in [Events -> {"none", "open", "committed", "aborted"}]
    /\ rowId \in [Events -> Nat]
    /\ nextId \in Nat \ {0}
    /\ publishedAt \in [Events -> BOOLEAN]
    /\ deliveredAt \in [Events -> BOOLEAN]

OutboxInit ==
    /\ txn = [e \in Events |-> "none"]
    /\ rowId = [e \in Events |-> 0]
    /\ nextId = 1
    /\ publishedAt = [e \in Events |-> FALSE]
    /\ deliveredAt = [e \in Events |-> FALSE]

\* The order transaction reaches AddOutboxItems: the row is inserted.
Enqueue(e) ==
    /\ txn[e] = "none"
    /\ txn' = [txn EXCEPT ![e] = "open"]
    /\ rowId' = [rowId EXCEPT ![e] = nextId]
    /\ nextId' = nextId + 1
    /\ UNCHANGED <<publishedAt, deliveredAt>>

\* The transaction commits: the order and its row become visible together.
CommitOrder(e) ==
    /\ txn[e] = "open"
    /\ txn' = [txn EXCEPT ![e] = "committed"]
    /\ UNCHANGED <<rowId, nextId, publishedAt, deliveredAt>>

\* The transaction fails, or its process dies before COMMIT.
RollbackOrder(e) ==
    /\ txn[e] = "open"
    /\ txn' = [txn EXCEPT ![e] = "aborted"]
    /\ UNCHANGED <<rowId, nextId, publishedAt, deliveredAt>>

OrderStep(e) == Enqueue(e) \/ CommitOrder(e) \/ RollbackOrder(e)

\* Mutant: rows of open transactions are read too.
VisibleDirty == {e \in Events : txn[e] \in {"open", "committed"}}

Visible == {e \in Events : txn[e] = "committed"}

\* Mutant: the scan does not filter on published_at.
GetOutbox(limit) ==
    {e \in Visible : Cardinality({f \in Visible : rowId[f] < rowId[e]}) < limit}

\* The `limit` rows of lowest id among the visible unpublished ones.
GetUnpublished(limit) ==
    LET rows == {e \in Visible : ~publishedAt[e]}
    IN  {e \in rows : Cardinality({f \in rows : rowId[f] < rowId[e]}) < limit}

SetPublishedAt(e) ==
    /\ publishedAt' = [publishedAt EXCEPT ![e] = TRUE]
    /\ UNCHANGED <<txn, rowId, nextId, deliveredAt>>

\* Strict: the update must match exactly one row.
SetDeliveredByEventID(e) ==
    /\ e \in Visible
    /\ deliveredAt' = [deliveredAt EXCEPT ![e] = TRUE]
    /\ UNCHANGED <<txn, rowId, nextId, publishedAt>>

=============================================================================
