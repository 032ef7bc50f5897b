--------------------------- MODULE NotifierProofs ---------------------------
(***************************************************************************)
(* The notifier's steps, and every step of the rest of the system that it  *)
(* can see, preserve the inductive invariant of module Notifier, and what  *)
(* follows for NotifierSystem, for all its constants.                      *)
(***************************************************************************)
EXTENDS NotifierSystem, FiniteSetTheorems, TLAPS

\* An offset of a run that ends within the log is an offset of the log.
LEMMA OffsetWithin ==
    ASSUME NEW a \in Nat, NEW b \in Nat, NEW c \in Nat, b <= c, NEW o \in a + 1 .. b
    PROVE  o \in Nat \ {0} /\ o <= c
OBVIOUS

\* The log keeps its records and may gain new ones.
LogGrows ==
    \A p \in Partitions :
        /\ Len(log[p]) \in Nat /\ Len(log'[p]) \in Nat /\ Len(log[p]) <= Len(log'[p])
        /\ \A o \in 1 .. Len(log[p]) : log'[p][o] = log[p][o]

\* A step of anybody else: the log may grow, marks of delivery stay.
LEMMA OutsideStepPreserves ==
    ASSUME ConsumeInv, NotifierTypeOK', LogGrows, UNCHANGED <<notifierVars, deliveredAt>>
    PROVE  ConsumeInv'
<1> USE DEF ConsumeInv, notifierVars, groupVars, loopVars, sinkVars
<1>1. \A n \in Notifiers : batch[n] \cup current[n] \subseteq Positions
  BY Zenon DEF NotifierTypeOK
<1>2. \A n \in Notifiers : \A x \in batch[n] \cup current[n] :
         x[1] \in Partitions /\ x[2] \in 1 .. Len(log[x[1]])
  BY <1>1 DEF OffsetsInLog, Positions, LogGrows
<1>3. OffsetsInLog'
  <2>1. \A p \in Partitions : committed[p] \in Nat /\ \A n \in Notifiers : pos[n][p] \in Nat
    BY Zenon DEF NotifierTypeOK
  <2>2. \A p \in Partitions : committed[p] <= Len(log'[p])
    BY <2>1 DEF OffsetsInLog, LogGrows
  <2>3. \A p \in Partitions, n \in Notifiers :
           owner[p] = n => committed[p] <= pos[n][p] /\ pos[n][p] <= Len(log'[p])
    BY <2>1 DEF OffsetsInLog, LogGrows
  <2>4. \A n \in Notifiers : \A x \in batch[n] \cup current[n] : x[2] <= Len(log'[x[1]])
    BY <1>2 DEF LogGrows
  <2> QED
    BY <2>2, <2>3, <2>4, Zenon DEF OffsetsInLog
<1>4. PolledIsShownOrHeld'
  <2> SUFFICES ASSUME NEW p \in Partitions, NEW n \in Notifiers, owner[p] = n,
                      NEW o \in committed[p] + 1 .. pos[n][p]
               PROVE  shown[log'[p][o]] > 0 \/ <<p, o>> \in batch[n]
    BY Zenon DEF PolledIsShownOrHeld
  <2>1. o \in 1 .. Len(log[p])
    BY DEF OffsetsInLog, LogGrows, NotifierTypeOK
  <2>2. log'[p][o] = log[p][o]
    BY <2>1, Zenon DEF LogGrows
  <2> QED
    BY <2>2, Zenon DEF PolledIsShownOrHeld
<1>5. MarkingIsWritten'
  <2> SUFFICES ASSUME NEW n \in Notifiers, NEW x \in current[n]
               PROVE  shown[Record(x)'] > 0 /\ (FileSink => filed[Record(x)'] > 0)
    BY Zenon DEF MarkingIsWritten
  <2>1. x[1] \in Partitions /\ x[2] \in 1 .. Len(log[x[1]])
    BY <1>2, Zenon
  <2>2. Record(x)' = Record(x)
    BY <2>1, Zenon DEF Record, LogGrows
  <2> QED
    BY <2>2, Zenon DEF MarkingIsWritten
<1>6. CommittedIsShown'
  <2> SUFFICES ASSUME NEW p \in Partitions, NEW o \in 1 .. committed[p]
               PROVE  shown[log'[p][o]] > 0
    BY Zenon DEF CommittedIsShown
  <2>1. o \in 1 .. Len(log[p])
    BY DEF OffsetsInLog, LogGrows, NotifierTypeOK
  <2> QED
    BY <2>1, Zenon DEF CommittedIsShown, LogGrows
<1>7. BatchDoneBeforeCommit' /\ DeliveredIsWritten'
  BY Zenon DEF BatchDoneBeforeCommit, DeliveredIsWritten
<1>8. PolledIsMarkedOrHeld'
  <2> SUFFICES ASSUME NEW p \in Partitions, NEW n \in Notifiers, owner[p] = n, ~ncancel[n],
                      NEW o \in committed[p] + 1 .. pos[n][p]
               PROVE  \/ deliveredAt[log'[p][o]] \/ failed[log'[p][o]]
                      \/ <<p, o>> \in batch[n] \cup current[n]
    BY Zenon DEF PolledIsMarkedOrHeld
  <2>1. o \in 1 .. Len(log[p])
    BY DEF OffsetsInLog, LogGrows, NotifierTypeOK
  <2>2. log'[p][o] = log[p][o]
    BY <2>1 DEF LogGrows
  <2> QED
    BY <2>2, Zenon DEF PolledIsMarkedOrHeld
<1>9. StrandedHasFailed'
  <2> SUFFICES ASSUME NEW p \in Partitions, NEW o \in 1 .. committed[p]
               PROVE  deliveredAt[log'[p][o]] \/ failed[log'[p][o]]
    BY Zenon DEF StrandedHasFailed
  <2>1. o \in 1 .. Len(log[p])
    BY DEF OffsetsInLog, LogGrows, NotifierTypeOK
  <2> QED
    BY <2>1, Zenon DEF StrandedHasFailed, LogGrows
<1> QED
  BY <1>3, <1>4, <1>5, <1>6, <1>7, <1>8, <1>9, Zenon

\* Starting, cancelling and a failed commit leave the batch where it is.
LEMMA ControlStepPreserves ==
    ASSUME ConsumeInv, NEW n \in Notifiers,
           StartNotifier(n) \/ StopNotifier(n) \/ CommitError(n)
    PROVE  ConsumeInv'
<1> USE DEF ConsumeInv
<1>1. UNCHANGED <<groupVars, pos, batch, current, sinkVars, outboxVars, brokerVars>>
  BY Zenon DEF StartNotifier, StopNotifier, CommitError
<1>2. /\ npc' \in [Notifiers -> {"down", "poll", "dispatch", "mark", "commit"}]
      /\ \A m \in Notifiers :
            /\ npc'[m] \in {"down", "poll", "commit"} => batch[m] = {}
            /\ npc'[m] # "mark" => current[m] = {}
            /\ npc'[m] = "down" => npc[m] = "down"
  BY DEF StartNotifier, StopNotifier, CommitError, NotifierTypeOK, BatchDoneBeforeCommit
<1>3. ncancel' \in [Notifiers -> BOOLEAN]
  BY Zenon DEF StartNotifier, StopNotifier, CommitError, NotifierTypeOK
<1>4. faults' \in 0 .. MaxFaults
  BY FaultsAssumption DEF StartNotifier, StopNotifier, CommitError, NotifierTypeOK, Fault
<1>5. NotifierTypeOK'
  BY <1>1, <1>2, <1>3, <1>4, Zenon DEF NotifierTypeOK, OutboxTypeOK, BrokerTypeOK, groupVars, sinkVars,
     outboxVars, brokerVars
<1>6. \A m \in Notifiers : ~ncancel'[m] => ~ncancel[m] \/ \A p \in Partitions : owner[p] # m
  BY DEF StartNotifier, StopNotifier, CommitError, NotifierTypeOK, BatchDoneBeforeCommit
<1>7. PolledIsMarkedOrHeld' /\ StrandedHasFailed'
  BY <1>1, <1>6, Zenon DEF PolledIsMarkedOrHeld, StrandedHasFailed, groupVars, sinkVars, outboxVars, brokerVars
<1>8. BatchDoneBeforeCommit'
  BY <1>1, <1>2 DEF BatchDoneBeforeCommit, groupVars
<1> QED
  BY <1>1, <1>5, <1>7, <1>8, Zenon DEF OffsetsInLog, PolledIsShownOrHeld, MarkingIsWritten,
     Record, CommittedIsShown, DeliveredIsWritten, groupVars, sinkVars, outboxVars, brokerVars

\* A partition changes hands: its new owner begins at the committed offset.
LEMMA AssignPreserves ==
    ASSUME ConsumeInv, NEW n \in Notifiers, NEW p \in Partitions, Assign(p, n)
    PROVE  ConsumeInv'
<1> USE DEF ConsumeInv
<1>1. UNCHANGED <<committed, npc, batch, current, ncancel, sinkVars, outboxVars, brokerVars>>
  BY DEF Assign
<1>2. /\ owner' = [owner EXCEPT ![p] = n]
      /\ pos' = [pos EXCEPT ![n][p] = committed[p]]
  BY Zenon DEF Assign
<1>3. faults' \in 0 .. MaxFaults
  BY FaultsAssumption DEF Assign, NotifierTypeOK, Fault
<1>4. NotifierTypeOK'
  BY <1>1, <1>2, <1>3, Zenon DEF NotifierTypeOK, OutboxTypeOK, BrokerTypeOK, sinkVars, outboxVars, brokerVars
<1>5. \A q \in Partitions, m \in Notifiers : owner'[q] = m =>
         \/ q = p /\ m = n /\ pos'[m][q] = committed[q]
         \/ owner[q] = m /\ pos'[m][q] = pos[m][q]
  BY <1>2, NotifierAssumption, Zenon DEF NotifierTypeOK
<1>6. OffsetsInLog'
  <2>1. \A q \in Partitions : committed[q] \in Nat
    BY Zenon DEF NotifierTypeOK
  <2>2. \A q \in Partitions, m \in Notifiers :
           owner'[q] = m => committed[q] <= pos'[m][q] /\ pos'[m][q] <= Len(log[q])
    BY <1>5, <2>1 DEF OffsetsInLog
  <2> QED
    BY <1>1, <2>2, Zenon DEF OffsetsInLog, brokerVars
<1>7. PolledIsShownOrHeld'
  <2> SUFFICES ASSUME NEW q \in Partitions, NEW m \in Notifiers, owner'[q] = m,
                      NEW o \in committed[q] + 1 .. pos'[m][q]
               PROVE  shown[log[q][o]] > 0 \/ <<q, o>> \in batch[m]
    BY <1>1, Zenon DEF PolledIsShownOrHeld, sinkVars, brokerVars
  <2>1. committed[q] \in Nat
    BY Zenon DEF NotifierTypeOK
  <2>2. owner[q] = m /\ pos'[m][q] = pos[m][q]
    BY <1>5, <2>1
  <2> QED
    BY <2>2, Zenon DEF PolledIsShownOrHeld
<1>8. PolledIsMarkedOrHeld'
  <2> SUFFICES ASSUME NEW q \in Partitions, NEW m \in Notifiers, owner'[q] = m, ~ncancel[m],
                      NEW o \in committed[q] + 1 .. pos'[m][q]
               PROVE  \/ deliveredAt[log[q][o]] \/ failed[log[q][o]]
                      \/ <<q, o>> \in batch[m] \cup current[m]
    BY <1>1, Zenon DEF PolledIsMarkedOrHeld, sinkVars, outboxVars, brokerVars
  <2>1. committed[q] \in Nat
    BY Zenon DEF NotifierTypeOK
  <2>2. owner[q] = m /\ pos'[m][q] = pos[m][q]
    BY <1>5, <2>1
  <2> QED
    BY <2>2, Zenon DEF PolledIsMarkedOrHeld
<1>9. BatchDoneBeforeCommit'
  <2>1. npc[n] # "down"
    BY Zenon DEF Assign
  <2> QED
    BY <1>1, <1>2, <2>1 DEF BatchDoneBeforeCommit, NotifierTypeOK
<1> QED
  BY <1>1, <1>4, <1>6, <1>7, <1>8, <1>9, Zenon DEF MarkingIsWritten, Record, CommittedIsShown,
     StrandedHasFailed, DeliveredIsWritten, sinkVars, outboxVars, brokerVars

\* A poll starts where everything before is shown, and holds all it returns.
LEMMA PollPreserves ==
    ASSUME ConsumeInv, NEW n \in Notifiers, Poll(n)
    PROVE  ConsumeInv'
<1> USE DEF ConsumeInv
<1>1. UNCHANGED <<groupVars, current, ncancel, sinkVars, outboxVars, brokerVars, faults>>
  BY Zenon DEF Poll
<1>2. npc[n] = "poll" /\ npc' = [npc EXCEPT ![n] = "dispatch"]
  BY DEF Poll
<1>3. PICK reached \in [Partitions -> UNION {0 .. Len(log[p]) : p \in Partitions}] :
         /\ \A p \in Partitions :
               /\ pos[n][p] <= reached[p]
               /\ owner[p] = n => reached[p] <= Len(log[p])
               /\ owner[p] # n => reached[p] = pos[n][p]
         /\ pos' = [pos EXCEPT ![n] = reached]
         /\ batch' = [batch EXCEPT ![n] =
               UNION {{p} \X (pos[n][p] + 1 .. reached[p]) : p \in Partitions}]
  BY Zenon DEF Poll
<1>4. /\ \A p \in Partitions : Len(log[p]) \in Nat /\ committed[p] \in Nat
      /\ \A m \in Notifiers, p \in Partitions : pos[m][p] \in Nat
  BY DEF NotifierTypeOK, BrokerTypeOK
<1>5. reached \in [Partitions -> Nat]
  BY <1>4
<1>6. \A x : x \in batch'[n] <=>
         \E p \in Partitions : \E o \in pos[n][p] + 1 .. reached[p] : x = <<p, o>>
  <2>1. batch'[n] = UNION {{p} \X (pos[n][p] + 1 .. reached[p]) : p \in Partitions}
    BY <1>3, Zenon DEF NotifierTypeOK
  <2>2. ASSUME NEW x, NEW p, NEW S
        PROVE  x \in {p} \X S <=> \E o \in S : x = <<p, o>>
    OBVIOUS
  <2>3. \A x : x \in batch'[n] <=>
           \E p \in Partitions : x \in {p} \X (pos[n][p] + 1 .. reached[p])
    BY <2>1, Zenon
  <2>4. \A p \in Partitions : \A x : x \in {p} \X (pos[n][p] + 1 .. reached[p]) <=>
           \E o \in pos[n][p] + 1 .. reached[p] : x = <<p, o>>
    BY <2>2, SMTT(30)
  <2> QED
    BY <2>3, <2>4, SMTT(30)
<1>7. \A x \in batch'[n] : x \in Positions /\ x[2] <= Len(log[x[1]])
  <2> SUFFICES ASSUME NEW p \in Partitions, NEW o \in pos[n][p] + 1 .. reached[p]
               PROVE  <<p, o>> \in Positions /\ o <= Len(log[p])
    BY <1>6, SMTT(30)
  <2>1. pos[n][p] \in Nat /\ reached[p] \in Nat /\ Len(log[p]) \in Nat
    BY <1>4, <1>5
  <2>2. owner[p] = n
    BY <1>3, <2>1, SMTT(30)
  <2>3. reached[p] <= Len(log[p])
    BY <1>3, <2>2, Zenon
  <2>4. o \in Nat \ {0} /\ o <= Len(log[p])
    BY <2>1, <2>3, OffsetWithin, Zenon
  <2> QED
    BY <2>4 DEF Positions
<1>8. \A m \in Notifiers : m # n => batch'[m] = batch[m] /\ pos'[m] = pos[m]
  BY <1>3, Zenon DEF NotifierTypeOK
<1>9. pos'[n] = reached
  BY <1>3, Zenon DEF NotifierTypeOK
<1>10. NotifierTypeOK'
  <2>1. batch' \in [Notifiers -> SUBSET Positions]
    BY <1>3, <1>7, Zenon DEF NotifierTypeOK
  <2>2. pos' \in [Notifiers -> [Partitions -> Nat]]
    BY <1>3, <1>5, Zenon DEF NotifierTypeOK
  <2> QED
    BY <1>1, <1>2, <2>1, <2>2, Zenon DEF NotifierTypeOK, OutboxTypeOK, BrokerTypeOK, groupVars, sinkVars,
       outboxVars, brokerVars
<1>11. OffsetsInLog'
  <2>1. \A p \in Partitions, m \in Notifiers :
           owner[p] = m => committed[p] <= pos'[m][p] /\ pos'[m][p] <= Len(log[p])
    <3> SUFFICES ASSUME NEW p \in Partitions, NEW m \in Notifiers, owner[p] = m
                 PROVE  committed[p] <= pos'[m][p] /\ pos'[m][p] <= Len(log[p])
      BY SMTT(30)
    <3>1. committed[p] <= pos[m][p] /\ pos[m][p] <= Len(log[p])
      BY Zenon DEF OffsetsInLog
    <3>2. CASE m # n
      BY <1>8, <3>1, <3>2, Zenon
    <3>3. CASE m = n
      <4>1. pos[n][p] <= reached[p] /\ reached[p] <= Len(log[p]) /\ pos'[m][p] = reached[p]
        BY <1>3, <1>9, <3>3, Zenon
      <4>2. committed[p] \in Nat /\ pos[n][p] \in Nat /\ reached[p] \in Nat
        BY <1>4, <1>5
      <4> QED
        BY <3>1, <3>3, <4>1, <4>2, SMTT(30)
    <3> QED
      BY <3>2, <3>3, Zenon
  <2>2. \A m \in Notifiers : \A x \in batch'[m] \cup current[m] : x[2] <= Len(log[x[1]])
    BY <1>7, <1>8, Zenon DEF OffsetsInLog
  <2> QED
    BY <1>1, <2>1, <2>2, Zenon DEF OffsetsInLog, groupVars, brokerVars
<1>12. PolledIsShownOrHeld'
  <2> SUFFICES ASSUME NEW p \in Partitions, NEW m \in Notifiers, owner[p] = m,
                      NEW o \in committed[p] + 1 .. pos'[m][p]
               PROVE  shown[log[p][o]] > 0 \/ <<p, o>> \in batch'[m]
    BY <1>1, Zenon DEF PolledIsShownOrHeld, groupVars, sinkVars, brokerVars
  <2>1. CASE m # n
    BY <1>8, <2>1, Zenon DEF PolledIsShownOrHeld
  <2>2. CASE m = n /\ o <= pos[n][p]
    <3>1. batch[n] = {}
      BY <1>2, Zenon DEF BatchDoneBeforeCommit
    <3>2. o \in committed[p] + 1 .. pos[n][p]
      BY <1>4, <1>5, <1>9, <2>2
    <3> QED
      BY <2>2, <3>1, <3>2, Zenon DEF PolledIsShownOrHeld
  <2>3. CASE m = n /\ pos[n][p] < o
    <3>1. o \in pos[n][p] + 1 .. reached[p]
      BY <1>4, <1>5, <1>9, <2>3, SMTT(30)
    <3> QED
      BY <1>6, <2>3, <3>1, Zenon
  <2>4. pos[n][p] \in Nat /\ o \in Nat
    BY <1>4
  <2>5. o <= pos[n][p] \/ pos[n][p] < o
    BY <2>4, SMTT(30)
  <2> QED
    BY <2>1, <2>2, <2>3, <2>5, Zenon
<1>13. BatchDoneBeforeCommit'
  BY <1>1, <1>2, <1>8 DEF BatchDoneBeforeCommit, NotifierTypeOK, groupVars
<1>14. PolledIsMarkedOrHeld'
  <2> SUFFICES ASSUME NEW p \in Partitions, NEW m \in Notifiers, owner[p] = m, ~ncancel[m],
                      NEW o \in committed[p] + 1 .. pos'[m][p]
               PROVE  \/ deliveredAt[log[p][o]] \/ failed[log[p][o]]
                      \/ <<p, o>> \in batch'[m] \cup current[m]
    BY <1>1, Zenon DEF PolledIsMarkedOrHeld, groupVars, sinkVars, outboxVars, brokerVars
  <2>1. CASE m # n
    BY <1>8, <2>1, Zenon DEF PolledIsMarkedOrHeld
  <2>2. CASE m = n /\ o <= pos[n][p]
    <3>1. batch[n] = {} /\ current[n] = {}
      BY <1>2, Zenon DEF BatchDoneBeforeCommit
    <3>2. o \in committed[p] + 1 .. pos[n][p]
      BY <1>4, <1>5, <1>9, <2>2
    <3> QED
      BY <2>2, <3>1, <3>2, Zenon DEF PolledIsMarkedOrHeld
  <2>3. CASE m = n /\ pos[n][p] < o
    <3>1. o \in pos[n][p] + 1 .. reached[p]
      BY <1>4, <1>5, <1>9, <2>3, SMTT(30)
    <3> QED
      BY <1>6, <2>3, <3>1, Zenon
  <2>4. pos[n][p] \in Nat /\ o \in Nat
    BY <1>4
  <2>5. o <= pos[n][p] \/ pos[n][p] < o
    BY <2>4, SMTT(30)
  <2> QED
    BY <2>1, <2>2, <2>3, <2>5, Zenon
<1> QED
  BY <1>1, <1>10, <1>11, <1>12, <1>13, <1>14, Zenon DEF MarkingIsWritten, Record, CommittedIsShown,
     StrandedHasFailed, DeliveredIsWritten, groupVars, sinkVars, outboxVars, brokerVars

\* A record leaves the batch only once the terminal shows it, whether or not
\* the file could be written.
LEMMA WritePreserves ==
    ASSUME ConsumeInv, NEW n \in Notifiers, NEW x \in batch[n],
           WriteNotification(n, x) \/ WriteError(n, x)
    PROVE  ConsumeInv'
<1> USE DEF ConsumeInv
<1> DEFINE e == Record(x)
<1>1. x \in Positions /\ x[1] \in Partitions /\ x[2] \in 1 .. Len(log[x[1]])
  BY DEF NotifierTypeOK, Positions, OffsetsInLog, BrokerTypeOK
<1>2. e \in Events
  BY <1>1 DEF NotifierTypeOK, BrokerTypeOK, Record
<1>3. UNCHANGED <<groupVars, pos, ncancel, outboxVars, brokerVars>>
  BY Zenon DEF WriteNotification, WriteError
<1>4. /\ shown' = [shown EXCEPT ![e] = @ + 1]
      /\ batch' = [batch EXCEPT ![n] = @ \ {x}]
  BY Zenon DEF WriteNotification, WriteError
<1>5. /\ shown' \in [Events -> Nat]
      /\ shown'[e] > 0
      /\ \A f \in Events : shown[f] > 0 => shown'[f] > 0
  BY <1>2, <1>4 DEF NotifierTypeOK
<1>6. /\ filed' \in [Events -> Nat]
      /\ \A f \in Events : filed[f] > 0 => filed'[f] > 0
  <2>1. filed' = filed \/ filed' = [filed EXCEPT ![e] = @ + 1]
    <3>1. CASE FileSink
      BY <3>1, Zenon DEF WriteNotification, WriteError
    <3>2. CASE ~FileSink
      BY <3>2, Zenon DEF WriteNotification, WriteError, NotifierTypeOK
    <3> QED
      BY <3>1, <3>2, Zenon
  <2> QED
    BY <1>2, <2>1 DEF NotifierTypeOK
<1>6a. /\ failed' \in [Events -> BOOLEAN]
       /\ \A f \in Events : failed[f] => failed'[f]
  BY Zenon DEF WriteNotification, WriteError, Failed, NotifierTypeOK
<1>7. /\ npc' \in [Notifiers -> {"down", "poll", "dispatch", "mark", "commit"}]
      /\ \A m \in Notifiers : npc'[m] \in {"down", "poll", "commit"} => batch'[m] = {}
      /\ npc[n] = "dispatch" /\ npc'[n] # "down"
      /\ \A m \in Notifiers \ {n} : npc'[m] = npc[m]
  <2>1. npc[n] = "dispatch"
    BY Zenon DEF WriteNotification, WriteError, Dispatching
  <2>2. /\ batch'[n] = batch[n] \ {x}
        /\ \A m \in Notifiers \ {n} : batch'[m] = batch[m]
    BY <1>4, Zenon DEF NotifierTypeOK
  <2>3. \/ npc' = [npc EXCEPT ![n] = "mark"]
        \/ npc' = [npc EXCEPT ![n] = "dispatch"]
        \/ npc' = [npc EXCEPT ![n] = "commit"] /\ batch'[n] = {}
    BY Zenon DEF WriteNotification, WriteError, AfterDispatch
  <2>4. npc' \in [Notifiers -> {"down", "poll", "dispatch", "mark", "commit"}]
    BY <2>3, Zenon DEF NotifierTypeOK
  <2>5. \A m \in Notifiers \ {n} : npc'[m] = npc[m]
    BY <2>3, Zenon DEF NotifierTypeOK
  <2>6. npc'[n] \in {"mark", "dispatch"} \/ (npc'[n] = "commit" /\ batch'[n] = {})
    BY <2>3, Zenon DEF NotifierTypeOK
  <2> QED
    BY <2>1, <2>2, <2>4, <2>5, <2>6, Zenon DEF BatchDoneBeforeCommit
<1>8. faults' \in 0 .. MaxFaults
  BY FaultsAssumption DEF WriteNotification, WriteError, NotifierTypeOK, Fault
<1>9. /\ current' \in [Notifiers -> SUBSET Positions]
      /\ \A m \in Notifiers : \A y \in current'[m] :
            \/ y \in current[m]
            \/ y = x /\ (FileSink => filed'[e] > 0)
  <2>1. CASE WriteError(n, x)
    BY <2>1, Zenon DEF WriteError, NotifierTypeOK
  <2>2. CASE WriteNotification(n, x)
    <3>1. current' = [current EXCEPT ![n] = {x}]
      BY <2>2, Zenon DEF WriteNotification
    <3>2. FileSink => filed' = [filed EXCEPT ![e] = @ + 1]
      BY <2>2, Zenon DEF WriteNotification
    <3>3. FileSink => filed'[e] > 0
      BY <1>2, <3>2 DEF NotifierTypeOK
    <3> QED
      BY <1>1, <3>1, <3>3, Zenon DEF NotifierTypeOK
  <2> QED
    BY <2>1, <2>2, Zenon
<1>10. NotifierTypeOK'
  BY <1>3, <1>4, <1>5, <1>6, <1>7, <1>8, <1>9, <1>6a, Zenon DEF NotifierTypeOK, OutboxTypeOK, BrokerTypeOK,
     groupVars, outboxVars, brokerVars
<1>11. \A p \in Partitions : \A o \in 1 .. Len(log[p]) : log[p][o] \in Events
  BY DEF NotifierTypeOK, BrokerTypeOK
<1>12. OffsetsInLog'
  <2>1. \A m \in Notifiers : \A y \in batch'[m] \cup current'[m] : y[2] <= Len(log[y[1]])
    BY <1>1, <1>4, <1>9 DEF OffsetsInLog, NotifierTypeOK
  <2> QED
    BY <1>3, <2>1, Zenon DEF OffsetsInLog, groupVars, brokerVars
<1>13. PolledIsShownOrHeld'
  <2> SUFFICES ASSUME NEW p \in Partitions, NEW m \in Notifiers, owner[p] = m,
                      NEW o \in committed[p] + 1 .. pos[m][p]
               PROVE  shown'[log[p][o]] > 0 \/ <<p, o>> \in batch'[m]
    BY <1>3, Zenon DEF PolledIsShownOrHeld, groupVars, brokerVars
  <2>1. o \in 1 .. Len(log[p])
    BY DEF OffsetsInLog, NotifierTypeOK, BrokerTypeOK
  <2>2. shown[log[p][o]] > 0 \/ <<p, o>> \in batch[m]
    BY Zenon DEF PolledIsShownOrHeld
  <2>3. CASE <<p, o>> = x
    BY <1>5, <2>3, Zenon DEF Record
  <2>4. CASE <<p, o>> # x
    BY <1>4, <1>5, <1>11, <2>1, <2>2, <2>4, Zenon DEF NotifierTypeOK
  <2> QED
    BY <2>3, <2>4, Zenon
<1>14. BatchDoneBeforeCommit'
  <2>1. current[n] = {}
    BY <1>7, Zenon DEF BatchDoneBeforeCommit
  <2>2. /\ \A m \in Notifiers \ {n} : current'[m] = current[m]
        /\ \/ current'[n] = {x} /\ npc'[n] = "mark"
           \/ current'[n] = {}
    BY <2>1, Zenon DEF WriteNotification, WriteError, NotifierTypeOK
  <2> QED
    BY <1>3, <1>7, <2>2 DEF BatchDoneBeforeCommit, groupVars
<1>15. MarkingIsWritten'
  <2> SUFFICES ASSUME NEW m \in Notifiers, NEW y \in current'[m]
               PROVE  shown'[Record(y)] > 0 /\ (FileSink => filed'[Record(y)] > 0)
    BY <1>3, Zenon DEF MarkingIsWritten, Record, brokerVars
  <2>1. CASE y \in current[m]
    <3>1. Record(y) \in Events
      BY <1>11, <2>1, SMTT(30) DEF NotifierTypeOK, Positions, OffsetsInLog, BrokerTypeOK, Record
    <3> QED
      BY <1>5, <1>6, <2>1, <3>1, Zenon DEF MarkingIsWritten
  <2>2. CASE y = x /\ (FileSink => filed'[e] > 0)
    BY <1>5, <2>2
  <2> QED
    BY <1>9, <2>1, <2>2, Zenon
<1>16. CommittedIsShown'
  <2> SUFFICES ASSUME NEW p \in Partitions, NEW o \in 1 .. committed[p]
               PROVE  shown'[log[p][o]] > 0
    BY <1>3, Zenon DEF CommittedIsShown, groupVars, brokerVars
  <2>1. o \in 1 .. Len(log[p])
    BY DEF OffsetsInLog, NotifierTypeOK, BrokerTypeOK
  <2> QED
    BY <1>5, <1>11, <2>1, Zenon DEF CommittedIsShown
<1>17. DeliveredIsWritten'
  BY <1>3, <1>5, <1>6, Zenon DEF DeliveredIsWritten, outboxVars
<1>18. PolledIsMarkedOrHeld'
  <2> SUFFICES ASSUME NEW p \in Partitions, NEW m \in Notifiers, owner[p] = m, ~ncancel[m],
                      NEW o \in committed[p] + 1 .. pos[m][p]
               PROVE  \/ deliveredAt[log[p][o]] \/ failed'[log[p][o]]
                      \/ <<p, o>> \in batch'[m] \cup current'[m]
    BY <1>3, Zenon DEF PolledIsMarkedOrHeld, groupVars, outboxVars, brokerVars
  <2>1. log[p][o] \in Events
    BY <1>11 DEF OffsetsInLog, NotifierTypeOK, BrokerTypeOK
  <2>2. \/ deliveredAt[log[p][o]] \/ failed[log[p][o]]
        \/ <<p, o>> \in batch[m] \cup current[m]
    BY Zenon DEF PolledIsMarkedOrHeld
  <2>3. CASE m = n /\ <<p, o>> = x
    <3>1. log[p][o] = e
      BY <2>3, Zenon DEF Record
    <3>2. x \in current'[n] \/ failed'[e]
      <4>1. CASE WriteNotification(n, x)
        BY <4>1, Zenon DEF WriteNotification, NotifierTypeOK
      <4>2. CASE WriteError(n, x)
        <5>1. Record(x) = e /\ x \in {x} /\ ~ncancel[n]
          BY <2>3, Zenon
        <5> QED
          BY <1>2, <4>2, <5>1, Zenon DEF WriteError, Failed
      <4> QED
        BY <4>1, <4>2, Zenon
    <3> QED
      BY <2>3, <3>1, <3>2, Zenon
  <2>4. CASE ~(m = n /\ <<p, o>> = x)
    <3>1. <<p, o>> \in batch[m] => <<p, o>> \in batch'[m]
      BY <1>4, <2>4, Zenon DEF NotifierTypeOK
    <3>2. current[m] \subseteq current'[m]
      BY <1>7 DEF WriteNotification, WriteError, NotifierTypeOK, BatchDoneBeforeCommit
    <3> QED
      BY <1>6a, <2>1, <2>2, <3>1, <3>2, Zenon
  <2> QED
    BY <2>3, <2>4, Zenon
<1>19. StrandedHasFailed'
  <2> SUFFICES ASSUME NEW p \in Partitions, NEW o \in 1 .. committed[p]
               PROVE  deliveredAt[log[p][o]] \/ failed'[log[p][o]]
    BY <1>3, Zenon DEF StrandedHasFailed, groupVars, outboxVars, brokerVars
  <2>1. o \in 1 .. Len(log[p])
    BY DEF OffsetsInLog, NotifierTypeOK, BrokerTypeOK
  <2> QED
    BY <1>11, <1>6a, <2>1, Zenon DEF StrandedHasFailed
<1> QED
  BY <1>10, <1>12, <1>13, <1>14, <1>15, <1>16, <1>17, <1>18, <1>19

\* The mark, set or not, concludes the dispatch of a written record.
LEMMA MarkPreserves ==
    ASSUME ConsumeInv, NEW n \in Notifiers,
           (\E x \in current[n] : MarkDelivered(n, x)) \/ MarkDeliveredError(n)
    PROVE  ConsumeInv'
<1> USE DEF ConsumeInv
<1>1. Marked(n) /\ npc[n] = "mark" /\ UNCHANGED <<txn, rowId, nextId, publishedAt>>
  BY Zenon DEF MarkDelivered, MarkDeliveredError, SetDeliveredByEventID, outboxVars
<1>2. UNCHANGED <<groupVars, pos, batch, ncancel, shown, filed, brokerVars>>
  BY <1>1, Zenon DEF Marked
<1>3. /\ npc' \in [Notifiers -> {"down", "poll", "dispatch", "mark", "commit"}]
      /\ \A m \in Notifiers : npc'[m] \in {"down", "poll", "commit"} => batch[m] = {}
      /\ npc'[n] # "down"
      /\ \A m \in Notifiers \ {n} : npc'[m] = npc[m]
  BY <1>1 DEF Marked, AfterDispatch, NotifierTypeOK, BatchDoneBeforeCommit
<1>4. /\ current' \in [Notifiers -> SUBSET Positions]
      /\ current'[n] = {}
      /\ \A m \in Notifiers \ {n} : current'[m] = current[m]
  BY <1>1, Zenon DEF Marked, NotifierTypeOK
<1>5. faults' \in 0 .. MaxFaults
  BY FaultsAssumption DEF MarkDelivered, MarkDeliveredError, NotifierTypeOK, Fault
<1>6. /\ deliveredAt' \in [Events -> BOOLEAN]
      /\ failed' \in [Events -> BOOLEAN]
      /\ \A e \in Events : deliveredAt[e] => deliveredAt'[e]
      /\ \A e \in Events : failed[e] => failed'[e]
  <2>1. CASE \E x \in current[n] : MarkDelivered(n, x)
    BY <2>1, Zenon DEF MarkDelivered, SetDeliveredByEventID, NotifierTypeOK, OutboxTypeOK
  <2>2. CASE MarkDeliveredError(n)
    BY <2>2, Zenon DEF MarkDeliveredError, Failed, NotifierTypeOK, OutboxTypeOK, outboxVars
  <2> QED
    BY <2>1, <2>2, Zenon
<1>7. NotifierTypeOK'
  BY <1>1, <1>2, <1>3, <1>4, <1>5, <1>6, Zenon DEF NotifierTypeOK, OutboxTypeOK, BrokerTypeOK, groupVars,
     brokerVars
<1>8. DeliveredIsWritten'
  <2>1. ASSUME NEW x \in current[n], MarkDelivered(n, x)
        PROVE  DeliveredIsWritten'
    <3>1. shown[Record(x)] > 0 /\ (FileSink => filed[Record(x)] > 0)
      BY Zenon DEF MarkingIsWritten
    <3>2. deliveredAt' = [deliveredAt EXCEPT ![Record(x)] = TRUE]
      BY <2>1, Zenon DEF MarkDelivered, SetDeliveredByEventID
    <3> QED
      BY <1>2, <3>1, <3>2, Zenon DEF DeliveredIsWritten, NotifierTypeOK, OutboxTypeOK
  <2>2. CASE MarkDeliveredError(n)
    BY <1>2, <2>2, Zenon DEF MarkDeliveredError, DeliveredIsWritten, outboxVars
  <2> QED
    BY <2>1, <2>2, Zenon
<1>9. OffsetsInLog' /\ MarkingIsWritten'
  BY <1>2, <1>4, Zenon DEF OffsetsInLog, MarkingIsWritten, Record, groupVars, brokerVars
<1>10. \A p \in Partitions : \A o \in 1 .. Len(log[p]) : log[p][o] \in Events
  BY DEF NotifierTypeOK, BrokerTypeOK
<1>11. PolledIsMarkedOrHeld'
  <2> SUFFICES ASSUME NEW p \in Partitions, NEW m \in Notifiers, owner[p] = m, ~ncancel[m],
                      NEW o \in committed[p] + 1 .. pos[m][p]
               PROVE  \/ deliveredAt'[log[p][o]] \/ failed'[log[p][o]]
                      \/ <<p, o>> \in batch[m] \cup current'[m]
    BY <1>2, Zenon DEF PolledIsMarkedOrHeld, groupVars, brokerVars
  <2>1. log[p][o] \in Events
    BY <1>10 DEF OffsetsInLog, NotifierTypeOK, BrokerTypeOK
  <2>2. \/ deliveredAt[log[p][o]] \/ failed[log[p][o]]
        \/ <<p, o>> \in batch[m] \cup current[m]
    BY Zenon DEF PolledIsMarkedOrHeld
  <2>3. CASE m = n /\ <<p, o>> \in current[n]
    <3>1. Record(<<p, o>>) = log[p][o]
      BY Zenon DEF Record
    <3>2. ASSUME NEW x \in current[n], MarkDelivered(n, x)
          PROVE  deliveredAt'[log[p][o]]
      <4>1. x = <<p, o>>
        BY <2>3, Zenon DEF BatchDoneBeforeCommit
      <4> QED
        BY <2>1, <3>1, <3>2, <4>1, Zenon DEF MarkDelivered, SetDeliveredByEventID, NotifierTypeOK, OutboxTypeOK
    <3>3. CASE MarkDeliveredError(n)
      BY <2>1, <2>3, <3>1, <3>3, Zenon DEF MarkDeliveredError, Failed
    <3> QED
      BY <3>2, <3>3, Zenon
  <2>4. CASE ~(m = n /\ <<p, o>> \in current[n])
    BY <1>4, <1>6, <2>1, <2>2, <2>4, Zenon
  <2> QED
    BY <2>3, <2>4, Zenon
<1>12. StrandedHasFailed'
  <2> SUFFICES ASSUME NEW p \in Partitions, NEW o \in 1 .. committed[p]
               PROVE  deliveredAt'[log[p][o]] \/ failed'[log[p][o]]
    BY <1>2, Zenon DEF StrandedHasFailed, groupVars, brokerVars
  <2>1. o \in 1 .. Len(log[p])
    BY SMTT(30) DEF OffsetsInLog, NotifierTypeOK, BrokerTypeOK
  <2> QED
    BY <1>6, <1>10, <2>1, Zenon DEF StrandedHasFailed
<1>13. BatchDoneBeforeCommit'
  BY <1>2, <1>3, <1>4 DEF BatchDoneBeforeCommit, groupVars
<1> QED
  BY <1>2, <1>7, <1>8, <1>9, <1>11, <1>12, <1>13, Zenon DEF PolledIsShownOrHeld, CommittedIsShown,
     groupVars, brokerVars

\* A commit comes with an empty batch, so all that was polled is shown.
LEMMA CommitPreserves ==
    ASSUME ConsumeInv, NEW n \in Notifiers, Commit(n)
    PROVE  ConsumeInv' /\ \A p \in Partitions : committed[p] <= committed'[p]
<1> USE DEF ConsumeInv
<1>1. UNCHANGED <<owner, pos, batch, current, ncancel, sinkVars, outboxVars, brokerVars, faults>>
  BY Zenon DEF Commit
<1>2. /\ committed' = [p \in Partitions |-> IF owner[p] = n THEN pos[n][p] ELSE committed[p]]
      /\ npc[n] = "commit"
      /\ npc' = [npc EXCEPT ![n] = "poll"]
  BY Zenon DEF Commit
<1>3. \A p \in Partitions : /\ committed[p] \in Nat /\ Len(log[p]) \in Nat
                            /\ \A m \in Notifiers : pos[m][p] \in Nat
  BY DEF NotifierTypeOK, BrokerTypeOK
<1>4. \A p \in Partitions : committed[p] <= committed'[p]
  BY <1>2, <1>3 DEF OffsetsInLog
<1>5. NotifierTypeOK'
  BY <1>1, <1>2, <1>3, Zenon DEF NotifierTypeOK, OutboxTypeOK, BrokerTypeOK, sinkVars, outboxVars, brokerVars
<1>6. OffsetsInLog'
  <2>1. \A p \in Partitions : committed'[p] <= Len(log[p])
    BY <1>2, Zenon DEF OffsetsInLog
  <2>2. \A p \in Partitions, m \in Notifiers :
           owner[p] = m => committed'[p] <= pos[m][p] /\ pos[m][p] <= Len(log[p])
    BY <1>2, <1>3 DEF OffsetsInLog
  <2> QED
    BY <1>1, <2>1, <2>2, Zenon DEF OffsetsInLog, brokerVars
<1>7. PolledIsShownOrHeld'
  <2> SUFFICES ASSUME NEW p \in Partitions, NEW m \in Notifiers, owner[p] = m,
                      NEW o \in committed'[p] + 1 .. pos[m][p]
               PROVE  shown[log[p][o]] > 0 \/ <<p, o>> \in batch[m]
    BY <1>1, Zenon DEF PolledIsShownOrHeld, sinkVars, brokerVars
  <2>1. o \in committed[p] + 1 .. pos[m][p]
    BY <1>2, <1>3, <1>4, SMTT(30)
  <2> QED
    BY <2>1, Zenon DEF PolledIsShownOrHeld
<1>8. CommittedIsShown'
  <2> SUFFICES ASSUME NEW p \in Partitions, NEW o \in 1 .. committed'[p]
               PROVE  shown[log[p][o]] > 0
    BY <1>1, Zenon DEF CommittedIsShown, sinkVars, brokerVars
  <2>1. CASE o <= committed[p]
    BY <1>3, <2>1 DEF CommittedIsShown
  <2>2. CASE committed[p] < o
    <3>1. owner[p] = n /\ o \in committed[p] + 1 .. pos[n][p]
      BY <1>2, <1>3, <2>2
    <3>2. batch[n] = {}
      BY <1>2, Zenon DEF BatchDoneBeforeCommit
    <3> QED
      BY <3>1, <3>2, Zenon DEF PolledIsShownOrHeld
  <2> QED
    BY <1>2, <1>3, <2>1, <2>2
<1>9. BatchDoneBeforeCommit'
  BY <1>1, <1>2 DEF BatchDoneBeforeCommit, NotifierTypeOK
<1>10. PolledIsMarkedOrHeld'
  <2> SUFFICES ASSUME NEW p \in Partitions, NEW m \in Notifiers, owner[p] = m, ~ncancel[m],
                      NEW o \in committed'[p] + 1 .. pos[m][p]
               PROVE  \/ deliveredAt[log[p][o]] \/ failed[log[p][o]]
                      \/ <<p, o>> \in batch[m] \cup current[m]
    BY <1>1, Zenon DEF PolledIsMarkedOrHeld, sinkVars, outboxVars, brokerVars
  <2>1. o \in committed[p] + 1 .. pos[m][p]
    BY <1>2, <1>3, <1>4, SMTT(30)
  <2> QED
    BY <2>1, Zenon DEF PolledIsMarkedOrHeld
<1>11. StrandedHasFailed'
  <2> SUFFICES ASSUME NEW p \in Partitions, NEW o \in 1 .. committed'[p]
               PROVE  deliveredAt[log[p][o]] \/ failed[log[p][o]]
    BY <1>1, Zenon DEF StrandedHasFailed, sinkVars, outboxVars, brokerVars
  <2>1. CASE o <= committed[p]
    BY <1>3, <2>1 DEF StrandedHasFailed
  <2>2. CASE committed[p] < o
    <3>1. owner[p] = n /\ o \in committed[p] + 1 .. pos[n][p]
      BY <1>2, <1>3, <2>2
    <3>2. batch[n] = {} /\ current[n] = {} /\ ~ncancel[n]
      BY <1>2, Zenon DEF BatchDoneBeforeCommit, Commit
    <3> QED
      BY <3>1, <3>2, Zenon DEF PolledIsMarkedOrHeld
  <2> QED
    BY <1>2, <1>3, <2>1, <2>2
<1> QED
  BY <1>1, <1>4, <1>5, <1>6, <1>7, <1>8, <1>9, <1>10, <1>11, Zenon DEF MarkingIsWritten, Record, DeliveredIsWritten,
     sinkVars, outboxVars, brokerVars

\* A process that leaves drops its batch and owns nothing any more.
LEMMA LeavePreserves ==
    ASSUME ConsumeInv, NEW n \in Notifiers, ExitNotifier(n) \/ CrashNotifier(n)
    PROVE  ConsumeInv'
<1> USE DEF ConsumeInv
<1>1. Leave(n)
  BY Zenon DEF ExitNotifier, CrashNotifier
<1>2. UNCHANGED <<committed, ncancel, sinkVars, outboxVars, brokerVars>>
  BY <1>1, Zenon DEF Leave
<1>3. faults' \in 0 .. MaxFaults
  BY FaultsAssumption DEF ExitNotifier, CrashNotifier, NotifierTypeOK, Fault
<1>4. NotifierTypeOK'
  BY <1>1, <1>2, <1>3, ZenonT(30) DEF Leave, NotifierTypeOK, OutboxTypeOK, BrokerTypeOK, sinkVars, outboxVars, brokerVars
<1>5. \A p \in Partitions, m \in Notifiers :
         owner'[p] = m =>
            owner[p] = m /\ pos'[m] = pos[m] /\ batch'[m] = batch[m] /\ current'[m] = current[m]
  BY <1>1, NotifierAssumption, Zenon DEF Leave, NotifierTypeOK
<1>6. \A m \in Notifiers : batch'[m] \subseteq batch[m] /\ current'[m] \subseteq current[m]
  BY <1>1, Zenon DEF Leave, NotifierTypeOK
<1>7. /\ committed' = committed /\ ncancel' = ncancel /\ log' = log
      /\ shown' = shown /\ failed' = failed /\ deliveredAt' = deliveredAt
  BY <1>2, Zenon DEF sinkVars, outboxVars, brokerVars
<1>8. OffsetsInLog'
  <2>1. \A p \in Partitions, m \in Notifiers :
           owner'[p] = m => committed[p] <= pos'[m][p] /\ pos'[m][p] <= Len(log[p])
    BY <1>5, ZenonT(30) DEF OffsetsInLog
  <2>2. \A m \in Notifiers : \A x \in batch'[m] \cup current'[m] : x[2] <= Len(log[x[1]])
    BY <1>6, Zenon DEF OffsetsInLog
  <2> QED
    BY <1>7, <2>1, <2>2, Zenon DEF OffsetsInLog
<1>9. PolledIsShownOrHeld'
  <2> SUFFICES ASSUME NEW p \in Partitions, NEW m \in Notifiers, owner'[p] = m,
                      NEW o \in committed[p] + 1 .. pos'[m][p]
               PROVE  shown[log[p][o]] > 0 \/ <<p, o>> \in batch'[m]
    BY <1>7, Zenon DEF PolledIsShownOrHeld
  <2>1. owner[p] = m /\ pos'[m] = pos[m] /\ batch'[m] = batch[m]
    BY <1>5, Zenon
  <2> QED
    BY <2>1, Zenon DEF PolledIsShownOrHeld
<1>10. BatchDoneBeforeCommit'
  BY <1>1, NotifierAssumption DEF Leave, BatchDoneBeforeCommit, NotifierTypeOK
<1>11. PolledIsMarkedOrHeld'
  <2> SUFFICES ASSUME NEW p \in Partitions, NEW m \in Notifiers, owner'[p] = m, ~ncancel[m],
                      NEW o \in committed[p] + 1 .. pos'[m][p]
               PROVE  \/ deliveredAt[log[p][o]] \/ failed[log[p][o]]
                      \/ <<p, o>> \in batch'[m] \cup current'[m]
    BY <1>7, Zenon DEF PolledIsMarkedOrHeld
  <2>1. owner[p] = m /\ pos'[m] = pos[m] /\ batch'[m] = batch[m] /\ current'[m] = current[m]
    BY <1>5, Zenon
  <2> QED
    BY <2>1, Zenon DEF PolledIsMarkedOrHeld
<1>12. CommittedIsShown' /\ StrandedHasFailed'
  BY <1>7, Zenon DEF CommittedIsShown, StrandedHasFailed
<1> QED
  BY <1>2, <1>4, <1>6, <1>8, <1>9, <1>10, <1>11, <1>12, Zenon DEF MarkingIsWritten, Record,
     DeliveredIsWritten, sinkVars, outboxVars, brokerVars

\* Every step of a notifier preserves ConsumeInv.
LEMMA NotifierStepPreserves ==
    ASSUME ConsumeInv, NEW n \in Notifiers, NotifierStep(n)
    PROVE  ConsumeInv'
BY ControlStepPreserves, AssignPreserves, PollPreserves, WritePreserves, MarkPreserves,
   CommitPreserves, LeavePreserves, Zenon DEF NotifierStep, NotifierRuns

\* The steps of the order transactions and of the broker preserve it.
LEMMA OrderStepKeeps ==
    ASSUME ConsumeInv, NEW e \in Events, OrderStep(e),
           UNCHANGED <<brokerVars, notifierVars, faults>>
    PROVE  ConsumeInv'
<1>1. OutboxTypeOK' /\ UNCHANGED deliveredAt
  <2>1. UNCHANGED <<publishedAt, deliveredAt>>
    BY Zenon DEF OrderStep, Enqueue, CommitOrder, RollbackOrder
  <2>2. nextId' \in Nat \ {0} /\ rowId' \in [Events -> Nat]
    BY DEF ConsumeInv, NotifierTypeOK, OutboxTypeOK, OrderStep, Enqueue, CommitOrder, RollbackOrder
  <2>3. txn' \in [Events -> {"none", "open", "committed", "aborted"}]
    <3>1. PICK s \in {"open", "committed", "aborted"} : txn' = [txn EXCEPT ![e] = s]
      BY Zenon DEF OrderStep, Enqueue, CommitOrder, RollbackOrder
    <3> QED
      BY <3>1, Zenon DEF ConsumeInv, NotifierTypeOK, OutboxTypeOK
  <2> QED
    BY <2>1, <2>2, <2>3, Zenon DEF ConsumeInv, NotifierTypeOK, OutboxTypeOK
<1>2. NotifierTypeOK'
  BY <1>1, Zenon DEF ConsumeInv, NotifierTypeOK, BrokerTypeOK, brokerVars, notifierVars, groupVars, loopVars, sinkVars
<1>3. LogGrows
  BY DEF LogGrows, ConsumeInv, NotifierTypeOK, BrokerTypeOK, brokerVars
<1> QED
  BY <1>1, <1>2, <1>3, OutsideStepPreserves, Zenon

LEMMA BrokerStepKeeps ==
    ASSUME ConsumeInv, BrokerStep, UNCHANGED <<outboxVars, notifierVars>>
    PROVE  ConsumeInv'
<1>1. UNCHANGED log
  BY DEF BrokerStep, BrokerFails, BrokerRecovers
<1>2. up' \in BOOLEAN
  BY Zenon DEF BrokerStep, BrokerFails, BrokerRecovers
<1>3. faults' \in 0 .. MaxFaults
  BY FaultsAssumption DEF ConsumeInv, NotifierTypeOK, BrokerStep, BrokerFails, BrokerRecovers, Fault
<1>4. NotifierTypeOK'
  BY <1>1, <1>2, <1>3, Zenon DEF ConsumeInv, NotifierTypeOK, OutboxTypeOK, BrokerTypeOK, outboxVars,
     notifierVars, groupVars, loopVars, sinkVars
<1>5. LogGrows
  BY <1>1 DEF LogGrows, ConsumeInv, NotifierTypeOK, BrokerTypeOK
<1> QED
  BY <1>4, <1>5, OutsideStepPreserves, Zenon DEF outboxVars

\* Nothing has happened yet.
LEMMA NotifierInitInv ==
    ASSUME OutboxInit, BrokerInit, NotifierInit, faults = 0
    PROVE  ConsumeInv
<1>1. OutboxTypeOK /\ BrokerTypeOK
  BY DEF OutboxInit, BrokerInit, OutboxTypeOK, BrokerTypeOK
<1>2. NotifierTypeOK
  BY <1>1, FaultsAssumption, SMTT(30) DEF NotifierInit, NotifierTypeOK
<1>3. OffsetsInLog /\ PolledIsShownOrHeld /\ CommittedIsShown
  BY <1>2, NotifierAssumption, SMTT(30) DEF NotifierInit, BrokerInit, OffsetsInLog, PolledIsShownOrHeld, CommittedIsShown
<1>4. PolledIsMarkedOrHeld /\ StrandedHasFailed
  BY <1>2, NotifierAssumption DEF NotifierInit, PolledIsMarkedOrHeld, StrandedHasFailed
<1> QED
  BY <1>2, <1>3, <1>4, NotifierAssumption, Zenon DEF NotifierInit, OutboxInit, ConsumeInv, BatchDoneBeforeCommit, MarkingIsWritten,
     DeliveredIsWritten

-----------------------------------------------------------------------------
(* How often a notification is shown. *)

\* The copies of an event, and what is due of them, can be counted.
LEMMA DueCountable ==
    ASSUME BrokerTypeOK, NEW e \in Events
    PROVE  /\ IsFiniteSet(Copies(e)) /\ Cardinality(Copies(e)) \in Nat
           /\ IsFiniteSet(Due(e)) /\ Cardinality(Due(e)) \in Nat
<1>1. PartitionOf[e] \in Partitions
  BY PartitionAssumption, Zenon
<1>2. Len(log[PartitionOf[e]]) \in Nat
  BY <1>1 DEF BrokerTypeOK
<1>3. IsFiniteSet(1 .. Len(log[PartitionOf[e]]))
  BY <1>2, FS_Interval
<1>4. IsFiniteSet(Copies(e))
  BY <1>3, FS_Subset, Zenon DEF Copies
<1>5. IsFiniteSet(Notifiers \cup {NoOwner})
  BY NotifierAssumption, FS_AddElement, Zenon
<1>6. IsFiniteSet(Copies(e) \X (Notifiers \cup {NoOwner}))
  BY <1>4, <1>5, FS_Product, Zenon
<1>7. IsFiniteSet(Due(e))
  BY <1>6, FS_Subset, Zenon DEF Due
<1> QED
  BY <1>4, <1>7, FS_CardinalityType, Zenon

\* What a step shows or makes due it takes from what was due, or from a fault.
LEMMA StepIsPaid ==
    ASSUME NEW s \in Nat, NEW d \in Nat, NEW c \in Nat, NEW f \in Nat, s + d <= c * (1 + f),
           NEW t \in Nat, NEW b \in Nat, NEW g \in Nat,
           \/ g = f /\ t + b <= s + d
           \/ g = f + 1 /\ t + b <= s + d + c
    PROVE  t + b <= c * (1 + g)
<1>1. c * (1 + (f + 1)) = c * (1 + f) + c /\ c * (1 + f) \in Nat
  OBVIOUS
<1> DEFINE k == c * (1 + f)
<1> HIDE DEF k
<1>2. k \in Nat /\ s + d <= k /\ c * (1 + (f + 1)) = k + c
  BY <1>1, Zenon DEF k
<1>3. CASE g = f /\ t + b <= s + d
  BY <1>2, <1>3 DEF k
<1>4. CASE g = f + 1 /\ t + b <= s + d + c
  BY <1>2, <1>4
<1> QED
  BY <1>3, <1>4, Zenon

\* The copies of an event with one mark each.
LEMMA MarkedCopies ==
    ASSUME NEW S, IsFiniteSet(S), NEW n
    PROVE  IsFiniteSet(S \X {n}) /\ Cardinality(S \X {n}) = Cardinality(S)
<1>1. IsFiniteSet({n}) /\ Cardinality({n}) = 1
  BY FS_Singleton, Zenon
<1>2. IsFiniteSet(S \X {n}) /\ Cardinality(S \X {n}) = Cardinality(S) * Cardinality({n})
  BY <1>1, FS_Product, Zenon
<1>3. Cardinality(S) \in Nat
  BY FS_CardinalityType, Zenon
<1> QED
  BY <1>1, <1>2, <1>3

\* Steps that show nothing, poll nothing and drop no position: nothing becomes
\* due.  A fault may make every copy due once more.
LEMMA QuietStepPays ==
    ASSUME ConsumeInv, NEW e \in Events, Paid(e), UNCHANGED <<log, shown>>,
           \A m \in Notifiers : batch'[m] \subseteq batch[m],
           \/ UNCHANGED faults /\ \A p \in Partitions : StartsAt(p)' = StartsAt(p)
           \/ faults' = faults + 1
    PROVE  Paid(e)'
<1>1. BrokerTypeOK /\ faults \in Nat /\ shown[e] \in Nat /\ PartitionOf[e] \in Partitions
  BY FaultsAssumption, PartitionAssumption DEF ConsumeInv, NotifierTypeOK
<1>2. /\ IsFiniteSet(Copies(e)) /\ Cardinality(Copies(e)) \in Nat
      /\ IsFiniteSet(Due(e)) /\ Cardinality(Due(e)) \in Nat
  BY <1>1, DueCountable, Zenon
<1>3. Copies(e)' = Copies(e)
  BY Zenon DEF Copies
<1> DEFINE again == Copies(e) \X {NoOwner}
<1>4. \A t \in Due(e)' : \/ t \in again
                         \/ t \in Due(e)
  <2> SUFFICES ASSUME NEW t \in Due(e)', t \notin again PROVE t \in Due(e)
    OBVIOUS
  <2>1. t \in Copies(e) \X (Notifiers \cup {NoOwner}) /\ DueAt(e, t[1], t[2])'
    BY <1>3, Zenon DEF Due
  <2>2. t[2] \in Notifiers
    BY <2>1, Zenon
  <2>3. DueAt(e, t[1], t[2])
    BY <2>1, <2>2, NotifierAssumption, Zenon DEF DueAt
  <2> QED
    BY <2>1, <2>3, ZenonT(30) DEF Due
<1>5. CASE UNCHANGED faults /\ \A p \in Partitions : StartsAt(p)' = StartsAt(p)
  <2>1. Due(e)' \subseteq Due(e)
    <3> SUFFICES ASSUME NEW t \in Due(e)' PROVE t \in Due(e)
      OBVIOUS
    <3>1. t \in Copies(e) \X (Notifiers \cup {NoOwner}) /\ DueAt(e, t[1], t[2])'
      BY <1>3, Zenon DEF Due
    <3>2. t[2] \in Notifiers \cup {NoOwner}
      BY <3>1, Zenon
    <3>3. DueAt(e, t[1], t[2])
      BY <1>1, <1>5, <3>1, <3>2, Zenon DEF DueAt
    <3> QED
      BY <3>1, <3>3, Zenon DEF Due
  <2>2. Cardinality(Due(e)') \in Nat /\ Cardinality(Due(e)') <= Cardinality(Due(e))
    BY <1>2, <2>1, FS_Subset, FS_CardinalityType, Zenon
  <2>3. shown[e] + Cardinality(Due(e)') <= shown[e] + Cardinality(Due(e))
    BY <1>1, <1>2, <2>2
  <2>4. shown[e] + Cardinality(Due(e)') <= Cardinality(Copies(e)) * (1 + faults)
    BY <1>1, <1>2, <2>2, <2>3, StepIsPaid, Zenon DEF Paid
  <2> QED
    BY <1>3, <1>5, <2>4, Zenon DEF Paid
<1>6. CASE faults' = faults + 1
  <2>1. Due(e)' \subseteq Due(e) \cup again
    BY <1>4, Zenon
  <2>2. IsFiniteSet(again) /\ Cardinality(again) = Cardinality(Copies(e))
    BY <1>2, MarkedCopies, Zenon
  <2>3. /\ IsFiniteSet(Due(e) \cup again) /\ IsFiniteSet(Due(e) \cap again)
        /\ Cardinality(Due(e) \cup again) =
              Cardinality(Due(e)) + Cardinality(again) - Cardinality(Due(e) \cap again)
    BY <1>2, <2>2, FS_Union, FS_Intersection, Zenon
  <2>4. /\ Cardinality(Due(e)') \in Nat /\ Cardinality(Due(e) \cap again) \in Nat
        /\ Cardinality(Due(e) \cup again) \in Nat
        /\ Cardinality(Due(e)') <= Cardinality(Due(e) \cup again)
    BY <2>1, <2>3, FS_Subset, FS_CardinalityType, Zenon
  <2> HIDE DEF again
  <2>5. shown[e] + Cardinality(Due(e)') <= shown[e] + Cardinality(Due(e)) + Cardinality(Copies(e))
    BY <1>1, <1>2, <2>2, <2>3, <2>4, SMTT(30)
  <2>6. shown[e] + Cardinality(Due(e)') <= Cardinality(Copies(e)) * (1 + faults')
    BY <1>1, <1>2, <1>6, <2>4, <2>5, StepIsPaid DEF Paid
  <2> QED
    BY <1>3, <2>6, Zenon DEF Paid
<1> QED
  BY <1>5, <1>6, Zenon

\* dispatch shows a record of the batch: what was due is shown.
LEMMA ShowStepPays ==
    ASSUME ConsumeInv, KeyedLog, NEW e \in Events, Paid(e), NEW n \in Notifiers, NEW x \in batch[n],
           UNCHANGED <<log, groupVars, pos, ncancel>>, UNCHANGED faults \/ faults' = faults + 1,
           shown' = [shown EXCEPT ![Record(x)] = @ + 1],
           batch' = [batch EXCEPT ![n] = @ \ {x}]
    PROVE  Paid(e)'
<1>1. /\ BrokerTypeOK /\ faults \in Nat /\ shown \in [Events -> Nat] /\ shown[e] \in Nat
      /\ batch \in [Notifiers -> SUBSET Positions]
  BY FaultsAssumption DEF ConsumeInv, NotifierTypeOK
<1>2. /\ IsFiniteSet(Copies(e)) /\ Cardinality(Copies(e)) \in Nat
      /\ IsFiniteSet(Due(e)) /\ Cardinality(Due(e)) \in Nat
  BY <1>1, DueCountable, Zenon
<1>3. Copies(e)' = Copies(e) /\ StartsAt(PartitionOf[e])' = StartsAt(PartitionOf[e])
  BY Zenon DEF Copies, StartsAt, groupVars
<1>4. \A m \in Notifiers : batch'[m] \subseteq batch[m] /\ x \notin batch'[n]
  BY <1>1, Zenon
<1>5. Due(e)' \subseteq Due(e)
  <2> SUFFICES ASSUME NEW t \in Due(e)' PROVE t \in Due(e)
    OBVIOUS
  <2>1. t \in Copies(e) \X (Notifiers \cup {NoOwner}) /\ DueAt(e, t[1], t[2])'
    BY <1>3, Zenon DEF Due
  <2>2. t[2] \in Notifiers \cup {NoOwner}
    BY <2>1, Zenon
  <2>3. DueAt(e, t[1], t[2])
    BY <1>3, <1>4, <2>1, <2>2, Zenon DEF DueAt
  <2> QED
    BY <2>1, <2>3, Zenon DEF Due
<1>6. /\ Cardinality(Due(e)') \in Nat /\ shown'[e] \in Nat
      /\ shown'[e] + Cardinality(Due(e)') <= shown[e] + Cardinality(Due(e))
  <2>1. CASE e = Record(x)
    <3> DEFINE t == <<x[2], n>>
    <3>1. x \in Positions /\ x[2] <= Len(log[x[1]]) /\ Len(log[x[1]]) \in Nat
      BY <1>1 DEF ConsumeInv, OffsetsInLog, Positions, BrokerTypeOK
    <3>2. x[1] \in Partitions /\ x[2] \in 1 .. Len(log[x[1]]) /\ x = <<x[1], x[2]>>
      BY <3>1 DEF Positions
    <3>3. x[1] = PartitionOf[e] /\ log[x[1]][x[2]] = e
      BY <2>1, <3>2, Zenon DEF KeyedLog, Record
    <3>4. x[2] \in Copies(e)
      BY <3>2, <3>3, Zenon DEF Copies
    <3>5. n # NoOwner /\ t[1] = x[2] /\ t[2] = n /\ <<PartitionOf[e], x[2]>> = x
      BY <3>2, <3>3, NotifierAssumption, Zenon
    <3>6. DueAt(e, t[1], t[2]) /\ ~DueAt(e, t[1], t[2])'
      BY <1>4, <3>5, Zenon DEF DueAt
    <3>7. t \in Due(e)
      BY <3>4, <3>6, Zenon DEF Due
    <3>8. t \notin Due(e)'
      BY <3>6, Zenon DEF Due
    <3> HIDE DEF t
    <3>9. IsFiniteSet(Due(e) \ {t}) /\ Cardinality(Due(e) \ {t}) = Cardinality(Due(e)) - 1
      BY <1>2, <3>7, FS_RemoveElement, Zenon
    <3>10. Due(e)' \subseteq Due(e) \ {t}
      BY <1>5, <3>8, Zenon
    <3>11. Cardinality(Due(e)') \in Nat /\ Cardinality(Due(e)') <= Cardinality(Due(e) \ {t})
      BY <3>9, <3>10, FS_Subset, FS_CardinalityType, Zenon
    <3>12. shown'[e] = shown[e] + 1
      BY <1>1, <2>1, Zenon
    <3> QED
      BY <1>1, <1>2, <3>9, <3>11, <3>12, SMTT(30)
  <2>2. CASE e # Record(x)
    <3>1. Cardinality(Due(e)') \in Nat /\ Cardinality(Due(e)') <= Cardinality(Due(e))
      BY <1>2, <1>5, FS_Subset, FS_CardinalityType, Zenon
    <3>2. shown'[e] = shown[e]
      BY <1>1, <2>2, Zenon
    <3> QED
      BY <1>1, <1>2, <3>1, <3>2
  <2> QED
    BY <2>1, <2>2, Zenon
<1>7. faults' \in Nat /\ shown'[e] + Cardinality(Due(e)') <= shown[e] + Cardinality(Due(e)) + Cardinality(Copies(e))
  BY <1>1, <1>2, <1>6
<1>8. shown'[e] + Cardinality(Due(e)') <= Cardinality(Copies(e)) * (1 + faults')
  BY <1>1, <1>2, <1>6, <1>7, StepIsPaid, ZenonT(30) DEF Paid
<1> QED
  BY <1>3, <1>8, Zenon DEF Paid

\* Poll: the copies that were due to be polled are now due in the batch.
LEMMA PollPays ==
    ASSUME ConsumeInv, NEW e \in Events, Paid(e), NEW n \in Notifiers, Poll(n)
    PROVE  Paid(e)'
<1> DEFINE p == PartitionOf[e]
           old == pos[n][p]
<1>1. /\ BrokerTypeOK /\ faults \in Nat /\ shown[e] \in Nat /\ p \in Partitions /\ old \in Nat
      /\ batch \in [Notifiers -> SUBSET Positions] /\ pos \in [Notifiers -> [Partitions -> Nat]]
      /\ owner[p] \in Notifiers \cup {NoOwner} /\ n # NoOwner
  BY FaultsAssumption, PartitionAssumption, NotifierAssumption DEF ConsumeInv, NotifierTypeOK
<1>2. /\ IsFiniteSet(Copies(e)) /\ Cardinality(Copies(e)) \in Nat
      /\ IsFiniteSet(Due(e)) /\ Cardinality(Due(e)) \in Nat
  BY <1>1, DueCountable, Zenon
<1>3. UNCHANGED <<log, shown, faults, owner, committed, ncancel>> /\ ~ncancel[n] /\ batch[n] = {}
  BY Zenon DEF Poll, groupVars, sinkVars, brokerVars, ConsumeInv, BatchDoneBeforeCommit
<1>4. Copies(e)' = Copies(e)
  BY <1>3, Zenon DEF Copies
<1>5. PICK reached :
         /\ \A q \in Partitions : pos[n][q] <= reached[q] /\ (owner[q] # n => reached[q] = pos[n][q])
         /\ pos' = [pos EXCEPT ![n] = reached]
         /\ batch' = [batch EXCEPT ![n] = UNION {{q} \X (pos[n][q] + 1 .. reached[q]) : q \in Partitions}]
         /\ \E q \in Partitions : reached[p] \in 0 .. Len(log[q])
  <2>1. PICK reached \in [Partitions -> UNION {0 .. Len(log[q]) : q \in Partitions}] :
           /\ \A q \in Partitions : pos[n][q] <= reached[q] /\ (owner[q] # n => reached[q] = pos[n][q])
           /\ pos' = [pos EXCEPT ![n] = reached]
           /\ batch' = [batch EXCEPT ![n] = UNION {{q} \X (pos[n][q] + 1 .. reached[q]) : q \in Partitions}]
    BY Zenon DEF Poll
  <2>2. reached[p] \in UNION {0 .. Len(log[q]) : q \in Partitions}
    BY <1>1, <2>1, Zenon
  <2>3. \E q \in Partitions : reached[p] \in 0 .. Len(log[q])
    BY <2>2, Zenon
  <2> QED
    BY <2>1, <2>3, Zenon
<1> DEFINE new == reached[p]
           polled == {o \in Copies(e) : old < o /\ o <= new}
<1>6. old <= new /\ new \in Nat
  <2>1. new \in Nat
    <3>1. \E q \in Partitions : new \in 0 .. Len(log[q])
      BY <1>5, Zenon
    <3> QED
      BY <3>1
  <2> QED
    BY <1>1, <1>5, <2>1, Zenon
<1>7. \A o \in Copies(e) : <<p, o>> \in batch'[n] => o \in polled
  <2> SUFFICES ASSUME NEW o \in Copies(e), <<p, o>> \in batch'[n] PROVE o \in polled
    BY Zenon
  <2>1. batch'[n] = UNION {{q} \X (pos[n][q] + 1 .. reached[q]) : q \in Partitions}
    BY <1>1, <1>5, Zenon
  <2>2. PICK q \in Partitions : <<p, o>> \in {q} \X (pos[n][q] + 1 .. reached[q])
    BY <2>1, Zenon
  <2>3. o \in old + 1 .. new
    BY <2>2, Zenon
  <2> QED
    BY <1>1, <1>6, <2>3
<1>8. \A m \in Notifiers : m # n => batch'[m] = batch[m] /\ pos'[m] = pos[m]
  BY <1>1, <1>5, Zenon
<1>9. pos'[n][p] = new
  BY <1>1, <1>5, Zenon
<1>10. Cardinality(Due(e)') \in Nat /\ Cardinality(Due(e)') <= Cardinality(Due(e))
  <2>1. CASE owner[p] = n
    <3>1. StartsAt(p) = old /\ StartsAt(p)' = new
      BY <1>1, <1>3, <1>9, <2>1, Zenon DEF StartsAt
    <3> DEFINE taken == polled \X {NoOwner}
               held == polled \X {n}
    <3>2. IsFiniteSet(polled)
      BY <1>2, FS_Subset, Zenon
    <3>3. taken \subseteq Due(e)
      <4> SUFFICES ASSUME NEW o \in polled PROVE <<o, NoOwner>> \in Due(e)
        OBVIOUS
      <4>1. o \in Copies(e) /\ o > old /\ <<o, NoOwner>>[1] = o /\ <<o, NoOwner>>[2] = NoOwner
        BY <1>1, Zenon
      <4>2. DueAt(e, o, NoOwner)
        BY <3>1, <4>1, Zenon DEF DueAt
      <4> QED
        BY <4>1, <4>2, ZenonT(30) DEF Due
    <3>4. Due(e)' \subseteq (Due(e) \ taken) \cup held
      <4> SUFFICES ASSUME NEW t \in Due(e)' PROVE t \in (Due(e) \ taken) \cup held
        OBVIOUS
      <4>1. t \in Copies(e) \X (Notifiers \cup {NoOwner}) /\ DueAt(e, t[1], t[2])'
        BY <1>4, Zenon DEF Due
      <4>2. t[1] \in Copies(e) /\ t[2] \in Notifiers \cup {NoOwner} /\ t = <<t[1], t[2]>>
        BY <4>1
      <4>3. CASE t[2] = NoOwner
        <5>1. t[1] > new
          BY <3>1, <4>1, <4>3, Zenon DEF DueAt
        <5>2. t[1] \in Nat
          BY <4>2, SMTT(30) DEF Copies
        <5>3. t[1] > old /\ ~(t[1] <= new)
          BY <1>1, <1>6, <5>1, <5>2, SMTT(30)
        <5>4. DueAt(e, t[1], t[2])
          BY <3>1, <4>3, <5>3, Zenon DEF DueAt
        <5>5. t \in Due(e)
          BY <4>1, <5>4, Zenon DEF Due
        <5>6. t \notin taken
          BY <5>3, Zenon
        <5> QED
          BY <5>5, <5>6, Zenon
      <4>4. CASE t[2] = n
        <5>1. <<p, t[1]>> \in batch'[n]
          BY <1>1, <4>1, <4>4, Zenon DEF DueAt
        <5>2. t[1] \in polled
          BY <1>7, <4>2, <5>1, Zenon
        <5> HIDE DEF polled
        <5> QED
          BY <4>2, <4>4, <5>2, Zenon
      <4>5. CASE t[2] # n /\ t[2] # NoOwner
        <5>1. DueAt(e, t[1], t[2])
          BY <1>8, <4>1, <4>2, <4>5, Zenon DEF DueAt
        <5>2. t \in Due(e)
          BY <4>1, <5>1, Zenon DEF Due
        <5>3. t \notin taken
          BY <4>5, Zenon
        <5> QED
          BY <5>2, <5>3, Zenon
      <4> QED
        BY <4>3, <4>4, <4>5, ZenonT(30)
    <3> HIDE DEF polled
    <3>5. /\ IsFiniteSet(taken) /\ Cardinality(taken) = Cardinality(polled)
          /\ IsFiniteSet(held) /\ Cardinality(held) = Cardinality(polled)
      BY <3>2, MarkedCopies, Zenon
    <3>6. Due(e) \cap taken = taken
      BY <3>3, Zenon
    <3> HIDE DEF taken, held
    <3> DEFINE kept == Due(e) \ taken
    <3>7. IsFiniteSet(kept) /\ Cardinality(kept) = Cardinality(Due(e)) - Cardinality(taken)
      BY <1>2, <3>6, FS_Difference, ZenonT(30)
    <3>8. /\ IsFiniteSet(kept \cup held) /\ IsFiniteSet(kept \cap held)
          /\ Cardinality(kept \cup held) = Cardinality(kept) + Cardinality(held) - Cardinality(kept \cap held)
      BY <3>5, <3>7, FS_Union, FS_Intersection, Zenon
    <3>9. /\ Cardinality(Due(e)') \in Nat /\ Cardinality(kept \cap held) \in Nat
          /\ Cardinality(polled) \in Nat /\ Cardinality(kept \cup held) \in Nat
          /\ Cardinality(Due(e)') <= Cardinality(kept \cup held)
      BY <3>2, <3>4, <3>8, FS_Subset, FS_CardinalityType, Zenon
    <3> HIDE DEF kept
    <3> QED
      BY <1>2, <3>5, <3>7, <3>8, <3>9, SMTT(30)
  <2>2. CASE owner[p] # n
    <3>1. StartsAt(p)' = StartsAt(p)
      BY <1>1, <1>3, <1>8, <2>2, Zenon DEF StartsAt
    <3>2. \A o \in Copies(e) : <<p, o>> \notin batch'[n]
      <4>1. new = old
        BY <1>1, <1>5, <2>2, ZenonT(30)
      <4>2. polled = {}
        BY <1>1, <4>1, SMTT(30) DEF Copies
      <4> QED
        BY <1>7, <4>2, Zenon
    <3>3. Due(e)' \subseteq Due(e)
      <4> SUFFICES ASSUME NEW t \in Due(e)' PROVE t \in Due(e)
        OBVIOUS
      <4>1. t \in Copies(e) \X (Notifiers \cup {NoOwner}) /\ DueAt(e, t[1], t[2])'
        BY <1>4, Zenon DEF Due
      <4>2. t[1] \in Copies(e) /\ t[2] \in Notifiers \cup {NoOwner}
        BY <4>1, Zenon
      <4>3. DueAt(e, t[1], t[2])
        BY <1>8, <3>1, <3>2, <4>1, <4>2, Zenon DEF DueAt
      <4> QED
        BY <4>1, <4>3, Zenon DEF Due
    <3> QED
      BY <1>2, <3>3, FS_Subset, FS_CardinalityType, Zenon
  <2> QED
    BY <2>1, <2>2, Zenon
<1>11. shown[e] + Cardinality(Due(e)') <= shown[e] + Cardinality(Due(e))
  BY <1>1, <1>2, <1>10
<1>12. shown[e] + Cardinality(Due(e)') <= Cardinality(Copies(e)) * (1 + faults)
  BY <1>1, <1>2, <1>10, <1>11, StepIsPaid, Zenon DEF Paid
<1> QED
  BY <1>3, <1>4, <1>12, Zenon DEF Paid

\* The other steps of a notifier show nothing: without a fault, every
\* partition is taken up where it would have been.
LEMMA NotifierStepPays ==
    ASSUME ConsumeInv, KeyedLog, NEW e \in Events, Paid(e), NEW n \in Notifiers, NotifierStep(n)
    PROVE  Paid(e)'
<1>1. /\ batch \in [Notifiers -> SUBSET Positions] /\ ncancel \in [Notifiers -> BOOLEAN]
      /\ owner \in [Partitions -> Notifiers \cup {NoOwner}] /\ n # NoOwner
      /\ committed \in [Partitions -> Nat]
      /\ pos \in [Notifiers -> [Partitions -> Nat]]
  BY NotifierAssumption, Zenon DEF ConsumeInv, NotifierTypeOK
<1> DEFINE Quiet == UNCHANGED <<log, shown>> /\ \A m \in Notifiers : batch'[m] \subseteq batch[m]
           Same == UNCHANGED faults /\ \A q \in Partitions : StartsAt(q)' = StartsAt(q)
<1>2. ASSUME Quiet, Same \/ faults' = faults + 1 PROVE Paid(e)'
  BY <1>2, QuietStepPays, Zenon
<1>3. CASE StartNotifier(n)
  <2>1. Quiet
    BY <1>3, Zenon DEF StartNotifier, sinkVars, brokerVars
  <2>2. \A q \in Partitions : owner[q] # n
    BY <1>3, Zenon DEF StartNotifier, ConsumeInv, BatchDoneBeforeCommit
  <2>3. Same
    BY <1>1, <1>3, <2>2, Zenon DEF StartNotifier, groupVars, StartsAt
  <2> QED
    BY <1>2, <2>1, <2>3, Zenon
<1>4. ASSUME NEW p \in Partitions, Assign(p, n) PROVE Paid(e)'
  <2>1. Quiet
    BY <1>4, Zenon DEF Assign, sinkVars, brokerVars
  <2>2. CASE owner[p] = NoOwner
    <3>1. /\ UNCHANGED <<faults, committed, ncancel>>
          /\ owner' = [owner EXCEPT ![p] = n] /\ pos' = [pos EXCEPT ![n][p] = committed[p]]
      BY <1>4, <2>2, Zenon DEF Assign
    <3>2. owner'[p] = n /\ pos'[n][p] = committed[p]
      BY <1>1, <3>1, Zenon
    <3>3. StartsAt(p)' = StartsAt(p)
      BY <1>1, <2>2, <3>1, <3>2, Zenon DEF StartsAt
    <3>4. ASSUME NEW q \in Partitions, q # p PROVE StartsAt(q)' = StartsAt(q)
      <4>1. owner'[q] = owner[q] /\ \A m \in Notifiers : pos'[m][q] = pos[m][q]
        BY <1>1, <3>1, <3>4, Zenon
      <4> QED
        BY <1>1, <3>1, <4>1, Zenon DEF StartsAt
    <3> QED
      BY <1>2, <2>1, <3>1, <3>3, <3>4, Zenon
  <2>3. CASE owner[p] # NoOwner
    BY <1>2, <1>4, <2>1, <2>3, Zenon DEF Assign, Fault
  <2> QED
    BY <2>2, <2>3, Zenon
<1>5. CASE Poll(n)
  BY <1>5, PollPays, Zenon
<1>6. ASSUME NEW x \in batch[n], WriteNotification(n, x) \/ WriteError(n, x) PROVE Paid(e)'
  BY <1>6, ShowStepPays, Zenon DEF WriteNotification, WriteError, Fault, groupVars, brokerVars
<1>7. ASSUME NEW x \in current[n], MarkDelivered(n, x) PROVE Paid(e)'
  BY <1>2, <1>7, Zenon DEF MarkDelivered, Marked, brokerVars, groupVars, StartsAt
<1>8. CASE MarkDeliveredError(n)
  BY <1>2, <1>8, Zenon DEF MarkDeliveredError, Marked, brokerVars, groupVars, StartsAt, Fault
<1>9. CASE Commit(n)
  <2>1. Quiet
    BY <1>9, Zenon DEF Commit, sinkVars, brokerVars
  <2>2. /\ UNCHANGED <<faults, owner, pos, ncancel>> /\ ~ncancel[n]
        /\ committed' = [q \in Partitions |-> IF owner[q] = n THEN pos[n][q] ELSE committed[q]]
    BY <1>9, Zenon DEF Commit
  <2>3. ASSUME NEW q \in Partitions PROVE StartsAt(q)' = StartsAt(q)
    BY <1>1, <2>2, Zenon DEF StartsAt
  <2> QED
    BY <1>2, <2>1, <2>2, <2>3, Zenon
<1>10. CASE CommitError(n)
  BY <1>2, <1>10, Zenon DEF CommitError, brokerVars, groupVars, sinkVars, StartsAt, Fault
<1>11. CASE StopNotifier(n)
  BY <1>2, <1>11, Zenon DEF StopNotifier, brokerVars, sinkVars, Fault
<1>12. ASSUME Leave(n) PROVE Quiet
  BY <1>1, <1>12, Zenon DEF Leave, sinkVars, brokerVars
<1>13. CASE ExitNotifier(n)
  <2>1. /\ UNCHANGED <<faults, committed, ncancel>> /\ ncancel[n]
        /\ owner' = [q \in Partitions |-> IF owner[q] = n THEN NoOwner ELSE owner[q]]
        /\ pos' = [pos EXCEPT ![n] = [q \in Partitions |-> 0]]
    BY <1>13, Zenon DEF ExitNotifier, Leave
  <2>2. ASSUME NEW q \in Partitions PROVE StartsAt(q)' = StartsAt(q)
    <3>1. CASE owner[q] = n
      BY <1>1, <2>1, <3>1, Zenon DEF StartsAt
    <3>2. CASE owner[q] # n
      <4>1. owner'[q] = owner[q] /\ \A m \in Notifiers : m # n => pos'[m] = pos[m]
        BY <1>1, <2>1, <3>2, Zenon
      <4> QED
        BY <1>1, <2>1, <3>2, <4>1, Zenon DEF StartsAt
    <3> QED
      BY <3>1, <3>2, Zenon
  <2> QED
    BY <1>2, <1>12, <1>13, <2>1, <2>2, Zenon DEF ExitNotifier
<1>14. CASE CrashNotifier(n)
  BY <1>2, <1>12, <1>14, ZenonT(30) DEF CrashNotifier, Fault
<1> QED
  BY <1>3, <1>4, <1>5, <1>6, <1>7, <1>8, <1>9, <1>10, <1>11, <1>13, <1>14, ZenonT(30) DEF NotifierStep, NotifierRuns

\* A record is appended at the end of one partition.
LEMMA ProduceGrows ==
    ASSUME BrokerTypeOK, NEW e \in Events, Produce(e)
    PROVE  /\ log' \in [Partitions -> Seq(Events)] /\ LogGrows
           /\ \A p \in Partitions : p # PartitionOf[e] => log'[p] = log[p]
           /\ Len(log'[PartitionOf[e]]) = Len(log[PartitionOf[e]]) + 1
           /\ log'[PartitionOf[e]][Len(log[PartitionOf[e]]) + 1] = e
<1> DEFINE p == PartitionOf[e]
<1>1. p \in Partitions /\ log[p] \in Seq(Events)
  BY PartitionAssumption, Zenon DEF BrokerTypeOK
<1>2. log'[p] = Append(log[p], e) /\ \A q \in Partitions : q # p => log'[q] = log[q]
  BY <1>1, Zenon DEF BrokerTypeOK, Produce
<1>3. /\ Append(log[p], e) \in Seq(Events) /\ Len(log[p]) \in Nat
      /\ Len(Append(log[p], e)) = Len(log[p]) + 1 /\ Append(log[p], e)[Len(log[p]) + 1] = e
      /\ \A o \in 1 .. Len(log[p]) : Append(log[p], e)[o] = log[p][o]
  BY <1>1
<1>4. log' \in [Partitions -> Seq(Events)]
  BY <1>1, <1>3, Zenon DEF BrokerTypeOK, Produce
<1>5. ASSUME NEW q \in Partitions
      PROVE  /\ Len(log[q]) \in Nat /\ Len(log'[q]) \in Nat /\ Len(log[q]) <= Len(log'[q])
             /\ \A o \in 1 .. Len(log[q]) : log'[q][o] = log[q][o]
  <2>1. CASE q = p
    <3>1. Len(log[p]) \in Nat /\ Len(log'[p]) = Len(log[p]) + 1
      BY <1>2, <1>3, Zenon
    <3>2. Len(log'[p]) \in Nat /\ Len(log[p]) <= Len(log'[p])
      BY <3>1
    <3> QED
      BY <1>2, <1>3, <2>1, <3>2, Zenon
  <2>2. CASE q # p
    <3>1. Len(log[q]) \in Nat /\ Len(log[q]) <= Len(log[q])
      BY DEF BrokerTypeOK
    <3> QED
      BY <1>2, <2>2, <3>1, Zenon
  <2> QED
    BY <2>1, <2>2, Zenon
<1> QED
  BY <1>2, <1>3, <1>4, <1>5, Zenon DEF LogGrows

\* The new record stands in the partition of its key.
LEMMA ProduceKeepsKeyed ==
    ASSUME BrokerTypeOK, KeyedLog, NEW e \in Events, Produce(e)
    PROVE  KeyedLog'
<1> SUFFICES ASSUME NEW p \in Partitions, NEW o \in 1 .. Len(log'[p])
             PROVE  PartitionOf[log'[p][o]] = p
  BY Zenon DEF KeyedLog
<1>0. LogGrows /\ (p # PartitionOf[e] => log'[p] = log[p])
  BY ProduceGrows, ZenonT(30)
<1>1. CASE p # PartitionOf[e]
  BY <1>0, <1>1, Zenon DEF KeyedLog
<1>2. CASE p = PartitionOf[e]
  <2>1. Len(log[p]) \in Nat /\ Len(log'[p]) = Len(log[p]) + 1
    BY <1>0, <1>2, ProduceGrows, Zenon DEF LogGrows
  <2>2. CASE o \in 1 .. Len(log[p])
    <3>1. log'[p][o] = log[p][o]
      BY <1>0, <2>2, Zenon DEF LogGrows
    <3> QED
      BY <2>2, <3>1, Zenon DEF KeyedLog
  <2>3. CASE o = Len(log[p]) + 1
    BY <1>2, <2>3, ProduceGrows, Zenon
  <2> QED
    BY <2>1, <2>2, <2>3
<1> QED
  BY <1>1, <1>2, Zenon

\* One more copy pays for one more notification.
LEMMA CopyIsPaid ==
    ASSUME NEW s \in Nat, NEW d \in Nat, NEW c \in Nat, NEW f \in Nat, s + d <= c * (1 + f),
           NEW b \in Nat, b <= d + 1, NEW g \in Nat, f <= g
    PROVE  s + b <= (c + 1) * (1 + g)
<1>1. PICK h \in Nat : g = f + h
  <2>1. g - f \in Nat /\ g = f + (g - f)
    OBVIOUS
  <2> QED
    BY <2>1, Zenon
<1>2. (c + 1) * (1 + (f + h)) = c * (1 + f) + c * h + 1 + f + h
  OBVIOUS
<1>3. c * h \in Nat /\ c * (1 + f) \in Nat
  OBVIOUS
<1> DEFINE k == c * (1 + f)
           j == c * h
<1> HIDE DEF k, j
<1>4. k \in Nat /\ j \in Nat /\ s + d <= k /\ (c + 1) * (1 + g) = k + j + 1 + f + h
  BY <1>1, <1>2, <1>3 DEF k, j
<1> QED
  BY <1>4

\* Adding an element adds one, or nothing.
LEMMA OneMore ==
    ASSUME NEW S, IsFiniteSet(S), NEW x
    PROVE  /\ IsFiniteSet(S \cup {x})
           /\ Cardinality(S \cup {x}) = Cardinality(S) + 1 \/ S \cup {x} = S
<1>1. IsFiniteSet(S \cup {x}) /\ (Cardinality(S \cup {x}) = Cardinality(S) \/ Cardinality(S \cup {x}) = Cardinality(S) + 1)
  BY FS_AddElement, Zenon
<1>2. CASE x \in S
  BY <1>1, <1>2, Zenon
<1>3. CASE x \notin S
  BY <1>1, <1>3, FS_AddElement, Zenon
<1> QED
  BY <1>2, <1>3, Zenon

\* A record appended to the log is due once: to whoever polls it.
LEMMA ProducePays ==
    ASSUME ConsumeInv, NEW e \in Events, Produce(e), UNCHANGED notifierVars,
           UNCHANGED faults \/ faults' = faults + 1, NEW f \in Events, Paid(f)
    PROVE  Paid(f)'
<1>1. BrokerTypeOK /\ faults \in Nat /\ shown[f] \in Nat /\ \A g \in Events : PartitionOf[g] \in Partitions
  BY FaultsAssumption, PartitionAssumption DEF ConsumeInv, NotifierTypeOK
<1>2. /\ IsFiniteSet(Copies(f)) /\ Cardinality(Copies(f)) \in Nat
      /\ IsFiniteSet(Due(f)) /\ Cardinality(Due(f)) \in Nat
  BY <1>1, DueCountable, Zenon
<1>3. UNCHANGED <<owner, committed, pos, batch, ncancel, shown>>
  BY Zenon DEF notifierVars, groupVars, loopVars, sinkVars
<1>4. \A o, m : DueAt(f, o, m)' <=> DueAt(f, o, m)
  BY <1>3, Zenon DEF DueAt, StartsAt
<1>5. faults' \in Nat /\ faults <= faults'
  BY <1>1
<1>6. CASE f # e
  <2>1. Copies(f)' = Copies(f)
    <3> DEFINE q == PartitionOf[f]
    <3>1. CASE q # PartitionOf[e]
      BY <1>1, <3>1, ProduceGrows, Zenon DEF Copies
    <3>2. CASE q = PartitionOf[e]
      <4>1. /\ Len(log[q]) \in Nat /\ Len(log'[q]) = Len(log[q]) + 1 /\ log'[q][Len(log[q]) + 1] = e
            /\ \A o \in 1 .. Len(log[q]) : log'[q][o] = log[q][o]
        BY <1>1, <3>2, ProduceGrows, Zenon DEF LogGrows
      <4> HIDE DEF q
      <4>2. {o \in 1 .. Len(log'[q]) : log'[q][o] = f} = {o \in 1 .. Len(log[q]) : log[q][o] = f}
        BY <1>6, <4>1, SMTT(30)
      <4> QED
        BY <4>2, Zenon DEF Copies, q
    <3> QED
      BY <3>1, <3>2, Zenon
  <2>2. Due(f)' = Due(f)
    BY <1>4, <2>1, Zenon DEF Due
  <2>3. shown[f] + Cardinality(Due(f)) <= shown[f] + Cardinality(Due(f)) /\
        shown[f] + Cardinality(Due(f)) <= shown[f] + Cardinality(Due(f)) + Cardinality(Copies(f))
    BY <1>1, <1>2
  <2>4. shown[f] + Cardinality(Due(f)) <= Cardinality(Copies(f)) * (1 + faults')
    BY <1>1, <1>2, <1>5, <2>3, StepIsPaid, Zenon DEF Paid
  <2> QED
    BY <1>3, <2>1, <2>2, <2>4, Zenon DEF Paid
<1>7. CASE f = e
  <2> DEFINE p == PartitionOf[f]
             last == Len(log[p]) + 1
  <2>1. /\ Len(log[p]) \in Nat /\ Len(log'[p]) = last /\ log'[p][last] = f
        /\ \A o \in 1 .. Len(log[p]) : log'[p][o] = log[p][o]
    BY <1>1, <1>7, ProduceGrows, Zenon DEF LogGrows
  <2>2. Copies(f)' = Copies(f) \cup {last} /\ last \notin Copies(f)
    <3>1. Copies(f) = {o \in 1 .. Len(log[p]) : log[p][o] = f} /\ Copies(f)' = {o \in 1 .. Len(log'[p]) : log'[p][o] = f}
      BY Zenon DEF Copies
    <3> HIDE DEF p
    <3>2. /\ {o \in 1 .. Len(log'[p]) : log'[p][o] = f} = {o \in 1 .. Len(log[p]) : log[p][o] = f} \cup {last}
          /\ last \notin {o \in 1 .. Len(log[p]) : log[p][o] = f}
      BY <2>1, SMTT(30)
    <3> QED
      BY <3>1, <3>2, Zenon
  <2>3. Cardinality(Copies(f)') = Cardinality(Copies(f)) + 1
    BY <1>2, <2>2, FS_AddElement, Zenon
  <2>4. Due(f)' \subseteq Due(f) \cup {<<last, NoOwner>>}
    <3> SUFFICES ASSUME NEW t \in Due(f)', t # <<last, NoOwner>> PROVE t \in Due(f)
      OBVIOUS
    <3>1. t \in Copies(f)' \X (Notifiers \cup {NoOwner}) /\ DueAt(f, t[1], t[2])
      BY <1>4, Zenon DEF Due
    <3>2. t[1] \in Copies(f)' /\ t[2] \in Notifiers \cup {NoOwner} /\ t = <<t[1], t[2]>>
      BY <3>1, SMTT(30)
    <3>3. ASSUME t[1] = last PROVE FALSE
      <4>1. t[2] \in Notifiers /\ t[2] # NoOwner
        BY <3>2, <3>3, NotifierAssumption, Zenon
      <4>2. <<p, last>> \in batch[t[2]]
        BY <3>1, <3>3, <4>1, Zenon DEF DueAt
      <4>3. <<p, last>>[2] <= Len(log[<<p, last>>[1]])
        BY <4>1, <4>2, Zenon DEF ConsumeInv, OffsetsInLog
      <4>4. last <= Len(log[p])
        BY <4>3, Zenon
      <4> QED
        BY <2>1, <4>4
    <3>4. t[1] \in Copies(f)
      BY <2>2, <3>2, <3>3, Zenon
    <3>5. t \in Copies(f) \X (Notifiers \cup {NoOwner})
      BY <3>2, <3>4, Zenon
    <3> QED
      BY <3>1, <3>5, Zenon DEF Due
  <2>5. /\ IsFiniteSet(Due(f) \cup {<<last, NoOwner>>})
        /\ \/ Cardinality(Due(f) \cup {<<last, NoOwner>>}) = Cardinality(Due(f)) + 1
           \/ Due(f) \cup {<<last, NoOwner>>} = Due(f)
    BY <1>2, OneMore, Zenon
  <2>6. /\ Cardinality(Due(f)') \in Nat /\ Cardinality(Due(f) \cup {<<last, NoOwner>>}) \in Nat
        /\ Cardinality(Due(f)') <= Cardinality(Due(f) \cup {<<last, NoOwner>>})
    BY <2>4, <2>5, FS_Subset, FS_CardinalityType, Zenon
  <2>7. Cardinality(Due(f)') <= Cardinality(Due(f)) + 1
    <3> DEFINE more == Cardinality(Due(f) \cup {<<last, NoOwner>>})
    <3>1. more = Cardinality(Due(f)) + 1 \/ more = Cardinality(Due(f))
      BY <2>5, Zenon
    <3>2. more \in Nat /\ Cardinality(Due(f)') \in Nat /\ Cardinality(Due(f)') <= more
      BY <2>6, Zenon
    <3> HIDE DEF more
    <3> QED
      BY <1>2, <3>1, <3>2, SMTT(30)
  <2>8. shown[f] + Cardinality(Due(f)') <= (Cardinality(Copies(f)) + 1) * (1 + faults')
    BY <1>1, <1>2, <1>5, <2>6, <2>7, CopyIsPaid, Zenon DEF Paid
  <2> QED
    BY <1>3, <2>3, <2>8, Zenon DEF Paid
<1> QED
  BY <1>6, <1>7, Zenon

\* Nothing has been shown and nothing is due.
LEMMA NotifierInitPays ==
    ASSUME OutboxInit, BrokerInit, NotifierInit, faults = 0
    PROVE  NotifierInv
<1>1. ConsumeInv
  BY NotifierInitInv, Zenon
<1>2. \A p \in Partitions : log[p] = <<>> /\ 1 .. Len(log[p]) = {}
  BY DEF BrokerInit
<1>3. KeyedLog
  BY <1>2, Zenon DEF KeyedLog
<1>4. ASSUME NEW e \in Events PROVE Paid(e)
  <2>1. Copies(e) = {}
    BY <1>2, PartitionAssumption, Zenon DEF Copies
  <2>2. Due(e) = {}
    BY <2>1, Zenon DEF Due
  <2>3. Cardinality(Due(e)) = 0 /\ Cardinality(Copies(e)) = 0
    BY <2>1, <2>2, FS_EmptySet, Zenon
  <2>4. shown[e] = 0
    BY DEF NotifierInit
  <2> QED
    BY <2>3, <2>4 DEF Paid
<1> QED
  BY <1>1, <1>3, <1>4, Zenon DEF NotifierInv

\* A step of a notifier preserves the whole invariant.
LEMMA NotifierStepKeepsInv ==
    ASSUME NotifierInv, NEW n \in Notifiers, NotifierStep(n)
    PROVE  NotifierInv'
<1> USE DEF NotifierInv
<1>1. ConsumeInv'
  BY NotifierStepPreserves, Zenon
<1>2. UNCHANGED log
  BY Zenon DEF NotifierStep, NotifierRuns, StartNotifier, Assign, Poll, WriteNotification, WriteError,
     MarkDelivered, MarkDeliveredError, Marked, Commit, CommitError, StopNotifier,
     ExitNotifier, CrashNotifier, Leave, brokerVars
<1>3. KeyedLog'
  BY <1>2, Zenon DEF KeyedLog
<1>4. ASSUME NEW e \in Events PROVE Paid(e)'
  BY NotifierStepPays, Zenon
<1> QED
  BY <1>1, <1>3, <1>4, Zenon

\* So does a step of anybody else that appends at most one record.
LEMMA OutsideStepKeepsInv ==
    ASSUME NotifierInv, NotifierTypeOK', UNCHANGED <<notifierVars, deliveredAt>>,
           UNCHANGED log \/ \E e \in Events : Produce(e),
           UNCHANGED faults \/ faults' = faults + 1
    PROVE  NotifierInv'
<1> USE DEF NotifierInv
<1>1. BrokerTypeOK
  BY Zenon DEF ConsumeInv, NotifierTypeOK
<1>2. CASE UNCHANGED log
  <2>1. LogGrows
    BY <1>1, <1>2 DEF LogGrows, BrokerTypeOK
  <2>2. ConsumeInv' /\ KeyedLog'
    BY <1>2, <2>1, OutsideStepPreserves, Zenon DEF KeyedLog
  <2>3. UNCHANGED shown /\ (\A m \in Notifiers : batch'[m] \subseteq batch[m]) /\ \A p : StartsAt(p)' = StartsAt(p)
    BY Zenon DEF notifierVars, groupVars, loopVars, sinkVars, StartsAt
  <2>4. ASSUME NEW f \in Events PROVE Paid(f)'
    BY <1>2, <2>3, QuietStepPays, Zenon
  <2> QED
    BY <2>2, <2>4, Zenon
<1>3. ASSUME NEW e \in Events, Produce(e) PROVE NotifierInv'
  <2>1. LogGrows /\ KeyedLog'
    BY <1>1, <1>3, ProduceGrows, ProduceKeepsKeyed, Zenon
  <2>2. ConsumeInv'
    BY <2>1, OutsideStepPreserves, Zenon
  <2>3. ASSUME NEW f \in Events PROVE Paid(f)'
    BY <1>3, ProducePays, Zenon
  <2> QED
    BY <2>1, <2>2, <2>3, Zenon
<1> QED
  BY <1>2, <1>3, Zenon

\* What is shown is paid for.
LEMMA PaidBounds == NotifierInv => RedeliveryBound
<1> SUFFICES ASSUME NotifierInv, NEW e \in Events
             PROVE  shown[e] <= Cardinality(Copies(e)) * (1 + faults)
  BY Zenon DEF RedeliveryBound
<1>1. BrokerTypeOK /\ faults \in Nat /\ shown[e] \in Nat /\ Paid(e)
  BY FaultsAssumption DEF NotifierInv, ConsumeInv, NotifierTypeOK
<1>2. Cardinality(Copies(e)) \in Nat /\ Cardinality(Due(e)) \in Nat
  BY <1>1, DueCountable, Zenon
<1> DEFINE k == Cardinality(Copies(e)) * (1 + faults)
<1>3. k \in Nat
  BY <1>1, <1>2
<1>4. shown[e] + Cardinality(Due(e)) <= k
  BY <1>1, Zenon DEF Paid
<1> HIDE DEF k
<1>5. shown[e] <= k
  BY <1>1, <1>2, <1>3, <1>4
<1> QED
  BY <1>5, Zenon DEF k

-----------------------------------------------------------------------------
(* The notifiers with any log the relays can write. *)

\* Every step preserves the inductive invariant.
LEMMA NotifierSystemNextInv == NotifierInv /\ [NotifierSystemNext]_notifierSystemVars => NotifierInv'
<1> SUFFICES ASSUME NotifierInv, [NotifierSystemNext]_notifierSystemVars PROVE NotifierInv'
  OBVIOUS
<1>0. ConsumeInv /\ NotifierTypeOK
  BY Zenon DEF NotifierInv, ConsumeInv
<1>1. ASSUME NEW e \in Events, OrderStep(e), UNCHANGED <<brokerVars, notifierVars, faults>>
      PROVE  NotifierInv'
  <2>1. NotifierTypeOK'
    BY <1>0, <1>1, OrderStepKeeps, Zenon DEF ConsumeInv
  <2>2. UNCHANGED deliveredAt
    BY <1>1, Zenon DEF OrderStep, Enqueue, CommitOrder, RollbackOrder
  <2> QED
    BY <1>1, <2>1, <2>2, OutsideStepKeepsInv, Zenon DEF brokerVars
<1>2. ASSUME NEW e \in Events, RelayPublishes(e)
      PROVE  NotifierInv'
  <2>1. BrokerTypeOK /\ Produce(e) /\ UNCHANGED <<outboxVars, up, notifierVars, faults>>
    BY <1>0, <1>2, Zenon DEF RelayPublishes, NotifierTypeOK
  <2>2. BrokerTypeOK'
    BY <2>1, ProduceGrows, Zenon DEF BrokerTypeOK
  <2>3. NotifierTypeOK'
    BY <1>0, <2>1, <2>2, Zenon DEF NotifierTypeOK, OutboxTypeOK, outboxVars, notifierVars, groupVars,
       loopVars, sinkVars
  <2> QED
    BY <2>1, <2>3, OutsideStepKeepsInv, Zenon DEF outboxVars
<1>3. ASSUME NEW n \in Notifiers, NotifierStep(n)
      PROVE  NotifierInv'
  BY <1>3, NotifierStepKeepsInv, Zenon
<1>4. CASE BrokerStep /\ UNCHANGED <<outboxVars, notifierVars>>
  <2>1. NotifierTypeOK'
    BY <1>0, <1>4, BrokerStepKeeps, Zenon DEF ConsumeInv
  <2>2. UNCHANGED <<log, deliveredAt>> /\ (UNCHANGED faults \/ faults' = faults + 1)
    BY <1>4, Zenon DEF BrokerStep, BrokerFails, BrokerRecovers, Fault, outboxVars
  <2> QED
    BY <1>4, <2>1, <2>2, OutsideStepKeepsInv, Zenon
<1>5. CASE UNCHANGED notifierSystemVars
  <2>1. NotifierTypeOK'
    BY <1>0, <1>5, Zenon DEF notifierSystemVars, NotifierTypeOK, OutboxTypeOK, BrokerTypeOK, outboxVars,
       brokerVars, notifierVars, groupVars, loopVars, sinkVars
  <2> QED
    BY <1>5, <2>1, OutsideStepKeepsInv, Zenon DEF notifierSystemVars, outboxVars, brokerVars
<1> QED
  BY <1>1, <1>2, <1>3, <1>4, <1>5, Zenon DEF NotifierSystemNext

\* NotifierInv holds throughout: offsets within the log, everything polled
\* either shown or still held, and every notification, shown or due, paid for
\* by a copy or a fault (service.go consume and dispatch).
THEOREM NotifierInvHolds == NotifierSafetySpec => []NotifierInv
<1>1. NotifierSystemInit => NotifierInv
  BY NotifierInitPays, Zenon DEF NotifierSystemInit
<1> QED
  BY <1>1, NotifierSystemNextInv, PTL DEF NotifierSafetySpec

\* For any number of replicas, partitions, records and faults, an event is
\* shown at most once per copy in the log, and once more per copy and fault
\* (service.go consume and dispatch, which have no other guard).
THEOREM RedeliveryBoundHolds == NotifierSafetySpec => []RedeliveryBound
BY PaidBounds, NotifierInvHolds, PTL

\* For any number of replicas, partitions, records and faults, the group
\* commits past an event only after it was shown (service.go consume).
THEOREM CommittedIsShownHolds == NotifierSafetySpec => []CommittedIsShown
<1>1. NotifierInv => CommittedIsShown
  BY Zenon DEF NotifierInv, ConsumeInv
<1> QED
  BY <1>1, NotifierInvHolds, PTL

\* Whatever crashes, stops or changes hands, the group commits past an
\* undelivered event only if its own write or mark failed (service.go
\* dispatch and consume).
THEOREM StrandedHasFailedHolds == NotifierSafetySpec => []StrandedHasFailed
<1>1. NotifierInv => StrandedHasFailed
  BY Zenon DEF NotifierInv, ConsumeInv
<1> QED
  BY <1>1, NotifierInvHolds, PTL

\* A row marked delivered was written to every configured sink (service.go
\* dispatch).
THEOREM DeliveredIsWrittenHolds == NotifierSafetySpec => []DeliveredIsWritten
<1>1. NotifierInv => DeliveredIsWritten
  BY Zenon DEF NotifierInv, ConsumeInv
<1> QED
  BY <1>1, NotifierInvHolds, PTL

\* Committed offsets never move back, whoever owns the partition (client.go
\* Commit).
THEOREM CommitsAdvanceHolds == NotifierSafetySpec => CommitsAdvance
<1> DEFINE Advances == \A p \in Partitions : committed[p] <= committed'[p]
<1>1. NotifierInv /\ [NotifierSystemNext]_notifierSystemVars => [Advances]_notifierSystemVars
  <2> SUFFICES ASSUME ConsumeInv, NotifierSystemNext PROVE Advances
    BY Zenon DEF NotifierInv
  <2>1. CASE UNCHANGED committed
    BY <2>1 DEF ConsumeInv, NotifierTypeOK
  <2>2. ASSUME NEW n \in Notifiers, Commit(n) PROVE Advances
    BY <2>2, CommitPreserves, Zenon
  <2>3. ASSUME NEW n \in Notifiers, NotifierStep(n), ~Commit(n) PROVE UNCHANGED committed
    BY <2>3, Zenon DEF NotifierStep, NotifierRuns, StartNotifier, Assign, Poll, WriteNotification, WriteError,
       MarkDelivered, MarkDeliveredError, Marked, CommitError, StopNotifier, ExitNotifier, CrashNotifier,
       Leave, groupVars
  <2> QED
    BY <2>1, <2>2, <2>3, Zenon DEF NotifierSystemNext, RelayPublishes, notifierVars, groupVars
<1> QED
  BY <1>1, NotifierInvHolds, PTL DEF NotifierSafetySpec, CommitsAdvance

=============================================================================
