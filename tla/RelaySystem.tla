---------------------------- MODULE RelaySystem ----------------------------
(***************************************************************************)
(* The relays with the purchases that feed them and the broker they        *)
(* publish to; nobody consumes.                                            *)
(***************************************************************************)
EXTENDS Relay

relaySystemVars == <<outboxVars, brokerVars, relayVars, faults>>

RelaySystemInit ==
    /\ OutboxInit
    /\ BrokerInit
    /\ RelayInit
    /\ faults = 0

RelaySystemNext ==
    \/ \E e \in Events : OrderStep(e) /\ UNCHANGED <<brokerVars, relayVars, faults>>
    \/ \E r \in Relays : RelayStep(r)
    \/ BrokerStep /\ UNCHANGED <<outboxVars, relayVars>>

\* A relay keeps running (its process is restarted: docker-compose says
\* restart: unless-stopped), except that its Publish may wait for a broker that
\* is down; and select, choosing at random among its ready cases, does not
\* ignore a cancelled context for ever.
RelayFairness ==
    \A r \in Relays : /\ WF_relaySystemVars(~Waits(r) /\ RelayRuns(r))
                      /\ SF_relaySystemVars(ExitRelay(r))

RelaySafetySpec == RelaySystemInit /\ [][RelaySystemNext]_relaySystemVars

\* The broker may stay down; Publish then fails instead of waiting for it.
UnavailableSpec ==
    /\ RelaySafetySpec
    /\ RelayFairness
    /\ \A r \in Relays : WF_relaySystemVars(RelayRuns(r))

\* The broker comes back.
RelaySpec ==
    /\ RelaySafetySpec
    /\ RelayFairness
    /\ WF_relaySystemVars(BrokerRecovers /\ UNCHANGED <<outboxVars, relayVars>>)

-----------------------------------------------------------------------------
\* A row is settled once it is marked and in no relay's batch.
Settled(e) == publishedAt[e] /\ \A r \in Relays : e \notin todo[r]

\* A settled row stays settled and is never published again, whatever relay
\* starts, restarts or scans (relay.go drain: the scan asks for unpublished
\* rows only).
SettledStaysSettled ==
    [][\A e \in Events : Settled(e) => Settled(e)' /\ Copies(e)' = Copies(e)]_relaySystemVars

\* Every committed row that can be published is published in the end, whatever
\* order the transactions commit in and whichever relay, broker or database
\* call fails on the way (relay.go drain), and in spite of rows before it that
\* never can: those occupy their place in every scan, so the property needs
\* fewer of them than BatchSize.
EventuallyPublished ==
    Cardinality(refused) < BatchSize =>
        \A e \in Events : e \in Visible \ refused ~> publishedAt[e]

\* Stop returns (worker.go Stop waits for the loop, relay.go run returns when
\* its context is cancelled).  A full batch of rows that can never be published
\* keeps one drain going for ever, so there must be fewer of them.
StopReturns ==
    Cardinality(refused) < BatchSize =>
        \A r \in Relays : (rcancel[r] /\ rpc[r] # "down") ~> (rpc[r] = "down")

=============================================================================
