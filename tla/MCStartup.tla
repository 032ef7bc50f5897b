----------------------------- MODULE MCStartup -----------------------------
(* An orders node and a notifier, each configured on its own. *)
EXTENDS Startup

Config(memory, host, recreate, broker) ==
    [useMemoryDB |-> memory, dbHost |-> host, recreateSchema |-> recreate, eventBroker |-> broker]

\* Postgres with and without the flag that it ignores, a file kept or
\* recreated, and memory.
SomeConfigs ==
    {Config(FALSE, TRUE, TRUE, TRUE), Config(FALSE, TRUE, FALSE, TRUE),
     Config(FALSE, FALSE, FALSE, TRUE), Config(FALSE, FALSE, TRUE, FALSE),
     Config(TRUE, FALSE, FALSE, FALSE)}

=============================================================================
