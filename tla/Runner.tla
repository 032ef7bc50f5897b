------------------------------- MODULE Runner -------------------------------
(***************************************************************************)
(* worker.Runner (services/worker/worker.go): one background goroutine,    *)
(* the cancel function of its context, the Once and the WaitGroup its      *)
(* callers of Stop meet at.                                                *)
(***************************************************************************)

CONSTANT Callers        \* goroutines that call Stop

VARIABLES starter,      \* Start: "idle", "assigned" (r.cancel set), "started"
          cancel,       \* r.cancel: "nil", "set", "called"
          once,         \* r.once: "new", "running", "done"
          loop,         \* the goroutine: "none", "running", "returned"
          spc,          \* where each caller stands in Stop
          late          \* whether its Stop began after Start had returned

runnerVars == <<starter, cancel, once, loop, spc, late>>
stopVars == <<spc, late>>

RunnerTypeOK ==
    /\ starter \in {"idle", "assigned", "started"}
    /\ cancel \in {"nil", "set", "called"}
    /\ once \in {"new", "running", "done"}
    /\ loop \in {"none", "running", "returned"}
    /\ spc \in [Callers -> {"idle", "once", "cancel", "wait", "done"}]
    /\ late \in [Callers -> BOOLEAN]

RunnerInit ==
    /\ starter = "idle" /\ cancel = "nil" /\ once = "new" /\ loop = "none"
    /\ spc = [c \in Callers |-> "idle"]
    /\ late = [c \in Callers |-> FALSE]

\* Start, called once: the cancel function is stored, the goroutine launched.
StartAssign ==
    /\ starter = "idle"
    /\ starter' = "assigned"
    /\ cancel' = "set"
    /\ UNCHANGED <<once, loop, stopVars>>

StartGo ==
    /\ starter = "assigned"
    /\ starter' = "started"
    /\ loop' = "running"
    /\ UNCHANGED <<cancel, once, stopVars>>

\* A loop whose context is cancelled may return.
LoopReturns ==
    /\ loop = "running" /\ cancel = "called"
    /\ loop' = "returned"
    /\ UNCHANGED <<starter, cancel, once, stopVars>>

CallStop(c) ==
    /\ spc[c] \in {"idle", "done"}
    /\ spc' = [spc EXCEPT ![c] = "once"]
    /\ late' = [late EXCEPT ![c] = starter = "started"]
    /\ UNCHANGED <<starter, cancel, once, loop>>

\* once.Do: the first caller runs the function, the others wait for it to end.
OnceDo(c) ==
    /\ spc[c] = "once" /\ once # "running"
    /\ once' = IF once = "new" THEN "running" ELSE once
    /\ spc' = [spc EXCEPT ![c] = IF once = "new" THEN "cancel" ELSE "wait"]
    /\ UNCHANGED <<starter, cancel, loop, late>>

\* Mutant: the context is not cancelled.
CancelNothing(c) ==
    /\ spc[c] = "cancel"
    /\ once' = "done"
    /\ spc' = [spc EXCEPT ![c] = "wait"]
    /\ UNCHANGED <<starter, cancel, loop, late>>

Cancel(c) ==
    /\ spc[c] = "cancel"
    /\ cancel' = IF cancel = "nil" THEN "nil" ELSE "called"
    /\ once' = "done"
    /\ spc' = [spc EXCEPT ![c] = "wait"]
    /\ UNCHANGED <<starter, loop, late>>

\* wg.Wait: there is no goroutine, or it has returned.
Wait(c) ==
    /\ spc[c] = "wait" /\ loop # "running"
    /\ spc' = [spc EXCEPT ![c] = "done"]
    /\ UNCHANGED <<starter, cancel, once, loop, late>>

StopStep(c) == OnceDo(c) \/ Cancel(c) \/ Wait(c)

-----------------------------------------------------------------------------
\* A Stop that began after Start returns only when the goroutine has
\* returned, whichever caller gets to cancel (worker.go Stop: once.Do, then
\* wg.Wait).
StopJoins == \A c \in Callers : spc[c] = "done" /\ late[c] => loop = "returned"

=============================================================================
