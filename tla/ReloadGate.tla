----------------------------- MODULE ReloadGate -----------------------------
(***************************************************************************)
(* The reload coordinator (forst/internal/reload/coordinator.go) and the   *)
(* dispatch middleware that puts invokes behind it                         *)
(* (forst/internal/invokeserver/middleware.go, reloadGateBackend).         *)
(*                                                                         *)
(* Each critical section of c.mu is one step; a member of Invokes is one   *)
(* request, a member of Drains one call of BeginDrain with the goroutine   *)
(* it starts to wait on c.cond.                                            *)
(***************************************************************************)
EXTENDS Integers, FiniteSets

CONSTANTS
    Invokes,   \* requests
    Streams,   \* the requests that are InvokeStream
    Drains     \* calls of BeginDrain

ASSUME InvokesAssumption == IsFiniteSet(Invokes) /\ Streams \subseteq Invokes

VARIABLES
    state,       \* ReloadCoordinator.state
    degraded,    \* ReloadCoordinator.degraded: "nil" or "err"
    generation,  \* ReloadCoordinator.generation
    inFlightN,   \* ReloadCoordinator.inFlightN
    invoke,      \* where each request is
    drain,       \* where each BeginDrain call is
    prior,       \* its local `prior`
    waiter       \* its goroutine: checking inFlightN, asleep in cond.Wait, closed

coordVars == <<state, degraded, generation, inFlightN>>
drainVars == <<drain, prior, waiter>>
vars == <<coordVars, invoke, drainVars>>

Resting == {"ready", "degraded"}

TypeOK ==
    /\ state \in {"ready", "draining", "regenerating", "degraded"}
    /\ degraded \in {"nil", "err"}
    /\ generation \in Nat
    /\ inFlightN \in Int
    /\ invoke \in [Invokes -> {"idle", "admitted", "inside", "streaming", "panicked",
                               "rejected", "done"}]
    /\ drain \in [Drains -> {"idle", "waiting", "drained", "cancelled", "refused", "finished"}]
    /\ prior \in [Drains -> Resting]
    /\ waiter \in [Drains -> {"none", "checking", "asleep", "closed"}]

\* NewCoordinator
Init ==
    /\ state = "ready"
    /\ degraded = "nil"
    /\ generation = 0
    /\ inFlightN = 0
    /\ invoke = [i \in Invokes |-> "idle"]
    /\ drain = [d \in Drains |-> "idle"]
    /\ prior = [d \in Drains |-> "ready"]
    /\ waiter = [d \in Drains |-> "none"]

\* c.cond.Broadcast(): every sleeping waiter looks at inFlightN again.
Woken == [d \in Drains |-> IF waiter[d] = "asleep" THEN "checking" ELSE waiter[d]]

-----------------------------------------------------------------------------
(* A request: reloadGateBackend.Invoke and InvokeStream                    *)

\* WaitReady returns nil.
WaitReady(i) ==
    /\ invoke[i] = "idle"
    /\ state = "ready" \/ (state = "degraded" /\ degraded = "nil")
    /\ invoke' = [invoke EXCEPT ![i] = "admitted"]
    /\ UNCHANGED <<coordVars, drainVars>>

\* WaitReady returns ErrNotReady, or the error of the failed regeneration.
NotReady(i) ==
    /\ invoke[i] = "idle"
    /\ state \in {"draining", "regenerating"} \/ (state = "degraded" /\ degraded = "err")
    /\ invoke' = [invoke EXCEPT ![i] = "rejected"]
    /\ UNCHANGED <<coordVars, drainVars>>

\* A mutant: only unary requests are counted when they enter.
TrackUnaryOnly(i) ==
    /\ invoke[i] = "admitted"
    /\ inFlightN' = IF i \in Streams THEN inFlightN ELSE inFlightN + 1
    /\ invoke' = [invoke EXCEPT ![i] = "inside"]
    /\ UNCHANGED <<state, degraded, generation, drainVars>>

\* TrackInFlight, the first critical section; the backend call follows.
TrackInFlight(i) ==
    /\ invoke[i] = "admitted"
    /\ inFlightN' = inFlightN + 1
    /\ invoke' = [invoke EXCEPT ![i] = "inside"]
    /\ UNCHANGED <<state, degraded, generation, drainVars>>

\* A mutant: the decrement does not wake the drain.
LeaveSilently(i) ==
    /\ invoke[i] = "inside"
    /\ inFlightN' = inFlightN - 1
    /\ invoke' = [invoke EXCEPT ![i] = IF i \in Streams THEN "streaming" ELSE "done"]
    /\ UNCHANGED <<state, degraded, generation, drainVars>>

\* TrackInFlight, the second critical section, once the backend call has
\* returned: with a result, or with the channel its stream is sent on.
LeaveInFlight(i) ==
    /\ invoke[i] = "inside"
    /\ inFlightN' = inFlightN - 1
    /\ invoke' = [invoke EXCEPT ![i] = IF i \in Streams THEN "streaming" ELSE "done"]
    /\ waiter' = Woken
    /\ UNCHANGED <<state, degraded, generation, drain, prior>>

\* The backend call panics, which the HTTP server recovers: TrackInFlight has no
\* defer, so its second section never runs.
Panics(i) ==
    /\ invoke[i] = "inside"
    /\ invoke' = [invoke EXCEPT ![i] = "panicked"]
    /\ UNCHANGED <<coordVars, drainVars>>

\* The program behind the stream sends its last chunk.
StreamEnds(i) ==
    /\ invoke[i] = "streaming"
    /\ invoke' = [invoke EXCEPT ![i] = "done"]
    /\ UNCHANGED <<coordVars, drainVars>>

-----------------------------------------------------------------------------
(* The reload: BeginDrain, then SetState                                   *)

\* A mutant: BeginDrain does not look at the phase.
DrainAnyPhase(d) ==
    /\ drain[d] = "idle"
    /\ drain' = [drain EXCEPT ![d] = "waiting"]
    /\ prior' = [prior EXCEPT ![d] = IF state \in Resting THEN state ELSE "ready"]
    /\ state' = "draining"
    /\ waiter' = [waiter EXCEPT ![d] = "checking"]
    /\ UNCHANGED <<degraded, generation, inFlightN, invoke>>

\* BeginDrain's first critical section and `go func()`.
BeginDrain(d) ==
    /\ drain[d] = "idle"
    /\ state \in Resting
    /\ drain' = [drain EXCEPT ![d] = "waiting"]
    /\ prior' = [prior EXCEPT ![d] = state]
    /\ state' = "draining"
    /\ waiter' = [waiter EXCEPT ![d] = "checking"]
    /\ UNCHANGED <<degraded, generation, inFlightN, invoke>>

\* BeginDrain refuses: another reload is under way.
CannotDrain(d) ==
    /\ drain[d] = "idle"
    /\ state \notin Resting
    /\ drain' = [drain EXCEPT ![d] = "refused"]
    /\ UNCHANGED <<coordVars, invoke, prior, waiter>>

\* The goroutine's loop test: sleep while requests are in flight, else close.
\* It outlives a cancelled BeginDrain.
AwaitInFlight(d) ==
    /\ waiter[d] = "checking"
    /\ waiter' = [waiter EXCEPT ![d] = IF inFlightN > 0 THEN "asleep" ELSE "closed"]
    /\ UNCHANGED <<coordVars, invoke, drain, prior>>

\* A mutant: a cancelled drain always goes back to Ready.
CancelToReady(d) ==
    /\ drain[d] = "waiting"
    /\ drain' = [drain EXCEPT ![d] = "cancelled"]
    /\ state' = "ready"
    /\ waiter' = Woken
    /\ UNCHANGED <<degraded, generation, inFlightN, invoke, prior>>

\* ctx.Done(): the prior phase is restored.
DrainCancelled(d) ==
    /\ drain[d] = "waiting"
    /\ drain' = [drain EXCEPT ![d] = "cancelled"]
    /\ state' = prior[d]
    /\ waiter' = Woken
    /\ UNCHANGED <<degraded, generation, inFlightN, invoke, prior>>

\* <-done: the phase becomes Regenerating.
Drained(d) ==
    /\ drain[d] = "waiting"
    /\ waiter[d] = "closed"
    /\ drain' = [drain EXCEPT ![d] = "drained"]
    /\ state' = "regenerating"
    /\ waiter' = Woken
    /\ UNCHANGED <<degraded, generation, inFlightN, invoke, prior>>

\* SetState(StateReady, nil): the reload succeeded.
SetReady(d) ==
    /\ drain[d] = "drained"
    /\ drain' = [drain EXCEPT ![d] = "finished"]
    /\ state' = "ready"
    /\ degraded' = "nil"
    /\ generation' = generation + 1
    /\ waiter' = Woken
    /\ UNCHANGED <<inFlightN, invoke, prior>>

\* SetState(StateDegraded, err): it failed; nothing forbids a nil err.
SetDegraded(d) ==
    /\ drain[d] = "drained"
    /\ drain' = [drain EXCEPT ![d] = "finished"]
    /\ state' = "degraded"
    /\ degraded' \in {"nil", "err"}
    /\ waiter' = Woken
    /\ UNCHANGED <<generation, inFlightN, invoke, prior>>

Next ==
    \/ \E i \in Invokes :
          \/ WaitReady(i) \/ NotReady(i) \/ TrackInFlight(i) \/ LeaveInFlight(i)
          \/ Panics(i) \/ StreamEnds(i)
    \/ \E d \in Drains :
          \/ BeginDrain(d) \/ CannotDrain(d) \/ AwaitInFlight(d) \/ DrainCancelled(d)
          \/ Drained(d) \/ SetReady(d) \/ SetDegraded(d)

Spec == Init /\ [][Next]_vars

\* The Go scheduler runs every goroutine that can run, and the program behind
\* a request returns, or panics.  Nothing makes a client send a request, a reload begin or
\* a context be cancelled.
FairSpec ==
    /\ Spec
    /\ \A i \in Invokes : WF_vars(TrackInFlight(i)) /\ WF_vars(LeaveInFlight(i))
    /\ \A d \in Drains : WF_vars(AwaitInFlight(d)) /\ WF_vars(Drained(d))

-----------------------------------------------------------------------------
(* Properties                                                              *)

Inside == {i \in Invokes : invoke[i] = "inside"}
Leaked == {i \in Invokes : invoke[i] = "panicked"}
Counted == Inside \cup Leaked
Active == {d \in Drains : drain[d] \in {"waiting", "drained"}}

\* inFlightN is exactly the number of requests inside the backend call and of
\* those that panicked there: nothing else makes the count BeginDrain waits on
\* drift.
CountExact ==
    inFlightN = Cardinality(Counted)

\* No lost wake-up: a goroutine of BeginDrain sleeps only while a request whose
\* end will wake it is in flight, or after one that panicked.
SleepersAreWoken ==
    \A d \in Drains : waiter[d] = "asleep" => Inside # {} \/ Leaked # {}

\* The phase belongs to one reload: at most one BeginDrain is between its start
\* and its SetState, and the phase is Draining or Regenerating exactly then.
ExclusiveReload ==
    /\ \A d, e \in Active : d = e
    /\ state \in Resting <=> Active = {}

\* A failed regeneration is not forgotten: the coordinator is Ready only when
\* no error of an earlier one is pending, through cancelled drains too ("On
\* context cancel the prior phase (Ready or Degraded) is restored",
\* coordinator.go:54).
ReadyHasNoError ==
    state = "ready" => degraded = "nil"

\* The phase is owned by one reload and remembers a failed one.
PhaseSound == ExclusiveReload /\ ReadyHasNoError

\* A drain is not starved by new requests: BeginDrain ends, unless a request
\* has panicked; then it waits for its context.
DrainEnds ==
    \A d \in Drains : drain[d] = "waiting" ~> drain[d] # "waiting" \/ Leaked # {}

\* middleware.go:27: "WithReloadGate blocks invoke while the coordinator is
\* draining or regenerating".
NoInvokeWhileRegenerating ==
    state = "regenerating" => Inside = {}
=============================================================================
