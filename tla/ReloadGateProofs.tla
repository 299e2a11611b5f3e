-------------------------- MODULE ReloadGateProofs --------------------------
(***************************************************************************)
(* The safety properties of ReloadGate for any number of requests and      *)
(* reloads.                                                                *)
(***************************************************************************)
EXTENDS ReloadGate, FiniteSetTheorems, TLAPS

\* Which phase a BeginDrain call leaves behind, and what it will restore.
PhaseOwned ==
    \A d \in Drains :
        /\ drain[d] = "waiting" => state = "draining"
        /\ drain[d] = "drained" => state = "regenerating"
        /\ drain[d] = "waiting" /\ prior[d] = "ready" => degraded = "nil"

\* BeginDrain's goroutine sleeps on the count.
Asleep == \A d \in Drains : waiter[d] = "asleep" => inFlightN > 0

IInv ==
    /\ TypeOK
    /\ CountExact
    /\ Asleep
    /\ ExclusiveReload
    /\ PhaseOwned
    /\ ReadyHasNoError

\* Entering the backend call adds one to the number of requests it counts, and
\* leaving takes one away (TrackInFlight's two critical sections).
LEMMA InsideCounts ==
    ASSUME TypeOK, NEW i \in Invokes, NEW to,
           invoke' = [invoke EXCEPT ![i] = to]
    PROVE  LET counted(at) == at \in {"inside", "panicked"}
           IN  /\ Cardinality(Counted) \in Nat
               /\ counted(to) /\ ~counted(invoke[i]) => Cardinality(Counted') = Cardinality(Counted) + 1
               /\ ~counted(to) /\ counted(invoke[i]) => Cardinality(Counted') = Cardinality(Counted) - 1
               /\ (counted(to) <=> counted(invoke[i])) => Counted' = Counted
<1> DEFINE counted(at) == at \in {"inside", "panicked"}
<1>0. Counted = {j \in Invokes : counted(invoke[j])} /\ Counted' = {j \in Invokes : counted(invoke'[j])}
  BY DEF Counted, Inside, Leaked
<1>1. IsFiniteSet(Counted)
  BY <1>0, InvokesAssumption, FS_Subset
<1>2. Cardinality(Counted) \in Nat
  BY <1>1, FS_CardinalityType
<1>3. ASSUME counted(to), ~counted(invoke[i])
      PROVE  Cardinality(Counted') = Cardinality(Counted) + 1
  <2>1. Counted' = Counted \cup {i} /\ i \notin Counted
    BY <1>0, <1>3 DEF TypeOK
  <2>2. QED BY <2>1, <1>1, FS_AddElement, ZenonT(30)
<1>4. ASSUME ~counted(to), counted(invoke[i])
      PROVE  Cardinality(Counted') = Cardinality(Counted) - 1
  <2>1. Counted' = Counted \ {i} /\ i \in Counted
    BY <1>0, <1>4 DEF TypeOK
  <2>2. QED BY <2>1, <1>1, FS_RemoveElement, ZenonT(30)
<1>5. ASSUME counted(to) <=> counted(invoke[i])
      PROVE  Counted' = Counted
  BY <1>0, <1>5 DEF TypeOK
<1>6. QED BY <1>2, <1>3, <1>4, <1>5

\* NewCoordinator establishes the invariant.
LEMMA Initially == Init => IInv
<1> SUFFICES ASSUME Init PROVE IInv
  OBVIOUS
<1>1. TypeOK /\ Asleep /\ PhaseOwned /\ ReadyHasNoError
  BY DEF Init, TypeOK, Asleep, PhaseOwned, ReadyHasNoError, Resting
<1>2. ExclusiveReload
  BY DEF Init, ExclusiveReload, Active, Resting
<1>3. CountExact
  <2>1. Counted = {}
    BY DEF Init, Counted, Inside, Leaked
  <2>2. QED BY <2>1, FS_EmptySet DEF Init, CountExact
<1>4. QED BY <1>1, <1>2, <1>3 DEF IInv

\* Every step of a request keeps the invariant.
LEMMA InvokeSteps ==
    ASSUME IInv, NEW i \in Invokes,
           \/ WaitReady(i) \/ NotReady(i) \/ TrackInFlight(i) \/ LeaveInFlight(i)
           \/ Panics(i) \/ StreamEnds(i)
    PROVE  IInv'
<1> DEFINE counted(at) == at \in {"inside", "panicked"}
<1>1. PICK to \in {"admitted", "rejected", "inside", "streaming", "panicked", "done"} :
           /\ invoke' = [invoke EXCEPT ![i] = to]
           /\ \/ counted(to) /\ ~counted(invoke[i]) /\ inFlightN' = inFlightN + 1 /\ waiter' = waiter
              \/ ~counted(to) /\ counted(invoke[i]) /\ inFlightN' = inFlightN - 1 /\ waiter' = Woken
              \/ (counted(to) <=> counted(invoke[i])) /\ inFlightN' = inFlightN /\ waiter' = waiter
           /\ UNCHANGED <<state, degraded, generation, drain, prior>>
  <2>1. CASE WaitReady(i)
    BY <2>1 DEF WaitReady, coordVars, drainVars
  <2>2. CASE NotReady(i)
    BY <2>2 DEF NotReady, coordVars, drainVars
  <2>3. CASE TrackInFlight(i)
    BY <2>3 DEF TrackInFlight, drainVars
  <2>4. CASE LeaveInFlight(i)
    BY <2>4 DEF LeaveInFlight
  <2>5. CASE Panics(i)
    BY <2>5 DEF Panics, coordVars, drainVars
  <2>6. CASE StreamEnds(i)
    BY <2>6 DEF StreamEnds, coordVars, drainVars
  <2>7. QED BY <2>1, <2>2, <2>3, <2>4, <2>5, <2>6
<1>2. TypeOK'
  BY <1>1 DEF IInv, TypeOK, Woken
<1>3. CountExact'
  <2>1. TypeOK /\ inFlightN = Cardinality(Counted)
    BY DEF IInv, CountExact
  <2>2. /\ counted(to) /\ ~counted(invoke[i]) => Cardinality(Counted') = Cardinality(Counted) + 1
        /\ ~counted(to) /\ counted(invoke[i]) => Cardinality(Counted') = Cardinality(Counted) - 1
        /\ (counted(to) <=> counted(invoke[i])) => Counted' = Counted
    BY <1>1, <2>1, InsideCounts, ZenonT(30)
  <2>3. inFlightN' = Cardinality(Counted')
    BY <1>1, <2>1, <2>2
  <2>4. QED BY <2>3 DEF CountExact
<1>4. Asleep'
  BY <1>1 DEF IInv, Asleep, TypeOK, Woken
<1>5. ExclusiveReload' /\ PhaseOwned' /\ ReadyHasNoError'
  BY <1>1 DEF IInv, ExclusiveReload, PhaseOwned, ReadyHasNoError, Active
<1>6. QED BY <1>2, <1>3, <1>4, <1>5 DEF IInv

\* Every step of a reload keeps the invariant.
LEMMA DrainSteps ==
    ASSUME IInv, NEW d \in Drains,
           \/ BeginDrain(d) \/ CannotDrain(d) \/ AwaitInFlight(d) \/ DrainCancelled(d)
           \/ Drained(d) \/ SetReady(d) \/ SetDegraded(d)
    PROVE  IInv'
<1> USE DEF IInv
<1>0. invoke' = invoke /\ inFlightN' = inFlightN
  BY DEF BeginDrain, CannotDrain, AwaitInFlight, DrainCancelled, Drained, SetReady, SetDegraded, coordVars
<1>1. CountExact'
  BY <1>0 DEF CountExact, Counted, Inside, Leaked
<1>2. Asleep'
  BY <1>0 DEF Asleep, TypeOK, Woken, BeginDrain, CannotDrain, AwaitInFlight,
     DrainCancelled, Drained, SetReady, SetDegraded
<1>3. TypeOK'
  BY <1>0 DEF TypeOK, Woken, Resting, BeginDrain, CannotDrain, AwaitInFlight,
     DrainCancelled, Drained, SetReady, SetDegraded, coordVars
<1>4. ExclusiveReload' /\ PhaseOwned' /\ ReadyHasNoError'
  <2>1. CASE BeginDrain(d)
    BY <2>1 DEF BeginDrain, TypeOK, ExclusiveReload, PhaseOwned, ReadyHasNoError, Active, Resting
  <2>2. CASE CannotDrain(d) \/ AwaitInFlight(d)
    BY <2>2 DEF CannotDrain, AwaitInFlight, TypeOK, ExclusiveReload, PhaseOwned, ReadyHasNoError,
       Active, Resting, coordVars
  <2>3. CASE DrainCancelled(d)
    BY <2>3 DEF DrainCancelled, TypeOK, ExclusiveReload, PhaseOwned, ReadyHasNoError, Active, Resting
  <2>4. CASE Drained(d)
    BY <2>4 DEF Drained, TypeOK, ExclusiveReload, PhaseOwned, ReadyHasNoError, Active, Resting
  <2>5. CASE SetReady(d)
    BY <2>5 DEF SetReady, TypeOK, ExclusiveReload, PhaseOwned, ReadyHasNoError, Active, Resting
  <2>6. CASE SetDegraded(d)
    BY <2>6 DEF SetDegraded, TypeOK, ExclusiveReload, PhaseOwned, ReadyHasNoError, Active, Resting
  <2>7. QED BY <2>1, <2>2, <2>3, <2>4, <2>5, <2>6
<1>5. QED BY <1>1, <1>2, <1>3, <1>4

\* The invariant is inductive.
LEMMA Inductive == IInv /\ [Next]_vars => IInv'
<1> SUFFICES ASSUME IInv, [Next]_vars PROVE IInv'
  OBVIOUS
<1>1. CASE UNCHANGED vars
  BY <1>1 DEF vars, coordVars, drainVars, IInv, TypeOK, CountExact, Asleep,
     ExclusiveReload, PhaseOwned, ReadyHasNoError, Counted, Inside, Leaked, Active
<1>2. CASE Next
  BY <1>2, InvokeSteps, DrainSteps DEF Next
<1>3. QED BY <1>1, <1>2

LEMMA Invariance == Spec => []IInv
BY Initially, Inductive, PTL DEF Spec

\* The counter BeginDrain waits on is the number of requests in the backend,
\* and of those that panicked there.
THEOREM CountNeverDrifts == Spec => []CountExact
<1>1. IInv => CountExact
  BY DEF IInv
<1>2. QED BY <1>1, Invariance, PTL

\* The goroutine of BeginDrain misses no wake-up: it sleeps only while some
\* TrackInFlight that will broadcast is under way, or one has panicked.
THEOREM NoLostWakeup == Spec => []SleepersAreWoken
<1>1. IInv => SleepersAreWoken
  <2> SUFFICES ASSUME IInv, Inside = {}, Leaked = {}, NEW d \in Drains
               PROVE  waiter[d] # "asleep"
    BY DEF SleepersAreWoken
  <2>1. Counted = {}
    BY DEF Counted
  <2>2. inFlightN = 0
    BY <2>1, FS_EmptySet DEF IInv, CountExact
  <2>3. QED BY <2>2 DEF IInv, Asleep
<1>2. QED BY <1>1, Invariance, PTL

\* Two reloads never overlap, whatever callers call BeginDrain.
THEOREM OneReload == Spec => []ExclusiveReload
<1>1. IInv => ExclusiveReload
  BY DEF IInv
<1>2. QED BY <1>1, Invariance, PTL

\* Cancelling a drain never turns a Degraded coordinator into a Ready one.
THEOREM ErrorNotForgotten == Spec => []ReadyHasNoError
<1>1. IInv => ReadyHasNoError
  BY DEF IInv
<1>2. QED BY <1>1, Invariance, PTL

\* The phase belongs to one reload, and a failed one is not forgotten.
THEOREM PhaseIsSound == Spec => []PhaseSound
<1>1. ExclusiveReload /\ ReadyHasNoError => PhaseSound
  BY DEF PhaseSound
<1>2. QED BY <1>1, OneReload, ErrorNotForgotten, PTL

\* Every variable of the coordinator and its callers keeps its type.
THEOREM Typing == Spec => []TypeOK
<1>1. IInv => TypeOK
  BY DEF IInv
<1>2. QED BY <1>1, Invariance, PTL
=============================================================================
