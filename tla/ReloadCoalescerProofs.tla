------------------------ MODULE ReloadCoalescerProofs ------------------------
(***************************************************************************)
(* For every set of goroutines and every number of saves: no save is lost, *)
(* and, when no timer expires before runSync, reloads are serial and each     *)
(* step of the coalescer is a step of ReloadQueue.                         *)
(***************************************************************************)
EXTENDS ReloadCoalescer, TLAPS

\* Inside the coalescer a pending flag has an owner: schedule() sets it only
\* while running, and running is cleared by every goroutine that leaves.
Owned ==
    running => \E g \in Goroutines : Active(g)

\* The same for pending.  It cannot be weakened to pending => running: with
\* two goroutines inside fn the first to leave clears running.
Carried ==
    pending => \E g \in Goroutines : Active(g)

\* Every variable keeps its type whatever the goroutines do.
THEOREM Typing == Spec => []TypeOK
<1>1. Init => TypeOK
  <2> SUFFICES ASSUME Init PROVE TypeOK
    OBVIOUS
  <2>1. version \in Nat /\ built \in Nat /\ firing \in Nat
    BY DEF Init
  <2>2. gor \in [Goroutines -> {"idle", "ready", "fn", "done"}]
    BY DEF Init
  <2>3. /\ event \in BOOLEAN /\ armed \in BOOLEAN
        /\ running \in BOOLEAN /\ pending \in BOOLEAN
    BY Zenon DEF Init
  <2> QED
    BY <2>1, <2>2, <2>3 DEF TypeOK
<1>2. TypeOK /\ [Next]_vars => TypeOK'
  <2> SUFFICES ASSUME TypeOK, [Next]_vars PROVE TypeOK'
    OBVIOUS
  <2> USE DEF TypeOK, Goroutines
  <2>1. CASE SaveFile
    BY <2>1 DEF SaveFile, coalescerVars
  <2>2. CASE WatchEvent
    BY <2>2, Zenon DEF WatchEvent, coalescerVars
  <2>3. CASE DebounceFires
    <3>1. firing' \in Nat
      BY <2>3 DEF DebounceFires
    <3> QED
      BY <2>3, <3>1, Zenon DEF DebounceFires, coalescerVars
  <2>4. CASE schedule
    <3>1. firing' \in Nat
      BY <2>4 DEF schedule
    <3>2. gor' \in [Goroutines -> {"idle", "ready", "fn", "done"}]
      BY <2>4 DEF schedule
    <3>3. running' \in BOOLEAN /\ pending' \in BOOLEAN
      BY <2>4, Zenon DEF schedule
    <3> QED
      BY <2>4, <3>1, <3>2, <3>3, Zenon DEF schedule
  <2>5. CASE runSync
    BY <2>5 DEF runSync, watchVars
  <2>6. ASSUME NEW g \in Goroutines, BeginReload(g) PROVE TypeOK'
    BY <2>6 DEF BeginReload, watchVars
  <2>7. CASE runSyncReturn
    BY <2>7, ZenonT(30) DEF runSyncReturn, watchVars
  <2>8. ASSUME NEW l \in Loops, loopReturn(l) PROVE TypeOK'
    BY <2>8, ZenonT(30) DEF loopReturn, watchVars
  <2>9. CASE UNCHANGED vars
    BY <2>9 DEF vars, watchVars, coalescerVars
  <2> QED
    BY <2>1, <2>2, <2>3, <2>4, <2>5, <2>6, <2>7, <2>8, <2>9 DEF Next
<1> QED
  BY <1>1, <1>2, PTL DEF Spec

\* running and pending are never left behind with nobody to act on them: as
\* long as one is set, some goroutine will call fn or is inside it (schedule,
\* runSync, loop).
THEOREM Ownership == Spec => [](Owned /\ Carried)
<1>1. Init => Owned /\ Carried
  BY Zenon DEF Init, Owned, Carried
<1>2. TypeOK /\ Owned /\ Carried /\ [Next]_vars => (Owned /\ Carried)'
  <2> SUFFICES ASSUME TypeOK, Owned, Carried, [Next]_vars
               PROVE  (Owned /\ Carried)'
    OBVIOUS
  <2> USE DEF TypeOK, Goroutines, Owned, Carried, Active
  <2>1. CASE SaveFile \/ WatchEvent \/ DebounceFires \/ UNCHANGED vars
    <3>1. gor' = gor /\ running' = running /\ pending' = pending
      BY <2>1 DEF SaveFile, WatchEvent, DebounceFires, vars, coalescerVars
    <3> QED
      BY <3>1
  <2>2. CASE schedule
    <3>1. CASE running
      BY <2>2, <3>1, Zenon DEF schedule
    <3>2. CASE ~running
      <4>1. PICK l \in Loops : gor' = [gor EXCEPT ![l] = "ready"]
        BY <2>2, <3>2, Zenon DEF schedule
      <4>2. gor'[l] = "ready"
        BY <4>1
      <4> QED
        BY <4>2
    <3> QED
      BY <3>1, <3>2
  <2>3. CASE runSync
    <3>1. gor'[Main] = "ready"
      BY <2>3 DEF runSync
    <3> QED
      BY <3>1
  <2>4. ASSUME NEW g \in Goroutines, BeginReload(g) PROVE (Owned /\ Carried)'
    <3>1. gor'[g] = "fn"
      BY <2>4 DEF BeginReload
    <3> QED
      BY <3>1
  <2>5. CASE runSyncReturn
    <3>1. CASE pending
      <4>1. PICK l \in Loops :
              gor' = [gor EXCEPT ![Main] = "done", ![l] = "ready"]
        BY <2>5, <3>1, Zenon DEF runSyncReturn
      <4>2. gor'[l] = "ready"
        BY <4>1
      <4> QED
        BY <4>2
    <3>2. CASE ~pending
      <4>1. running' = FALSE /\ pending' = pending
        BY <2>5, <3>2 DEF runSyncReturn
      <4> QED
        BY <3>2, <4>1
    <3> QED
      BY <3>1, <3>2
  <2>6. ASSUME NEW l \in Loops, loopReturn(l) PROVE (Owned /\ Carried)'
    <3>1. CASE pending
      <4>1. gor'[l] = "ready"
        BY <2>6, <3>1 DEF loopReturn
      <4> QED
        BY <4>1
    <3>2. CASE ~pending
      <4>1. running' = FALSE /\ pending' = pending
        BY <2>6, <3>2 DEF loopReturn
      <4> QED
        BY <3>2, <4>1
    <3> QED
      BY <3>1, <3>2
  <2> QED
    BY <2>1, <2>2, <2>3, <2>4, <2>5, <2>6 DEF Next
<1> QED
  BY <1>1, <1>2, Typing, PTL DEF Spec

\* Nothing that the user saved is forgotten between the file system event and
\* the reload that reads it, for any number of goroutines and saves, and even
\* when callbacks race with runSync.
THEOREM NothingLost == Spec => []NoLostChange
<1>1. Init => NoLostChange
  BY DEF Init, NoLostChange, Goroutines
<1>2. TypeOK /\ Owned /\ Carried /\ NoLostChange /\ [Next]_vars => NoLostChange'
  <2> SUFFICES ASSUME TypeOK, Owned, Carried, NoLostChange, [Next]_vars,
                      built' < version'
               PROVE  \/ event' \/ armed' \/ firing' > 0
                      \/ gor'[Main] = "idle"
                      \/ \E g \in Goroutines : gor'[g] = "ready"
                      \/ pending' /\ \E g \in Goroutines : gor'[g] = "fn"
    BY DEF NoLostChange
  <2> USE DEF TypeOK, Goroutines
  <2>1. CASE SaveFile \/ WatchEvent
    BY <2>1, Zenon DEF SaveFile, WatchEvent
  <2>2. CASE DebounceFires
    BY <2>2 DEF DebounceFires
  <2>3. CASE schedule
    <3>1. CASE running
      <4>1. pending' /\ gor' = gor /\ built' = built /\ version' = version
        BY <2>3, <3>1, Zenon DEF schedule
      <4> QED
        BY <3>1, <4>1 DEF Owned, Active
    <3>2. CASE ~running
      <4>1. PICK l \in Loops : gor' = [gor EXCEPT ![l] = "ready"]
        BY <2>3, <3>2, Zenon DEF schedule
      <4>2. gor'[l] = "ready"
        BY <4>1
      <4> QED
        BY <4>2
    <3> QED
      BY <3>1, <3>2
  <2>4. CASE runSync
    <3>1. gor'[Main] = "ready"
      BY <2>4 DEF runSync
    <3> QED
      BY <3>1
  <2>5. ASSUME NEW g \in Goroutines, BeginReload(g) PROVE FALSE
    BY <2>5 DEF BeginReload
  <2>6. CASE runSyncReturn
    BY <2>6 DEF runSyncReturn, watchVars, NoLostChange
  <2>7. ASSUME NEW l \in Loops, loopReturn(l)
        PROVE  \/ event' \/ armed' \/ firing' > 0
               \/ gor'[Main] = "idle"
               \/ \E g \in Goroutines : gor'[g] = "ready"
    BY <2>7, MainAssumption DEF loopReturn, watchVars, NoLostChange
  <2>8. CASE UNCHANGED vars
    BY <2>8 DEF vars, watchVars, coalescerVars, NoLostChange
  <2> QED
    BY <2>1, <2>2, <2>3, <2>4, <2>5, <2>6, <2>7, <2>8, Zenon DEF Next
<1> QED
  BY <1>1, <1>2, Typing, Ownership, PTL DEF Spec

\* At most one goroutine is on its way into fn or inside it, running is set
\* exactly while there is one, and nothing runs and no callback is under way
\* before runSync.
OneAtATime ==
    /\ \A g, h \in Goroutines : Active(g) /\ Active(h) => g = h
    /\ \A g \in Goroutines : Active(g) => running
    /\ gor[Main] = "idle" => ~running /\ firing = 0

\* OneAtATime is the inductive form of Serial.
THEOREM OneAtATimeHolds == ~EarlyChange => (Spec => []OneAtATime)
<1> SUFFICES ASSUME ~EarlyChange PROVE Spec => []OneAtATime
  OBVIOUS
<1>1. Init => OneAtATime
  BY DEF Init, OneAtATime, Active, Goroutines
<1>2. TypeOK /\ OneAtATime /\ [Next]_vars => OneAtATime'
  <2> SUFFICES ASSUME TypeOK, OneAtATime, [Next]_vars PROVE OneAtATime'
    OBVIOUS
  <2> USE MainAssumption DEF TypeOK, Goroutines, OneAtATime, Active
  <2>1. CASE SaveFile \/ WatchEvent \/ DebounceFires \/ UNCHANGED vars
    <3>1. gor' = gor /\ running' = running
      BY <2>1 DEF SaveFile, WatchEvent, DebounceFires, vars, coalescerVars
    <3>2. gor[Main] = "idle" => firing' = firing
      BY <2>1 DEF SaveFile, WatchEvent, DebounceFires, vars, watchVars, coalescerVars
    <3> QED
      BY <3>1, <3>2
  <2>2. CASE schedule
    <3>0. gor[Main] # "idle"
      BY <2>2 DEF schedule
    <3>1. CASE running
      <4>1. gor' = gor /\ running' = running
        BY <2>2, <3>1, Zenon DEF schedule
      <4> QED
        BY <3>0, <4>1
    <3>2. CASE ~running
      <4>1. PICK l \in Loops : gor' = [gor EXCEPT ![l] = "ready"]
        BY <2>2, <3>2, Zenon DEF schedule
      <4>2. running'
        BY <2>2, <3>2, Zenon DEF schedule
      <4> QED
        BY <3>0, <3>2, <4>1, <4>2
    <3> QED
      BY <3>1, <3>2
  <2>3. CASE runSync
    BY <2>3 DEF runSync
  <2>4. ASSUME NEW g \in Goroutines, BeginReload(g) PROVE OneAtATime'
    <3>1. gor[g] = "ready" /\ gor' = [gor EXCEPT ![g] = "fn"]
      BY <2>4 DEF BeginReload
    <3>2. running' = running /\ firing' = firing
      BY <2>4 DEF BeginReload, watchVars
    <3> QED
      BY <3>1, <3>2
  <2>5. CASE runSyncReturn
    BY <2>5 DEF runSyncReturn, watchVars
  <2>6. ASSUME NEW l \in Loops, loopReturn(l) PROVE OneAtATime'
    BY <2>6 DEF loopReturn, watchVars
  <2> QED
    BY <2>1, <2>2, <2>3, <2>4, <2>5, <2>6 DEF Next
<1> QED
  BY <1>1, <1>2, Typing, PTL DEF Spec

\* Reloads are serial, as reload_coalescer.go promises, provided the
\* debounce timer does not expire before runSync has taken the lock.
THEOREM SerialReloads == ~EarlyChange => (Spec => []Serial)
<1>1. OneAtATime => Serial
  BY DEF OneAtATime, Serial, Active
<1> QED
  BY <1>1, OneAtATimeHolds, PTL

\* A reload never reads a version that has not been saved yet.
LEMMA BuiltIsSaved == Spec => [](built <= version)
<1>1. Init => built <= version
  BY DEF Init
<1>2. TypeOK /\ built <= version /\ [Next]_vars => (built <= version)'
  BY DEF TypeOK, Next, vars, watchVars, coalescerVars, SaveFile, WatchEvent,
         DebounceFires, schedule, runSync, BeginReload, runSyncReturn, loopReturn
<1> QED
  BY <1>1, <1>2, Typing, PTL DEF Spec

\* Every step of the watch-and-coalesce path is a Save, Start or Finish of
\* ReloadQueue or leaves it unchanged: reloads never overlap, and one that
\* starts picks up every save made before it.
THEOREM ImplementsQueue == ~EarlyChange => (Spec => QueueSafety)
<1> SUFFICES ASSUME ~EarlyChange PROVE Spec => QueueSafety
  OBVIOUS
<1>1. Init => Queue!Init
  BY DEF Init, Queue!Init, Goroutines
<1>2. TypeOK /\ OneAtATime /\ built <= version /\ [Next]_vars
        => [Queue!Next]_(Queue!vars)
  <2> SUFFICES ASSUME TypeOK, OneAtATime, built <= version, [Next]_vars
               PROVE  [Queue!Next]_(Queue!vars)
    OBVIOUS
  <2> DEFINE Busy == \E g \in Goroutines : gor[g] = "fn"
  <2> USE MainAssumption DEF TypeOK, Goroutines
  <2>1. CASE SaveFile
    <3>1. (built < version)' /\ gor' = gor
      BY <2>1 DEF SaveFile, coalescerVars
    <3> QED
      BY <3>1 DEF Queue!Next, Queue!Save
  <2>2. CASE WatchEvent \/ DebounceFires \/ UNCHANGED vars
    <3>1. built' = built /\ version' = version /\ gor' = gor
      BY <2>2 DEF WatchEvent, DebounceFires, vars, coalescerVars
    <3> QED
      BY <3>1 DEF Queue!vars
  <2>3. CASE schedule
    <3>1. built' = built /\ version' = version /\ (Busy' <=> Busy)
      BY <2>3 DEF schedule
    <3> QED
      BY <3>1 DEF Queue!vars
  <2>4. CASE runSync
    <3>1. built' = built /\ version' = version /\ (Busy' <=> Busy)
      BY <2>4 DEF runSync
    <3> QED
      BY <3>1 DEF Queue!vars
  <2>5. ASSUME NEW g \in Goroutines, BeginReload(g) PROVE Queue!Start
    <3>1. ~Busy
      BY <2>5 DEF BeginReload, OneAtATime, Active
    <3>2. Busy' /\ ~(built < version)'
      BY <2>5 DEF BeginReload
    <3> QED
      BY <3>1, <3>2 DEF Queue!Start
  <2>6. CASE runSyncReturn
    <3>1. Busy /\ built' = built /\ version' = version
      BY <2>6 DEF runSyncReturn
    <3>2. ~Busy'
      BY <2>6 DEF runSyncReturn, OneAtATime, Active
    <3> QED
      BY <3>1, <3>2 DEF Queue!Next, Queue!Finish
  <2>7. ASSUME NEW l \in Loops, loopReturn(l) PROVE Queue!Finish
    <3>1. Busy /\ built' = built /\ version' = version
      BY <2>7 DEF loopReturn
    <3>2. ~Busy'
      BY <2>7 DEF loopReturn, OneAtATime, Active
    <3> QED
      BY <3>1, <3>2 DEF Queue!Finish
  <2> QED
    BY <2>1, <2>2, <2>3, <2>4, <2>5, <2>6, <2>7 DEF Next, Queue!Next
<1> QED
  BY <1>1, <1>2, Typing, OneAtATimeHolds, BuiltIsSaved, PTL
     DEF Spec, QueueSafety

\* Reloads are serial and no save is lost, under the same condition.
THEOREM SerialAndLossless == ~EarlyChange => (Spec => []SerialAndComplete)
<1>1. Serial /\ NoLostChange => SerialAndComplete
  BY DEF SerialAndComplete
<1> QED
  BY <1>1, SerialReloads, NothingLost, PTL
==============================================================================
