--------------------------- MODULE ReloadCoalescer ---------------------------
(***************************************************************************)
(* The path from a saved .ft file to a reload in `forst dev`:              *)
(*   fsnotify event -> debounce timer -> onChange -> schedule() -> fn().   *)
(* Sources: forst/internal/devserver/watch.go (WatchPackageRoot,           *)
(* watchDebounce), reload_coalescer.go and the closures WatchRuntimeDev    *)
(* installs (runtime.go).                                                  *)
(*                                                                         *)
(* Goroutines: Main calls runSync once; every `go c.loop()` takes a fresh  *)
(* member of Loops; debounce callbacks are counted, not named, because     *)
(* they carry no state of their own into schedule().                       *)
(***************************************************************************)
EXTENDS Naturals, FiniteSets

CONSTANTS
    Main,         \* the goroutine that runs WatchRuntimeDev
    Loops,        \* identities for the goroutines started by `go c.loop()`
    MaxSaves,     \* bound: number of saves the user makes
    EarlyChange   \* may the debounce timer expire before Main has entered runSync?

ASSUME MainAssumption == Main \notin Loops
ASSUME MaxSavesAssumption == MaxSaves \in Nat
ASSUME EarlyChangeAssumption == EarlyChange \in BOOLEAN

VARIABLES
    version,   \* sources on disk: 1 at start-up, one more per save
    built,     \* the newest version a reload that started can have read
    event,     \* fsnotify has an event the watch loop has not taken
    armed,     \* the debounce timer is running
    firing,    \* onChange callbacks that have not reached schedule()
    running,   \* reloadCoalescer.running
    pending,   \* reloadCoalescer.pending
    gor        \* goroutine states: "ready" is about to call fn, "fn" is inside

watchVars == <<event, armed, firing>>
coalescerVars == <<running, pending, gor>>
vars == <<version, built, watchVars, coalescerVars>>

Goroutines == Loops \cup {Main}

TypeOK ==
    /\ version \in Nat
    /\ built \in Nat
    /\ event \in BOOLEAN
    /\ armed \in BOOLEAN
    /\ firing \in Nat
    /\ running \in BOOLEAN
    /\ pending \in BOOLEAN
    /\ gor \in [Goroutines -> {"idle", "ready", "fn", "done"}]

Init ==
    /\ version = 1
    /\ built = 0
    /\ event = FALSE
    /\ armed = FALSE
    /\ firing = 0
    /\ running = FALSE
    /\ pending = FALSE
    /\ gor = [g \in Goroutines |-> "idle"]

Active(g) == gor[g] \in {"ready", "fn"}

------------------------------------------------------------------------------
\* The user writes a watched .ft file; fsnotify queues an event for it.
SaveFile ==
    /\ version <= MaxSaves
    /\ version' = version + 1
    /\ event' = TRUE
    /\ UNCHANGED <<built, armed, firing, coalescerVars>>

\* The watch loop takes the event; trigger() stops the old timer, if it has
\* not fired, and starts a new one.
WatchEvent ==
    /\ event
    /\ event' = FALSE
    /\ armed' = TRUE
    /\ UNCHANGED <<version, built, firing, coalescerVars>>

\* The timer expires: its callback runs on a goroutine of its own, so several
\* callbacks may be under way at once.  Main starts the watcher and calls
\* runSync next, with nothing in between, while the timer takes 100 ms: that it
\* does not expire first is an assumption about time, which EarlyChange drops.
DebounceFires ==
    /\ armed
    /\ EarlyChange \/ gor[Main] # "idle"
    /\ armed' = FALSE
    /\ firing' = firing + 1
    /\ UNCHANGED <<version, built, event, coalescerVars>>

------------------------------------------------------------------------------
\* Mutant: schedule() forgets to look at running.
ScheduleIgnoresRunning ==
    /\ firing > 0
    /\ firing' = firing - 1
    /\ running' = TRUE
    /\ \E l \in Loops :
          /\ gor[l] = "idle"
          /\ gor' = [gor EXCEPT ![l] = "ready"]
    /\ UNCHANGED <<version, built, event, armed, pending>>

\* Mutant: schedule() returns without setting pending when a reload runs.
ScheduleDropsBurst ==
    /\ firing > 0
    /\ firing' = firing - 1
    /\ running' = TRUE
    /\ \/ running /\ UNCHANGED gor
       \/ /\ ~running
          /\ \E l \in Loops :
                /\ gor[l] = "idle"
                /\ gor' = [gor EXCEPT ![l] = "ready"]
    /\ UNCHANGED <<version, built, event, armed, pending>>

\* schedule(): mark a follow-up when a reload is running, else start a loop.
schedule ==
    /\ firing > 0
    /\ firing' = firing - 1
    /\ \/ /\ running
          /\ pending' = TRUE
          /\ UNCHANGED <<running, gor>>
       \/ /\ ~running
          /\ running' = TRUE
          /\ \E l \in Loops :
                /\ gor[l] = "idle"
                /\ gor' = [gor EXCEPT ![l] = "ready"]
          /\ UNCHANGED pending
    /\ UNCHANGED <<version, built, event, armed>>

\* runSync(), first critical section: running is set whatever it was.
runSync ==
    /\ gor[Main] = "idle"
    /\ running' = TRUE
    /\ gor' = [gor EXCEPT ![Main] = "ready"]
    /\ UNCHANGED <<version, built, watchVars, pending>>

\* A goroutine calls fn: the reload reads the sources as they are from here on.
BeginReload(g) ==
    /\ gor[g] = "ready"
    /\ gor' = [gor EXCEPT ![g] = "fn"]
    /\ built' = version
    /\ UNCHANGED <<version, watchVars, running, pending>>

\* Mutant: the deferred section of runSync forgets the follow-up loop.
RunSyncForgetsPending ==
    /\ gor[Main] = "fn"
    /\ running' = FALSE
    /\ gor' = [gor EXCEPT ![Main] = "done"]
    /\ UNCHANGED <<version, built, watchVars, pending>>

\* runSync(), the deferred critical section after fn returns on Main.
runSyncReturn ==
    /\ gor[Main] = "fn"
    /\ \/ /\ pending
          /\ pending' = FALSE
          /\ \E l \in Loops :
                /\ gor[l] = "idle"
                /\ gor' = [gor EXCEPT ![Main] = "done", ![l] = "ready"]
          /\ UNCHANGED running
       \/ /\ ~pending
          /\ running' = FALSE
          /\ gor' = [gor EXCEPT ![Main] = "done"]
          /\ UNCHANGED pending
    /\ UNCHANGED <<version, built, watchVars>>

\* Mutant: loop() clears pending on its way out instead of running again.
LoopClearsPending(l) ==
    /\ gor[l] = "fn"
    /\ pending' = FALSE
    /\ running' = FALSE
    /\ gor' = [gor EXCEPT ![l] = "idle"]
    /\ UNCHANGED <<version, built, watchVars>>

\* loop(), the critical section after fn returns on a loop goroutine.
loopReturn(l) ==
    /\ gor[l] = "fn"
    /\ \/ /\ pending
          /\ pending' = FALSE
          /\ gor' = [gor EXCEPT ![l] = "ready"]
          /\ UNCHANGED running
       \/ /\ ~pending
          /\ running' = FALSE
          /\ gor' = [gor EXCEPT ![l] = "idle"]
          /\ UNCHANGED pending
    /\ UNCHANGED <<version, built, watchVars>>

------------------------------------------------------------------------------
Next ==
    \/ SaveFile
    \/ WatchEvent
    \/ DebounceFires
    \/ schedule
    \/ runSync
    \/ \E g \in Goroutines : BeginReload(g)
    \/ runSyncReturn
    \/ \E l \in Loops : loopReturn(l)

\* Timers fire, runnable goroutines run, and fn returns: every wait inside a
\* reload has a deadline.  Nothing makes the user save.
Fairness ==
    /\ WF_vars(WatchEvent)
    /\ WF_vars(DebounceFires)
    /\ WF_vars(schedule)
    /\ WF_vars(runSync)
    /\ \A g \in Goroutines : WF_vars(BeginReload(g))
    /\ WF_vars(runSyncReturn)
    /\ \A l \in Loops : WF_vars(loopReturn(l))

Spec == Init /\ [][Next]_vars

FairSpec == Spec /\ Fairness

------------------------------------------------------------------------------
\* reload_coalescer.go: "runs fn serially": never two goroutines inside fn.
Serial ==
    \A g, h \in Goroutines : gor[g] = "fn" /\ gor[h] = "fn" => g = h

\* A save that no started reload can have read is still on its way: an event,
\* a timer, a callback, a goroutine about to call fn, or a pending flag that
\* some goroutine inside fn will find when it returns (loop, runSync).
NoLostChange ==
    built < version =>
        \/ event \/ armed \/ firing > 0
        \/ gor[Main] = "idle"
        \/ \E g \in Goroutines : gor[g] = "ready"
        \/ pending /\ \E g \in Goroutines : gor[g] = "fn"

\* Reloads are serial and no save is lost (schedule, runSync, loop).
SerialAndComplete == Serial /\ NoLostChange

\* Every save is eventually read by a reload that starts after it.
EverySaveReloaded ==
    \A n \in 1..(MaxSaves + 1) : (version >= n) ~> (built >= n)

\* The coalescer implements ReloadQueue.
Queue == INSTANCE ReloadQueue WITH
    dirty <- built < version,
    busy <- \E g \in Goroutines : gor[g] = "fn"

QueueSpec == Queue!Spec

\* Its safety part: the initial state, and every step a queue step or a stutter.
QueueSafety == Queue!Init /\ [][Queue!Next]_(Queue!vars)
==============================================================================
