------------------------------ MODULE DevReload ------------------------------
(***************************************************************************)
(* `forst dev` in watch mode: reloads of the Go child, the marker files    *)
(* under .forst/, graceful shutdown, and crashes of forst dev itself.      *)
(* Sources: forst/internal/devserver/runtime.go (WatchRuntimeDev,          *)
(* performDevReload, performDevShutdown), child_pid.go, reload_gate.go,    *)
(* watch.go (stopForReload), compiler/run_background.go.                   *)
(*                                                                         *)
(* Reloads come one at a time, which ReloadCoalescer establishes, so the   *)
(* reload goroutine is one process here; the files on disk and the Go      *)
(* children outlive a crash of forst dev.  Pids are never reused.          *)
(***************************************************************************)
EXTENDS Naturals, FiniteSets

CONSTANTS
    AutoRestart,         \* dev.autoRestart
    MaxPid,              \* bound: Go children started over all sessions
    MaxSaves,            \* bound: saves that ask for a reload
    MaxCrashes           \* bound: crashes of forst dev

ASSUME BoundsAssumption == MaxPid \in Nat /\ MaxSaves \in Nat /\ MaxCrashes \in Nat

VARIABLES
    \* on disk
    marker,    \* .forst/reloading exists
    ready,     \* pid in .forst/invoke.ready, 0 when absent
    pidfile,   \* pid in .forst/go-child.pid, 0 when absent
    \* processes
    alive,     \* live Go children
    unserved,  \* those of them whose invoke server has not started
    nextPid,
    old,       \* children started by earlier sessions
    session,   \* forst dev: "boot", "up", "exited" or "crashed"
    \* memory of forst dev
    child,     \* the atomic child pointer, 0 when nil
    rl,        \* the step of performDevReload
    cur, next, \* its locals child and next
    first,     \* the initial reload, which main runs itself, has not returned
    dirty,     \* a reload is owed
    sd,        \* the step of the shutdown goroutine
    sdChild,   \* the child it loaded
    \* history
    raced,     \* Ctrl-C overlapped a reload, a crash left a child that is not
               \* recorded, or an orphan could not be terminated
    saves, crashes

disk == <<marker, ready, pidfile>>
procs == <<alive, unserved, nextPid, old>>
reloadVars == <<child, rl, cur, next, first, dirty>>
shutdownVars == <<sd, sdChild>>
bounds == <<saves, crashes>>
vars == <<disk, procs, session, reloadVars, shutdownVars, raced, bounds>>

Steps == {"idle", "marked", "compile", "reap", "stop", "clear", "start",
          "record", "unmark", "wait", "confirmed", "return"}
Pids == 0..MaxPid

TypeOK ==
    /\ marker \in BOOLEAN
    /\ {ready, pidfile, child, cur, next, sdChild} \subseteq Pids
    /\ alive \subseteq 1..MaxPid
    /\ unserved \subseteq 1..MaxPid
    /\ old \subseteq 1..MaxPid
    /\ nextPid \in 1..(MaxPid + 1)
    /\ session \in {"boot", "up", "exited", "crashed"}
    /\ rl \in Steps
    /\ first \in BOOLEAN
    /\ dirty \in BOOLEAN
    /\ sd \in {"waiting", "stop", "clear", "unready", "closed"}
    /\ raced \in BOOLEAN
    /\ saves \in 0..MaxSaves
    /\ crashes \in 0..MaxCrashes

Init ==
    /\ marker = FALSE
    /\ ready = 0 /\ pidfile = 0
    /\ alive = {} /\ unserved = {} /\ old = {}
    /\ nextPid = 1
    /\ session = "boot"
    /\ child = 0 /\ cur = 0 /\ next = 0 /\ sdChild = 0
    /\ rl = "idle" /\ sd = "waiting"
    /\ first = TRUE /\ dirty = TRUE
    /\ raced = FALSE
    /\ saves = 0 /\ crashes = 0

\* proc.Stop: SIGTERM, the grace period, SIGKILL; the process is gone after it.
Kill(p) ==
    /\ alive' = alive \ {p}
    /\ unserved' = unserved \ {p}
    /\ UNCHANGED <<nextPid, old>>

\* Mutant: the pid file is removed and the orphan left running.
ReapFileOnly(current) ==
    IF pidfile = 0 \/ pidfile = current
    THEN UNCHANGED <<pidfile, procs, raced>>
    ELSE UNCHANGED <<procs, raced>> /\ pidfile' = 0

\* ReapOrphanedGoChild: a recorded pid that is not the current child is
\* terminated if it is alive, and the file is removed, also when
\* TerminateHostPID failed: its error is only logged.
ReapOrphanedGoChild(current) ==
    IF pidfile = 0 \/ pidfile = current
    THEN UNCHANGED <<pidfile, procs, raced>>
    ELSE /\ pidfile' = 0
         /\ \/ Kill(pidfile) /\ UNCHANGED raced
            \/ pidfile \in alive /\ raced' = TRUE /\ UNCHANGED procs

------------------------------------------------------------------------------
\* Mutant: no orphan is reaped when a session starts.
BootWithoutReap ==
    /\ session = "boot"
    /\ session' = "up"
    /\ UNCHANGED <<disk, procs, reloadVars, shutdownVars, raced, bounds>>

\* WatchRuntimeDev up to the point where its goroutines run.
Boot ==
    /\ session = "boot"
    /\ ReapOrphanedGoChild(0)
    /\ session' = "up"
    /\ UNCHANGED <<marker, ready, reloadVars, shutdownVars, bounds>>

\* A save asks for a reload (ReloadCoalescer).
Save ==
    /\ session = "up"
    /\ saves < MaxSaves
    /\ saves' = saves + 1
    /\ dirty' = TRUE
    /\ UNCHANGED <<disk, procs, session, child, rl, cur, next, first, shutdownVars, raced, crashes>>

At(step) == session = "up" /\ rl = step

\* performDevReload returns c: the marker is gone, runReload stores the pointer.
ReturnChild(c) ==
    /\ cur' = c
    /\ rl' = "return"

\* runReload loads the pointer; MarkReloading(true) writes the marker.
Begin ==
    /\ At("idle")
    /\ dirty
    /\ raced' = (raced \/ sd # "waiting")
    /\ dirty' = FALSE
    /\ cur' = child
    /\ next' = 0
    /\ marker' = TRUE
    /\ rl' = "marked"
    /\ UNCHANGED <<ready, pidfile, procs, session, child, first, shutdownVars, bounds>>

RemoveInvokeReady ==
    /\ At("marked")
    /\ ready' = 0
    /\ rl' = "compile"
    /\ UNCHANGED <<marker, pidfile, procs, session, child, cur, next, first, dirty,
                   shutdownVars, raced, bounds>>

\* Mutant: the marker is not cleared when the compile fails.
CompileFailKeepsMarker ==
    /\ At("compile")
    /\ ReturnChild(cur)
    /\ UNCHANGED <<disk, procs, session, child, next, first, dirty, shutdownVars, raced, bounds>>

\* The compile fails, or autoRestart is off: the old child is kept.
CompileOnly ==
    /\ At("compile")
    /\ marker' = FALSE
    /\ ReturnChild(cur)
    /\ UNCHANGED <<ready, pidfile, procs, session, child, next, first, dirty,
                   shutdownVars, raced, bounds>>

CompileOk ==
    /\ At("compile")
    /\ AutoRestart
    /\ rl' = "reap"
    /\ UNCHANGED <<disk, procs, session, child, cur, next, first, dirty,
                   shutdownVars, raced, bounds>>

Reap ==
    /\ At("reap")
    /\ ReapOrphanedGoChild(cur)
    /\ rl' = IF cur = 0 THEN "start" ELSE "stop"
    /\ UNCHANGED <<marker, ready, session, child, cur, next, first, dirty,
                   shutdownVars, bounds>>

\* Mutant: the old child is forgotten instead of stopped.
ForgetOld ==
    /\ At("stop")
    /\ rl' = "clear"
    /\ UNCHANGED <<disk, procs, session, child, cur, next, first, dirty, shutdownVars, raced, bounds>>

\* stopForReload: stop the old child, then ClearGoChildPID.
StopOld ==
    /\ At("stop")
    /\ Kill(cur)
    /\ rl' = "clear"
    /\ UNCHANGED <<disk, session, child, cur, next, first, dirty, shutdownVars, raced, bounds>>

ClearOld ==
    /\ At("clear")
    /\ pidfile' = 0
    /\ cur' = 0
    /\ rl' = "start"
    /\ UNCHANGED <<marker, ready, procs, session, child, next, first, dirty,
                   shutdownVars, raced, bounds>>

\* No free port, or StartProgram fails.
StartFails ==
    /\ At("start")
    /\ marker' = FALSE
    /\ ReturnChild(cur)
    /\ UNCHANGED <<ready, pidfile, procs, session, child, next, first, dirty,
                   shutdownVars, raced, bounds>>

StartProgram ==
    /\ At("start")
    /\ nextPid <= MaxPid
    /\ next' = nextPid
    /\ alive' = alive \cup {nextPid}
    /\ unserved' = unserved \cup {nextPid}
    /\ nextPid' = nextPid + 1
    /\ rl' = "record"
    /\ UNCHANGED <<disk, old, session, child, cur, first, dirty, shutdownVars, raced, bounds>>

\* Mutant: the pid of forst dev itself, which is no child, is recorded.
RecordOwnPid ==
    /\ At("record")
    /\ pidfile' = MaxPid + 1
    /\ rl' = "unmark"
    /\ UNCHANGED <<marker, ready, procs, session, child, cur, next, first, dirty,
                   shutdownVars, raced, bounds>>

\* Writing go-child.pid is best effort: an error leaves the file as it was.
recordStartedChild ==
    /\ At("record")
    /\ pidfile' \in {next, pidfile}
    /\ rl' = "unmark"
    /\ UNCHANGED <<marker, ready, procs, session, child, cur, next, first, dirty,
                   shutdownVars, raced, bounds>>

Unmark ==
    /\ At("unmark")
    /\ marker' = FALSE
    /\ rl' = "wait"
    /\ UNCHANGED <<ready, pidfile, procs, session, child, cur, next, first, dirty,
                   shutdownVars, raced, bounds>>

\* WaitForInvokeReady: invoke.ready exists and the server it names is healthy.
InvokeReady ==
    /\ At("wait")
    /\ ready \in alive
    /\ cur' = next
    /\ rl' = "confirmed"
    /\ UNCHANGED <<disk, procs, session, child, next, first, dirty, shutdownVars, raced, bounds>>

\* WaitForInvokeReady gives up: the child exited or the deadline passed.
NotReady ==
    /\ At("wait")
    /\ Kill(next)
    /\ ReturnChild(cur)
    /\ UNCHANGED <<disk, session, child, next, first, dirty, shutdownVars, raced, bounds>>

\* The AfterReload hook and monitorChildExit; neither touches this state.
Confirmed ==
    /\ At("confirmed")
    /\ ReturnChild(cur)
    /\ UNCHANGED <<disk, procs, session, child, next, first, dirty, shutdownVars, raced, bounds>>

\* runReload: child.Store(next).
StoreChild ==
    /\ At("return")
    /\ child' = cur
    /\ cur' = 0
    /\ next' = 0
    /\ first' = FALSE
    /\ rl' = "idle"
    /\ UNCHANGED <<disk, procs, session, dirty, shutdownVars, raced, bounds>>

Reload ==
    \/ Begin \/ RemoveInvokeReady \/ CompileOnly \/ CompileOk \/ Reap \/ StopOld
    \/ ClearOld \/ StartFails \/ StartProgram \/ recordStartedChild \/ Unmark
    \/ InvokeReady \/ NotReady \/ Confirmed \/ StoreChild

------------------------------------------------------------------------------
\* The embedded invoke server of a child is up and writes invoke.ready.
ChildServes(p) ==
    /\ p \in unserved
    /\ unserved' = unserved \ {p}
    /\ ready' = p
    /\ UNCHANGED <<marker, pidfile, alive, nextPid, old, session, reloadVars,
                   shutdownVars, raced, bounds>>

\* A child exits by itself.
ChildExits(p) ==
    /\ p \in alive
    /\ Kill(p)
    /\ UNCHANGED <<disk, session, reloadVars, shutdownVars, raced, bounds>>

------------------------------------------------------------------------------
\* Ctrl-C: the shutdown goroutine loads the child pointer ...
Signal ==
    /\ session = "up"
    /\ sd = "waiting"
    /\ raced' = (raced \/ rl # "idle")
    /\ sdChild' = child
    /\ sd' = "stop"
    /\ UNCHANGED <<disk, procs, session, reloadVars, bounds>>

\* Mutant: shutdown does not stop the child.
ShutdownSkipsStop ==
    /\ session = "up"
    /\ sd = "stop"
    /\ sd' = "clear"
    /\ UNCHANGED <<disk, procs, session, reloadVars, sdChild, raced, bounds>>

\* ... and performDevShutdown stops it, if any, ...
ShutdownStop ==
    /\ session = "up"
    /\ sd = "stop"
    /\ IF sdChild = 0 THEN UNCHANGED procs ELSE Kill(sdChild)
    /\ sd' = "clear"
    /\ UNCHANGED <<disk, session, reloadVars, sdChild, raced, bounds>>

\* ... removes go-child.pid, ...
ShutdownClear ==
    /\ session = "up"
    /\ sd = "clear"
    /\ pidfile' = 0
    /\ sd' = "unready"
    /\ UNCHANGED <<marker, ready, procs, session, reloadVars, sdChild, raced, bounds>>

\* Mutant: close(stopCh) is missing.
ShutdownNeverCloses ==
    /\ session = "up"
    /\ sd = "unready"
    /\ ready' = 0
    /\ UNCHANGED <<marker, pidfile, procs, session, reloadVars, shutdownVars, raced, bounds>>

\* ... and invoke.ready, and closes stopCh.
ShutdownUnready ==
    /\ session = "up"
    /\ sd = "unready"
    /\ ready' = 0
    /\ sd' = "closed"
    /\ UNCHANGED <<marker, pidfile, procs, session, reloadVars, sdChild, raced, bounds>>

Shutdown == Signal \/ ShutdownStop \/ ShutdownClear \/ ShutdownUnready

\* What a fresh forst dev process finds in its memory.
FreshMemory ==
    /\ child' = 0 /\ cur' = 0 /\ next' = 0 /\ sdChild' = 0
    /\ rl' = "idle" /\ sd' = "waiting"
    /\ first' = TRUE /\ dirty' = TRUE

\* WatchRuntimeDev returns once the watch loop has ended; main itself runs the
\* initial reload, but a reload on a loop goroutine dies with the process.
Exit ==
    /\ session = "up"
    /\ sd = "closed"
    /\ ~first
    /\ session' = "exited"
    /\ FreshMemory
    /\ UNCHANGED <<disk, procs, raced, bounds>>

\* forst dev is killed at any step of a reload.
Crash ==
    /\ session = "up"
    /\ crashes < MaxCrashes
    /\ crashes' = crashes + 1
    /\ session' = "crashed"
    /\ raced' = (raced \/ ~(alive \subseteq {pidfile}))
    /\ FreshMemory
    /\ UNCHANGED <<disk, procs, saves>>

\* The user starts forst dev again in the same project.
Restart ==
    /\ session \in {"crashed", "exited"}
    /\ session' = "boot"
    /\ old' = alive
    /\ UNCHANGED <<disk, alive, unserved, nextPid, reloadVars, shutdownVars, raced, bounds>>

Next ==
    \/ Boot \/ Save \/ Reload \/ Shutdown \/ Exit \/ Crash \/ Restart
    \/ \E p \in alive : ChildServes(p) \/ ChildExits(p)

Spec == Init /\ [][Next]_vars

\* Reload and shutdown goroutines keep running: every wait in them has a
\* deadline.  Nobody has to save, press Ctrl-C, crash or restart.
FairSpec ==
    /\ Spec
    /\ WF_vars(Boot) /\ WF_vars(Reload) /\ WF_vars(Exit)
    /\ WF_vars(ShutdownStop \/ ShutdownClear \/ ShutdownUnready)

------------------------------------------------------------------------------
\* A running forst dev never has two Go children alive: the old one is stopped
\* and orphans are reaped before StartProgram, so the invoke port is free.
\* This and the next two hold until Ctrl-C overlaps a reload, a crash leaves a
\* child that go-child.pid does not name, or the system refuses to end one.
OneServer ==
    session = "up" /\ ~raced => Cardinality(alive) <= 1

\* ReapOrphanedGoChild "terminates a stale go child from a prior forst dev
\* session" (child_pid.go:71): once a session is past start-up no child of an
\* earlier one lives.
StaleChildReaped ==
    session = "up" /\ ~raced => alive \cap old = {}

\* A graceful exit leaves no child and no marker of one: performDevShutdown
\* "stops the go child, node host, and dev markers on exit" (runtime.go:30).
\* Not claimed, because it does not hold: a Ctrl-C that overlaps a reload may
\* leave the child that the reload starts (raced).
CleanExit ==
    session = "exited" /\ ~raced => alive = {} /\ pidfile = 0 /\ ready = 0

\* When performDevReload reports that the invoke server is ready, invoke.ready
\* names the child this reload started and not a leftover.
FreshReady ==
    rl = "confirmed" /\ ~raced => ready = next

\* Between reloads the reloading marker is gone, whatever a reload or an
\* earlier session did, so the invoke server does not answer 503 for ever.
MarkerOnlyWhileReloading ==
    session = "up" /\ rl = "idle" /\ ~first => ~marker

\* At most one Go child lives, and none of an earlier session.
ChildrenAccounted == OneServer /\ StaleChildReaped
\* The marker files say what is so: readiness is the new child's and the
\* reloading marker goes away (performDevReload).
MarkersTrue == FreshReady /\ MarkerOnlyWhileReloading

\* Ctrl-C ends the session even when a reload is under way.
ShutdownExits ==
    (sd # "waiting") ~> (session # "up")
==============================================================================
