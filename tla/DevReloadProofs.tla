--------------------------- MODULE DevReloadProofs ---------------------------
(***************************************************************************)
(* For any number of children, saves and crashes: one Go child at a time,  *)
(* none of an earlier session, a clean exit, and marker files that tell    *)
(* the truth.                                                              *)
(***************************************************************************)
EXTENDS DevReload, FiniteSetTheorems, TLAPS

\* Only children that were started live, serve or are remembered.
PidsStarted ==
    /\ unserved \subseteq alive
    /\ alive \subseteq 1..(nextPid - 1)
    /\ old \subseteq 1..(nextPid - 1)

\* A forst dev that is not running has no memory.
MemoryFresh ==
    session # "up" =>
        /\ child = 0 /\ cur = 0 /\ next = 0 /\ sdChild = 0
        /\ rl = "idle" /\ sd = "waiting" /\ first

\* Every way out of a reload has removed the reloading marker.
MarkerCleared ==
    session = "up" =>
        /\ rl \in {"wait", "confirmed", "return"} => ~marker
        /\ rl = "idle" /\ ~first => ~marker

\* The only child that can be alive is the one this step of the reload knows.
KnownToReload ==
    /\ rl = "idle" => alive \subseteq {child}
    /\ rl \in {"marked", "compile", "reap", "stop", "confirmed", "return"} => alive \subseteq {cur}
    /\ rl \in {"clear", "start"} => alive = {}
    /\ rl \in {"record", "unmark", "wait", "confirmed"} => alive \subseteq {next}
    /\ rl \in {"start", "record", "unmark", "wait"} => cur = 0
    /\ rl = "confirmed" => ready = next

\* What the shutdown goroutine has already done stays done.
ShutdownDone ==
    /\ sd # "waiting" => rl = "idle" /\ sdChild = child
    /\ sd \in {"clear", "unready", "closed"} => alive = {}
    /\ sd \in {"unready", "closed"} => pidfile = 0
    /\ sd = "closed" => ready = 0

\* A child that outlives its forst dev is the one go-child.pid names, so the
\* next session can find it.
Recorded == session # "up" => alive \subseteq {pidfile}

\* What no signal and no crash disturbs unless it falls into a reload's window.
Undisturbed ==
    /\ Recorded
    /\ session = "exited" => alive = {} /\ pidfile = 0 /\ ready = 0
    /\ session = "up" => KnownToReload /\ ShutdownDone /\ alive \cap old = {}

IInv ==
    /\ TypeOK /\ PidsStarted /\ MemoryFresh /\ MarkerCleared
    /\ ~raced => Undisturbed

\* No child, no file and no marker exists before the first session.
LEMMA Initially == Init => IInv
<1> SUFFICES ASSUME Init PROVE IInv
  OBVIOUS
<1>1. marker \in BOOLEAN /\ first \in BOOLEAN /\ dirty \in BOOLEAN /\ raced \in BOOLEAN
  BY Zenon DEF Init
<1>2. TypeOK
  BY <1>1, BoundsAssumption, SMT DEF Init, TypeOK, Pids, Steps
<1>3. MemoryFresh
  BY Zenon DEF Init, MemoryFresh
<1>4. PidsStarted /\ MarkerCleared /\ Undisturbed
  BY DEF Init, PidsStarted, MarkerCleared, Undisturbed, Recorded
<1> QED
  BY <1>2, <1>3, <1>4 DEF IInv

\* Every step of forst dev, its reload, its child and a crash keeps IInv.
LEMMA Inductive == IInv /\ [Next]_vars => IInv'
<1> SUFFICES ASSUME IInv, [Next]_vars PROVE IInv'
  OBVIOUS
<1> USE BoundsAssumption
    DEF IInv, TypeOK, PidsStarted, MemoryFresh, MarkerCleared, Undisturbed, Recorded,
        KnownToReload, ShutdownDone, Pids, Steps, At, disk, procs, reloadVars,
        shutdownVars, bounds
<1>1. ASSUME Boot PROVE IInv'
  <2>1. CASE pidfile = 0
    <3>1. ~raced => alive = {}
      BY <1>1, <2>1 DEF Boot
    <3> QED
      BY <1>1, <2>1, <3>1, ZenonT(30) DEF Boot, ReapOrphanedGoChild
  <2>2. CASE pidfile # 0 /\ Kill(pidfile) /\ UNCHANGED raced /\ pidfile' = 0
    BY <1>1, <2>2, ZenonT(30) DEF Boot, Kill
  <2>3. CASE raced' /\ UNCHANGED procs /\ pidfile' = 0
    BY <1>1, <2>3, ZenonT(30) DEF Boot
  <2> QED
    BY <1>1, <2>1, <2>2, <2>3, Zenon DEF Boot, ReapOrphanedGoChild
<1>2. ASSUME Save PROVE IInv'
  BY <1>2 DEF Save
<1>3. ASSUME Begin PROVE IInv'
  <2>1. marker' \in BOOLEAN /\ dirty' \in BOOLEAN /\ raced' \in BOOLEAN
    BY <1>3, Zenon DEF Begin
  <2>2. (~raced)' => ~raced /\ sd = "waiting"
    BY <1>3, Zenon DEF Begin
  <2> QED
    BY <1>3, <2>1, <2>2 DEF Begin
<1>4. ASSUME RemoveInvokeReady PROVE IInv'
  BY <1>4 DEF RemoveInvokeReady
<1>5. ASSUME CompileOnly PROVE IInv'
  BY <1>5, ZenonT(30) DEF CompileOnly, ReturnChild
<1>6. ASSUME CompileOk PROVE IInv'
  BY <1>6 DEF CompileOk
<1>7. ASSUME Reap PROVE IInv'
  <2>1. CASE UNCHANGED <<pidfile, procs, raced>>
    <3>1. ~raced /\ cur = 0 => alive = {}
      BY <1>7 DEF Reap
    <3> QED
      BY <1>7, <2>1, <3>1 DEF Reap
  <2>2. CASE Kill(pidfile) /\ UNCHANGED raced /\ pidfile' = 0
    <3>1. /\ alive' = alive \ {pidfile} /\ unserved' = unserved \ {pidfile}
          /\ UNCHANGED <<nextPid, old, raced>> /\ pidfile' = 0
      BY <2>2 DEF Kill
    <3>2. ~raced => alive' \subseteq {cur} /\ (cur = 0 => alive' = {})
      <4>1. ~raced => alive \subseteq {cur}
        BY <1>7 DEF Reap
      <4>2. cur = 0 => cur \notin alive
        OBVIOUS
      <4> QED
        BY <3>1, <4>1, <4>2, Zenon
    <3>3. ~raced => Undisturbed'
      BY <1>7, <3>1, <3>2 DEF Reap
    <3>4. TypeOK'
      <4>1. {ready, pidfile, child, cur, next, sdChild}' \subseteq Pids
        BY <1>7, <3>1 DEF Reap
      <4>2. rl' \in Steps
        BY <1>7 DEF Reap
      <4> QED
        BY <1>7, <3>1, <4>1, <4>2, ZenonT(30) DEF Reap
    <3>5. (PidsStarted /\ MemoryFresh /\ MarkerCleared)'
      BY <1>7, <3>1, ZenonT(30) DEF Reap
    <3> QED
      BY <2>2, <3>3, <3>4, <3>5, Zenon
  <2>3. CASE raced' /\ UNCHANGED procs /\ pidfile' = 0
    BY <1>7, <2>3 DEF Reap
  <2> QED
    BY <1>7, <2>1, <2>2, <2>3, Zenon DEF Reap, ReapOrphanedGoChild
<1>8. ASSUME StopOld PROVE IInv'
  BY <1>8, ZenonT(30) DEF StopOld, Kill
<1>9. ASSUME ClearOld PROVE IInv'
  BY <1>9 DEF ClearOld
<1>10. ASSUME StartFails PROVE IInv'
  BY <1>10, ZenonT(30) DEF StartFails, ReturnChild
<1>11. ASSUME StartProgram PROVE IInv'
  BY <1>11 DEF StartProgram
<1>12. ASSUME recordStartedChild PROVE IInv'
  BY <1>12 DEF recordStartedChild
<1>13. ASSUME Unmark PROVE IInv'
  BY <1>13, ZenonT(30) DEF Unmark
<1>14. ASSUME InvokeReady PROVE IInv'
  BY <1>14 DEF InvokeReady
<1>15. ASSUME NotReady PROVE IInv'
  BY <1>15, ZenonT(30) DEF NotReady, Kill, ReturnChild
<1>16. ASSUME Confirmed PROVE IInv'
  BY <1>16 DEF Confirmed, ReturnChild
<1>17. ASSUME StoreChild PROVE IInv'
  <2>1. first' \in BOOLEAN
    BY <1>17, Zenon DEF StoreChild
  <2> QED
    BY <1>17, <2>1 DEF StoreChild
<1>18. ASSUME NEW p \in alive, ChildServes(p) PROVE IInv'
  BY <1>18 DEF ChildServes
<1>19. ASSUME NEW p \in alive, ChildExits(p) PROVE IInv'
  BY <1>19 DEF ChildExits, Kill
<1>20. ASSUME Signal PROVE IInv'
  BY <1>20, ZenonT(30) DEF Signal
<1>21. ASSUME ShutdownStop PROVE IInv'
  <2>1. CASE sdChild = 0
    <3>1. ~raced => alive = {}
      BY <1>21, <2>1 DEF ShutdownStop
    <3> QED
      BY <1>21, <2>1, <3>1, ZenonT(30) DEF ShutdownStop
  <2>2. CASE sdChild # 0
    BY <1>21, <2>2, ZenonT(30) DEF ShutdownStop, Kill
  <2> QED
    BY <2>1, <2>2, ZenonT(30)
<1>22. ASSUME ShutdownClear PROVE IInv'
  BY <1>22 DEF ShutdownClear
<1>23. ASSUME ShutdownUnready PROVE IInv'
  BY <1>23 DEF ShutdownUnready
<1>24. ASSUME Exit PROVE IInv'
  BY <1>24 DEF Exit, FreshMemory
<1>25. ASSUME Crash PROVE IInv'
  <2>1. first' \in BOOLEAN /\ dirty' \in BOOLEAN /\ raced' \in BOOLEAN /\ first'
    BY <1>25, Zenon DEF Crash, FreshMemory
  <2>2. (~raced)' => ~raced /\ alive \subseteq {pidfile}
    BY <1>25, Zenon DEF Crash
  <2> QED
    BY <1>25, <2>1, <2>2 DEF Crash, FreshMemory
<1>26. ASSUME Restart PROVE IInv'
  BY <1>26 DEF Restart
<1>27. ASSUME UNCHANGED vars PROVE IInv'
  BY <1>27 DEF vars
<1> QED
  BY <1>1, <1>2, <1>3, <1>4, <1>5, <1>6, <1>7, <1>8, <1>9, <1>10, <1>11, <1>12, <1>13, <1>14, <1>15, <1>16, <1>17, <1>18, <1>19, <1>20, <1>21, <1>22, <1>23, <1>24, <1>25, <1>26, <1>27, ZenonT(30) DEF Next, Reload, Shutdown

\* A set with at most one possible element has at most one element.
LEMMA AtMostOne ==
    ASSUME NEW S, NEW x, S \subseteq {x}
    PROVE  Cardinality(S) <= 1
<1>1. IsFiniteSet({x}) /\ Cardinality({x}) = 1
  BY FS_Singleton, ZenonT(30)
<1> QED
  BY <1>1, FS_Subset

\* The four facts follow from IInv.
LEMMA Consequences ==
    IInv => TypeOK /\ ChildrenAccounted /\ CleanExit /\ MarkersTrue
<1> SUFFICES ASSUME IInv
             PROVE  TypeOK /\ ChildrenAccounted /\ CleanExit /\ MarkersTrue
  OBVIOUS
<1>1. OneServer
  <2> SUFFICES ASSUME session = "up", ~raced PROVE Cardinality(alive) <= 1
    BY DEF OneServer
  <2>1. \E x \in {child, cur, next} : alive \subseteq {x}
    BY DEF IInv, TypeOK, Undisturbed, KnownToReload, Steps
  <2> QED
    BY <2>1, AtMostOne
<1>2. StaleChildReaped /\ CleanExit
  BY DEF IInv, Undisturbed, StaleChildReaped, CleanExit
<1>3. FreshReady
  BY DEF IInv, MemoryFresh, Undisturbed, KnownToReload, FreshReady
<1>4. MarkerOnlyWhileReloading
  BY DEF IInv, MarkerCleared, MarkerOnlyWhileReloading
<1> QED
  BY <1>1, <1>2, <1>3, <1>4 DEF IInv, ChildrenAccounted, MarkersTrue

\* Every reachable state of forst dev satisfies IInv.
THEOREM Invariance == Spec => []IInv
<1> QED
  BY Initially, Inductive, PTL DEF Spec

\* The variables of the dev session stay in their ranges.
THEOREM Typing == Spec => []TypeOK
<1>1. IInv => TypeOK
  BY Consequences
<1> QED
  BY Invariance, <1>1, PTL

\* performDevReload and ReapOrphanedGoChild never leave a running forst dev
\* with two Go children, or with one of an earlier session.
THEOREM ChildrenAreAccounted == Spec => []ChildrenAccounted
<1>1. IInv => ChildrenAccounted
  BY Consequences
<1> QED
  BY Invariance, <1>1, PTL

\* performDevShutdown leaves no child, no go-child.pid and no invoke.ready.
THEOREM ExitsAreClean == Spec => []CleanExit
<1>1. IInv => CleanExit
  BY Consequences
<1> QED
  BY Invariance, <1>1, PTL

\* invoke.ready names the child the reload started when WaitForInvokeReady
\* succeeds, and the reloading marker is gone between reloads.
THEOREM MarkersAreTrue == Spec => []MarkersTrue
<1>1. IInv => MarkersTrue
  BY Consequences
<1> QED
  BY Invariance, <1>1, PTL
==============================================================================
