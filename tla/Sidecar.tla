------------------------------- MODULE Sidecar -------------------------------
(***************************************************************************)
(* @forst/sidecar: ForstServer and ProcessSupervisor, which spawn, watch   *)
(* and restart forst dev; the reload-aware transport, which parks requests *)
(* while the server recompiles; and ForstSidecar with its version check.   *)
(* The calls of the server are asynchronous: a call is a flow, and flows   *)
(* interleave at every await.                                              *)
(***************************************************************************)
EXTENDS Naturals, FiniteSets, Sequences, SequencesExt, Subject

CONSTANTS MaxChildren, MaxFlows, MaxRequests   \* bounds
NoChild == 0
(* ForstServer and ProcessSupervisor.                                      *)
ServerStart ==
   [status |-> "stopped", watchers |-> 0, timer |-> FALSE, process |-> NoChild, sup |-> "stopped", auth |-> NoChild,
    child |-> [c \in 1..MaxChildren |-> "unborn"], flow |-> [f \in 1..MaxFlows |-> "none"],
    then |-> [f \in 1..MaxFlows |-> "end"], own |-> [f \in 1..MaxFlows |-> NoChild], handed |-> {}, overlap |-> FALSE]
InServer == subject.part = "sidecar server" /\ UNCHANGED subject
RunningFlows(s) == {f \in 1..MaxFlows : s.flow[f] \notin {"none", "end"}}
FlowAt(f, pc) == InServer /\ state.flow[f] = pc
NewFlow(f) == state.flow[f] = "none" /\ \A k \in 1 .. f - 1 : state.flow[k] # "none"
Begin(f, pc, after) ==
   state' = [state EXCEPT !.flow[f] = pc, !.then[f] = after, !.overlap = @ \/ RunningFlows(state) # {}]
CallStart == InServer /\ \E f \in 1..MaxFlows : NewFlow(f) /\ Begin(f, "start", "end")
CallStop == InServer /\ \E f \in 1..MaxFlows : NewFlow(f) /\ Begin(f, "stop", "end")
(* stop(): nothing when already stopped; the watchers are closed one by    *)
(* one, then the process is signalled and its exit awaited.                *)
StopServer(f) ==
   /\ FlowAt(f, "stop")
   /\ state' = IF state.status = "stopped" THEN [state EXCEPT !.flow[f] = state.then[f]]
               ELSE [state EXCEPT !.status = "stopped", !.flow[f] = "closing"]
Signal(s, c) == IF s.child[c] = "alive" THEN "terminating" ELSE s.child[c]
StopProcess(f) == \* the watchers are closed: supervisor.stop
   /\ FlowAt(f, "closing")
   /\ LET c == state.process
          s == [state EXCEPT !.watchers = 0, !.process = NoChild]
      IN state' = IF c = NoChild THEN [s EXCEPT !.sup = "stopped", !.flow[f] = state.then[f]]
                  ELSE [s EXCEPT !.child[c] = Signal(state, c), !.own[f] = c, !.flow[f] = "exiting"]
StopEnds(f) == \* the exit, or SIGKILL after five seconds and one second more
   /\ FlowAt(f, "exiting")
   /\ state' = [state EXCEPT !.auth = NoChild, !.sup = "stopped", !.flow[f] = state.then[f],
                             !.child[state.own[f]] = "dead"]
(* start(): nothing when running; the supervisor keeps a process that it   *)
(* has, or spawns one and waits until it answers.                          *)
SpawnAlways(s) == TRUE      \* mutant: a process already held is not kept
SpawnOk(s) == s.process = NoChild
Watching(s, f) == [s EXCEPT !.watchers = @ + 1, !.status = "running", !.flow[f] = "end"]
StartServer(f) ==
   /\ FlowAt(f, "start")
   /\ \/ state.status = "running" /\ state' = [state EXCEPT !.flow[f] = "end"]
      \/ /\ state.status # "running"
         /\ IF SpawnOk(state)
            THEN \E c \in 1..MaxChildren :
                   /\ state.child[c] = "unborn" /\ \A k \in 1 .. c - 1 : state.child[k] # "unborn"
                   /\ state' = [state EXCEPT !.status = "starting", !.sup = "starting", !.auth = NoChild,
                                             !.process = c, !.child[c] = "alive", !.flow[f] = "waiting"]
            ELSE state' = Watching(state, f)
WaitForReady(f) ==
   /\ FlowAt(f, "waiting")
   /\ \/ /\ \E c \in 1..MaxChildren : state.child[c] \in {"alive", "terminating"}   \* the health check succeeds
         /\ state' = Watching([state EXCEPT !.sup = "running"], f)
      \/ state.process # NoChild /\ state' = Watching([state EXCEPT !.sup = "running"], f) \* refused, process kept
      \/ state' = [state EXCEPT !.status = "error", !.flow[f] = "end"]   \* it fails or ten seconds pass
(* Events of the children and of the watcher.                              *)
ChildHandsOff(c) == \* its pipe is read to the end, perhaps only after its exit
   /\ InServer /\ state.child[c] # "unborn" /\ c \notin state.handed
   /\ state' = [state EXCEPT !.auth = c, !.handed = @ \cup {c}]
ChildExits(c) ==
   /\ InServer /\ state.child[c] \in {"alive", "terminating"}
   /\ state' = [state EXCEPT !.child[c] = "dead", !.auth = NoChild, !.sup = "stopped"]
HandleFileChange == InServer /\ state.watchers > 0 /\ state' = [state EXCEPT !.timer = TRUE]
TimerFires ==
   /\ InServer /\ state.timer
   /\ \E f \in 1..MaxFlows :
        /\ NewFlow(f)
        /\ state' = [state EXCEPT !.timer = FALSE, !.flow[f] = "stop", !.then[f] = "start",
                                  !.overlap = @ \/ RunningFlows(state) # {}]
ServerNext ==
   \/ CallStart \/ CallStop \/ HandleFileChange \/ TimerFires
   \/ \E f \in 1..MaxFlows : StopServer(f) \/ StopProcess(f) \/ StopEnds(f) \/ StartServer(f) \/ WaitForReady(f)
   \/ \E c \in 1..MaxChildren : ChildHandsOff(c) \/ ChildExits(c)
(* createReloadAwareTransport and ForstSidecarClient.makeRequest.          *)
TransportStart ==
   [server |-> "up", ask |-> [r \in 1..MaxRequests |-> "new"], attempt |-> [r \in 1..MaxRequests |-> 0],
    queue |-> <<>>, cur |-> 0, ready |-> FALSE, drain |-> 0, dead |-> FALSE,
    runs |-> [r \in 1..MaxRequests |-> 0], lost |-> [r \in 1..MaxRequests |-> 0],
    good |-> [r \in 1..MaxRequests |-> 0], order |-> <<>>, answers |-> <<>>]
InTransport == subject.part = "sidecar transport" /\ UNCHANGED subject
(* What inner.request brings and whether the server ran the request: an    *)
(* answer, a failure (another status than 2xx or 503, or an error such as  *)
(* a timeout, either of which may come after a run), 503 reloading, a      *)
(* refused connection, or one lost after the run.                          *)
MaxLost == 1      \* bound: lost connections of one request
InnerOutcomes(r) ==
   CASE state.server = "reloading" -> {[kind |-> "reloading", ran |-> FALSE]}
     [] state.server = "down" -> {[kind |-> "refused", ran |-> FALSE]}
     [] OTHER -> {[kind |-> "ok", ran |-> TRUE]} \cup [kind : {"status", "error"}, ran : BOOLEAN]
                 \cup {o \in {[kind |-> "lost", ran |-> TRUE]} : state.lost[r] < MaxLost}
Ran(s, r, o) == [s EXCEPT !.runs[r] = @ + (IF o.ran THEN 1 ELSE 0), !.lost[r] = @ + (IF o.kind = "lost" THEN 1 ELSE 0),
                          !.good[r] = @ + (IF o.kind = "ok" THEN 1 ELSE 0)]
Serve(new) == InTransport /\ new # state.server /\ state' = [state EXCEPT !.server = new]
IsConnectionError(o) == o.kind \in {"refused", "lost"}
EnsureDrainFiber(s, r) == IF s.drain # 0 THEN s ELSE [s EXCEPT !.drain = r]
ParkRequest(s, r) ==
   EnsureDrainFiber([s EXCEPT !.ask[r] = "parked", !.queue = Append(@, r), !.order = Append(@, r)], r)
\* subject.retries: 3 without the reload-aware transport and 0 with it, unless the configuration says another
\* number; 1 shows the loop.
Fails(s, r) ==
   IF s.attempt[r] < subject.retries THEN [s EXCEPT !.attempt[r] = @ + 1, !.ask[r] = "new"] ELSE [s EXCEPT !.ask[r] = "failed"]
MakeRequest(r) ==
   /\ InTransport /\ state.ask[r] = "new"
   /\ \E o \in InnerOutcomes(r) :
        LET s == Ran(state, r, o)
        IN state' = CASE o.kind = "ok" -> [s EXCEPT !.ask[r] = "done"]
                      [] subject.aware /\ (IsConnectionError(o) \/ o.kind = "reloading") -> ParkRequest(s, r)
                      [] OTHER -> Fails(s, r)
Draining == InTransport /\ state.drain # 0 /\ ~state.dead
TakeParked ==
   /\ Draining /\ state.cur = 0 /\ state.queue # <<>>
   /\ state' = [state EXCEPT !.cur = Head(state.queue), !.queue = Tail(@), !.ready = FALSE]
HealthReady == state.server = "up"     \* refused or 503 counts as reloading
Deliver(s, r, answer) == [s EXCEPT !.ask[r] = answer, !.cur = 0, !.answers = Append(@, r)]
WaitUntilReady ==
   /\ Draining /\ state.cur # 0 /\ ~state.ready
   /\ \/ HealthReady /\ state' = [state EXCEPT !.ready = TRUE]
      \/ state' = Deliver(state, state.cur, "rejected")  \* another error of the health check
ReplayAgain == \* mutant: an answer that is not 2xx is replayed like a lost connection
   /\ Draining /\ state.cur # 0 /\ state.ready
   /\ \E r \in {state.cur} : \E o \in InnerOutcomes(r) :
        LET s == Ran(state, r, o)
        IN state' = IF o.kind = "ok" THEN Deliver(s, r, "answered") ELSE [s EXCEPT !.ready = FALSE]
ReplayParked ==
   /\ Draining /\ state.cur # 0 /\ state.ready
   /\ \E r \in {state.cur} : \E o \in InnerOutcomes(r) :
        LET s == Ran(state, r, o)
        IN state' = CASE o.kind = "ok" -> Deliver(s, r, "answered")
                      [] IsConnectionError(o) -> [s EXCEPT !.ready = FALSE]
                      [] o.kind = "reloading" -> s      \* Retry-After, then again
                      [] OTHER -> Deliver(s, r, "rejected")
Resume(r) == \* the caller's fiber ends, and with it the fibers it forked; then makeRequest goes on
   /\ InTransport /\ state.ask[r] \in {"answered", "rejected"}
   /\ LET s == [state EXCEPT !.dead = @ \/ state.drain = r]
      IN state' = IF state.ask[r] = "answered" THEN [s EXCEPT !.ask[r] = "done"] ELSE Fails(s, r)
TransportNext ==
   \/ \E new \in {"up", "reloading", "down"} : Serve(new)
   \/ \E r \in 1..MaxRequests : MakeRequest(r) \/ Resume(r)
   \/ TakeParked \/ WaitUntilReady \/ ReplayParked
(* ForstSidecar.start and stop: what a failure on the way leaves.  An      *)
(* outcome of start is whether it threw or still waits, and which of       *)
(* server and client are set; stop() alone stops a spawned server.         *)
VersionMismatch(c) == ~c.contract \/ ~c.version
MaybeCheckVersion(c) == \* TRUE: it throws
   /\ c.check = "strict" /\ c.local
   /\ ~c.remote \/ VersionMismatch(c)
\* The reload-aware client parks what it asks a server that cannot be reached, the health check included.
AsksServer(c) == c.check # "off" /\ c.local
Outcome(threw, waits, client, server, connected) ==
   [threw |-> threw, waits |-> waits, client |-> client, server |-> server, connected |-> connected]
\* ProcessSupervisor.waitForReady: only a server that answers, and badly, is an error while its process is held.
ReadyOrHeld(c) == c.health # "failing"
SidecarStart(c) ==
   CASE c.mode = "connect" /\ (~c.url \/ c.health = "failing") -> Outcome(TRUE, FALSE, FALSE, FALSE, FALSE)
     [] c.mode = "connect" /\ c.url /\ c.health = "unreachable" -> Outcome(FALSE, TRUE, TRUE, FALSE, TRUE)
     [] c.mode = "connect" /\ c.url /\ c.health = "ok" -> Outcome(MaybeCheckVersion(c), FALSE, TRUE, FALSE, TRUE)
     [] c.mode = "spawn" /\ ~c.binary -> Outcome(TRUE, FALSE, FALSE, FALSE, FALSE)
     [] c.mode = "spawn" /\ c.binary /\ ~ReadyOrHeld(c) -> Outcome(TRUE, FALSE, FALSE, TRUE, FALSE)
     [] c.mode = "spawn" /\ c.binary /\ c.health = "unreachable" -> Outcome(FALSE, AsksServer(c), TRUE, TRUE, FALSE)
     [] OTHER -> Outcome(MaybeCheckVersion(c), FALSE, TRUE, TRUE, FALSE)
SidecarStop(o) == IF o.connected THEN [o EXCEPT !.client = FALSE, !.connected = FALSE]
                  ELSE IF ~o.server THEN o ELSE [o EXCEPT !.client = FALSE]
IsRunning(o) == IF o.connected THEN o.client ELSE o.server
SidecarCases ==
   [part : {"sidecar start"}, mode : {"connect", "spawn"}, url : BOOLEAN, binary : BOOLEAN,
    health : {"ok", "failing", "unreachable"},
    check : {"off", "warn", "strict"}, local : BOOLEAN, remote : BOOLEAN, contract : BOOLEAN, version : BOOLEAN]
SidecarInit ==
   \/ subject \in SidecarCases /\ Stateless
   \/ subject = [part |-> "sidecar server"] /\ state = ServerStart
   \/ subject \in [part : {"sidecar transport"}, aware : BOOLEAN, retries : 0..1] /\ state = TransportStart
SidecarNext == ServerNext \/ TransportNext
-----------------------------------------------------------------------------
\* (ProcessSupervisor) Every live child is the one the supervisor holds or one
\* it has signalled, also when restarts overlap; unless two calls overlapped
\* there is one at most.  When no call is under way a stopped server has no
\* child.
ChildrenSupervised ==
   subject.part = "sidecar server" =>
      LET live == {c \in 1..MaxChildren : state.child[c] \in {"alive", "terminating"}}
      IN /\ \A c \in live : state.child[c] = "alive" => c = state.process
         /\ ~state.overlap => Cardinality(live) <= 1
         /\ RunningFlows(state) = {} /\ state.status = "stopped" => live = {}
\* (createReloadAwareTransport, makeRequest) Parked requests are answered in
\* the order they were parked.  The server runs a request again only after a
\* connection was lost or for a retry the configuration allows, a replay of a
\* parked request never being a retry; and never once a run was answered well.
ReplaysOnce ==
   subject.part = "sidecar transport" =>
      /\ IsPrefix(state.answers, state.order)
      /\ \A r \in 1..MaxRequests :
            /\ state.runs[r] <= state.lost[r] + state.attempt[r] + 1
            /\ state.good[r] = IF state.ask[r] \in {"answered", "done"} THEN 1 ELSE 0
\* (start) A start that returned has a client; no server that answered its
\* health check badly was taken for a started one, and strictly none of
\* another version that could be compared.  stop() leaves no client.  (A
\* spawned server that could not be reached is taken for a running one.)
StartTruthful ==
   subject.part = "sidecar start" =>
      LET o == SidecarStart(subject)
          returned == ~o.threw /\ ~o.waits
      IN /\ returned => o.client /\ subject.health # "failing"
         /\ returned /\ subject.check = "strict" /\ subject.local => ~VersionMismatch(subject)
         /\ ~SidecarStop(o).client /\ (o.connected => ~IsRunning(SidecarStop(o)))
SidecarSound == ChildrenSupervised /\ ReplaysOnce /\ StartTruthful
=============================================================================
