----------------------------- MODULE BridgeHost -----------------------------
(***************************************************************************)
(* The Node host and its owners: forst dev (HostOrchestrator) or the Go    *)
(* program (Supervisor) finds or spawns a host through the socket and the  *)
(* ready marker in .forst, connects to it, and stops it.  subject.mode is  *)
(* dev (forst dev owns the host, the Go program attaches only), host (the  *)
(* Go program owns it) or bootstrap (it spawns @forst/runtime itself).     *)
(***************************************************************************)
EXTENDS Naturals, FiniteSets, Subject

CONSTANTS MaxHosts, MaxClients   \* bounds: Node processes and connections
VARIABLES node,     \* Node processes: unborn, booting, listening, up or dead
          sock,     \* the host bound to the socket path, or None
          marker,   \* the pid in the ready marker, or None
          active,   \* activeConnection of each host
          client,   \* connections of the Go program: host and state
          step,     \* what dev and go are doing
          proc,     \* the process each spawned and has not terminated
          conn,     \* the connection go is initializing
          inst,     \* supervisorInst: its connection, or None
          orphaned  \* history: an owner died before its host was announced
hostVars == <<node, sock, marker, active, client, step, proc, conn, inst, orphaned>>
None == 0
Owners == {"dev", "go"}
BridgeHostCases == {c \in [part : {"bridge host"}, mode : {"dev", "host", "bootstrap"}, relay : BOOLEAN] :
                       c.relay => c.mode = "dev"}
Alive == {h \in 1..MaxHosts : node[h] \in {"booting", "listening", "up"}}
ReattachSkipReason == marker \notin Alive      \* TRUE: an existing host cannot be used
ReadLoopExited(g) == client[g].st \in {"refused", "lost", "closed"}
Die(h) ==
   /\ node' = [node EXCEPT ![h] = "dead"]
   /\ client' = [g \in DOMAIN client |->
                   IF client[g].h = h /\ client[g].st \in {"pending", "active"}
                   THEN [client[g] EXCEPT !.st = "lost"] ELSE client[g]]
At(p, s) == subject.part = "bridge host" /\ step[p] = s /\ UNCHANGED subject
Go(p, s) == step' = [step EXCEPT ![p] = s]
Unannounced(p) == proc[p] # None /\ node[proc[p]] \in {"booting", "listening"}
NoSpawn(p) == IF p = "dev" THEN "off" ELSE "idle"
(* EnsureHostProcessRunning, by either owner.                              *)
HostOrchestratorEnsure ==
   /\ At("dev", "off") \/ At("dev", "stopped")
   /\ subject.mode = "dev"
   /\ Go("dev", "ensure")
   /\ UNCHANGED <<node, sock, marker, active, client, proc, conn, inst, orphaned>>
EnsureHostProcessRunning(p) ==
   /\ At(p, "ensure")
   /\ IF ReattachSkipReason
      THEN Go(p, "prepare") /\ UNCHANGED <<node, client, sock, marker>>
      ELSE IF ~subject.relay
           THEN Go(p, IF p = "dev" THEN "idle" ELSE "dial") /\ UNCHANGED <<node, client, sock, marker>>
           ELSE Die(marker) /\ sock' = None /\ marker' = None /\ Go(p, "prepare")
   /\ UNCHANGED <<active, proc, conn, inst, orphaned>>
PrepareHostSocket(p) ==
   /\ At(p, "prepare")
   /\ IF marker \in Alive
      THEN Go(p, NoSpawn(p)) /\ UNCHANGED <<sock, marker>>
      ELSE Go(p, "spawn") /\ sock' = None /\ marker' = None
   /\ UNCHANGED <<node, active, client, proc, conn, inst, orphaned>>
Spawned(p, h) == node' = [node EXCEPT ![h] = "booting"] /\ proc' = [proc EXCEPT ![p] = h]
AfterSpawn == IF subject.mode = "bootstrap" THEN "dial" ELSE "wait"
SpawnHostProcess(p) ==
   /\ At(p, "spawn")
   /\ \/ \E h \in 1..MaxHosts :
            /\ node[h] = "unborn" /\ \A k \in 1 .. h - 1 : node[k] # "unborn"
            /\ Spawned(p, h) /\ Go(p, AfterSpawn)
      \/ Go(p, NoSpawn(p)) /\ UNCHANGED <<node, proc>>
   /\ UNCHANGED <<sock, marker, active, client, conn, inst, orphaned>>
CleanupHostSocketFiles == sock' = None /\ marker' = None
KeepFiles == UNCHANGED <<sock, marker>>
Terminate(p) == /\ IF proc[p] # None THEN Die(proc[p]) ELSE UNCHANGED <<node, client>>
                /\ proc' = [proc EXCEPT ![p] = None]
WaitForHostMarkerReady(p) ==
   /\ At(p, "wait")
   /\ \/ /\ ~ReattachSkipReason
         /\ Go(p, IF p = "dev" THEN "idle" ELSE "dial")
         /\ UNCHANGED <<node, client, sock, marker, proc>>
      \/ \* the time limit, or the exit of the process
         Terminate(p) /\ CleanupHostSocketFiles /\ Go(p, NoSpawn(p))
   /\ UNCHANGED <<active, conn, inst, orphaned>>
(* The supervisor of the Go program, each call under supervisorMu.         *)
Discard == \* Supervisor.shutdown: Shutdown RPC, close, terminate
   /\ inst' = None
   /\ LET gone == IF subject.mode = "bootstrap" \/ proc["go"] # None THEN proc["go"] ELSE None
      IN /\ node' = IF gone = None THEN node ELSE [node EXCEPT ![gone] = "dead"]
         /\ client' = [client EXCEPT ![inst].st = IF @ = "active" THEN "closed" ELSE @]
         /\ proc' = [proc EXCEPT !["go"] = None]
IsAlive == inst # None /\ ~ReadLoopExited(inst) /\ (proc["go"] = None \/ proc["go"] \in Alive)
GetClient ==
   /\ At("go", "idle") /\ ~IsAlive
   /\ IF inst # None THEN Discard ELSE UNCHANGED <<node, client, proc, inst>>
   /\ Go("go", IF subject.mode = "bootstrap" THEN "prepare" ELSE "attach")
   /\ UNCHANGED <<sock, marker, active, conn, orphaned>>
ConnectExistingHost ==
   /\ At("go", "attach")
   /\ Go("go", IF ~ReattachSkipReason THEN "reattach" ELSE IF subject.mode = "dev" THEN "idle" ELSE "ensure")
   /\ UNCHANGED <<node, sock, marker, active, client, proc, conn, inst, orphaned>>
WaitForHostReady(s) ==
   /\ At("go", s)
   /\ \/ /\ marker \in Alive /\ sock \in Alive
         /\ \E g \in 1..MaxClients :
               /\ client[g].st = "free" /\ \A k \in 1 .. g - 1 : client[k].st # "free"
               /\ client' = [client EXCEPT ![g] = [h |-> sock, st |-> "pending"]] /\ conn' = g
         /\ Go("go", "init") /\ UNCHANGED <<node, sock, marker, proc>>
      \/ \* the time limit
         /\ IF s = "reattach" THEN KeepFiles /\ UNCHANGED <<node, client, proc>>
            ELSE CleanupHostSocketFiles /\ Terminate("go")
         /\ Go("go", "idle") /\ UNCHANGED conn
   /\ UNCHANGED <<active, inst, orphaned>>
FinishSupervisorInit ==
   /\ At("go", "init") /\ client[conn].st = "active"
   /\ inst' = conn /\ conn' = None /\ Go("go", "idle")
   /\ UNCHANGED <<node, sock, marker, active, client, proc, orphaned>>
InitializeFails == \* refused, lost, or rejected by the host
   /\ At("go", "init") /\ client[conn].st # "pending"
   /\ node' = IF proc["go"] = None THEN node ELSE [node EXCEPT ![proc["go"]] = "dead"]
   /\ client' = [client EXCEPT ![conn].st = IF @ = "active" THEN "closed" ELSE @]
   /\ proc' = [proc EXCEPT !["go"] = None] /\ conn' = None
   /\ IF subject.mode = "bootstrap" THEN CleanupHostSocketFiles ELSE KeepFiles
   /\ Go("go", "idle") /\ UNCHANGED <<active, inst, orphaned>>
WatchProcess ==
   /\ At("go", "idle") /\ inst # None /\ proc["go"] # None /\ proc["go"] \notin Alive
   /\ Discard /\ UNCHANGED <<sock, marker, active, conn, orphaned, step>>
SupervisorShutdown ==
   /\ At("go", "idle") /\ inst # None
   /\ Discard /\ UNCHANGED <<sock, marker, active, conn, orphaned, step>>
(* Processes start, stop and die.                                          *)
StartGo ==
   /\ At("go", "off") /\ (subject.mode = "dev" => step["dev"] = "idle")
   /\ Go("go", "idle") /\ UNCHANGED <<node, sock, marker, active, client, proc, conn, inst, orphaned>>
GoDies == \* a reload, a crash or its end: the kernel closes its connections
   /\ subject.part = "bridge host" /\ step["go"] # "off" /\ UNCHANGED subject
   /\ orphaned' = (orphaned \/ Unannounced("go"))
   /\ client' = [g \in DOMAIN client |->
                   [client[g] EXCEPT !.st = CASE @ = "active" -> "closed" [] @ = "pending" -> "abandoned" [] OTHER -> @]]
   /\ Go("go", "off") /\ inst' = None /\ conn' = None /\ proc' = [proc EXCEPT !["go"] = None]
   /\ UNCHANGED <<node, sock, marker, active>>
DevShutdown ==
   /\ At("dev", "idle")
   /\ LET h == IF proc["dev"] # None THEN proc["dev"] ELSE IF marker \in Alive THEN marker ELSE None
      IN IF h = None THEN UNCHANGED <<node, client>> ELSE Die(h)
   /\ Go("dev", "stopped") /\ proc' = [proc EXCEPT !["dev"] = None]
   /\ UNCHANGED <<sock, marker, active, conn, inst, orphaned>>
DevDies ==
   /\ subject.part = "bridge host" /\ step["dev"] \notin {"off", "stopped"} /\ UNCHANGED subject
   /\ orphaned' = (orphaned \/ Unannounced("dev"))
   /\ Go("dev", "off") /\ proc' = [proc EXCEPT !["dev"] = None]
   /\ UNCHANGED <<node, sock, marker, active, client, conn, inst>>
(* The Node process: listenUnix, the ready file, connections.              *)
Node(h, s) == subject.part = "bridge host" /\ node[h] = s /\ UNCHANGED subject
ListenUnix(h) ==
   /\ Node(h, "booting")
   /\ IF marker \in Alive \ {h}
      THEN node' = [node EXCEPT ![h] = "dead"] /\ UNCHANGED sock
      ELSE node' = [node EXCEPT ![h] = "listening"] /\ sock' = h
   /\ UNCHANGED <<marker, active, client, step, proc, conn, inst, orphaned>>
SignalReady(h) ==
   /\ Node(h, "listening")
   /\ node' = [node EXCEPT ![h] = "up"] /\ marker' = h
   /\ UNCHANGED <<sock, active, client, step, proc, conn, inst, orphaned>>
OnAnyConnection(g) == \* mutant: a second connection takes the place of the first
   LET h == client[g].h
   IN /\ client[g].st \in {"pending", "abandoned"} /\ h \in Alive /\ UNCHANGED subject
      /\ client' = [client EXCEPT ![g].st = IF @ = "pending" THEN "active" ELSE "closed"]
      /\ active' = [active EXCEPT ![h] = g]
      /\ UNCHANGED <<node, sock, marker, step, proc, conn, inst, orphaned>>
OnConnection(g) ==
   LET h == client[g].h
   IN /\ client[g].st \in {"pending", "abandoned"} /\ h \in Alive /\ UNCHANGED subject
      /\ IF active[h] # None
         THEN client' = [client EXCEPT ![g].st = "refused"] /\ UNCHANGED active
         ELSE client' = [client EXCEPT ![g].st = IF @ = "pending" THEN "active" ELSE "closed"] /\ active' = [active EXCEPT ![h] = g]
      /\ UNCHANGED <<node, sock, marker, step, proc, conn, inst, orphaned>>
OnClose(g) == \* a bootstrap process whose loop reads the end before it is interrupted exits
   LET h == client[g].h
   IN /\ client[g].st = "closed" /\ h \in Alive /\ active[h] = g /\ UNCHANGED subject
      /\ active' = [active EXCEPT ![h] = None]
      /\ node' \in {node} \cup IF subject.mode = "bootstrap" THEN {[node EXCEPT ![h] = "dead"]} ELSE {}
      /\ UNCHANGED <<client, sock, marker, step, proc, conn, inst, orphaned>>
HostCrashes(h) ==
   /\ subject.part = "bridge host" /\ h \in Alive /\ UNCHANGED subject
   /\ Die(h) /\ UNCHANGED <<sock, marker, active, step, proc, conn, inst, orphaned>>
BridgeHostIdle ==
   /\ node = <<>> /\ sock = None /\ marker = None /\ active = <<>> /\ client = <<>> /\ step = <<>>
   /\ proc = <<>> /\ conn = None /\ inst = None /\ orphaned = FALSE
BridgeHostInit ==
   /\ subject \in BridgeHostCases
   /\ node = [h \in 1..MaxHosts |-> "unborn"] /\ sock = None /\ marker = None
   /\ active = [h \in 1..MaxHosts |-> None]
   /\ client = [g \in 1..MaxClients |-> [h |-> None, st |-> "free"]]
   /\ step = [p \in Owners |-> "off"] /\ proc = [p \in Owners |-> None]
   /\ conn = None /\ inst = None /\ orphaned = FALSE
BridgeHostNext ==
   \/ HostOrchestratorEnsure \/ GetClient \/ ConnectExistingHost \/ FinishSupervisorInit \/ InitializeFails
   \/ WatchProcess \/ SupervisorShutdown \/ StartGo \/ GoDies \/ DevShutdown \/ DevDies
   \/ \E p \in Owners : \/ EnsureHostProcessRunning(p) \/ PrepareHostSocket(p)
                        \/ SpawnHostProcess(p) \/ WaitForHostMarkerReady(p)
   \/ \E s \in {"dial", "reattach"} : WaitForHostReady(s)
   \/ \E h \in DOMAIN node : ListenUnix(h) \/ SignalReady(h) \/ HostCrashes(h)
   \/ \E g \in DOMAIN client : OnConnection(g) \/ OnClose(g)
-----------------------------------------------------------------------------
\* (host.go:4) "One Go supervisor client per process; the host rejects a second
\* socket connection": a client that was initialized is the one its host serves.
OneClientPerHost ==
   \A g, k \in DOMAIN client : client[g].st = "active" /\ client[k].st = "active" /\ client[g].h = client[k].h => g = k
\* Unless an owner died while its host was starting there is at most one Node
\* process, and the marker and the socket name the same one.
OneHost ==
   subject.part = "bridge host" /\ ~orphaned =>
      /\ Cardinality(Alive) <= 1
      /\ marker \in Alive => sock = marker
\* A supervisor without an instance has left no process it spawned running,
\* and after a graceful end of forst dev no host runs (HostOrchestrator.Shutdown
\* "always stops the node host").
NothingLeftRunning ==
   subject.part = "bridge host" =>
      /\ step["go"] = "idle" /\ inst = None => proc["go"] = None \/ proc["go"] \notin Alive
      /\ step["dev"] = "stopped" /\ ~orphaned => Alive = {}
\* (isAlive) supervisorInst is connected to a host as its only client, or its
\* read loop has ended and the next GetClient replaces it.
InstanceServed ==
   inst # None => ReadLoopExited(inst) \/ (client[inst].h \in Alive /\ active[client[inst].h] = inst)
BridgeHostSound == OneClientPerHost /\ OneHost /\ NothingLeftRunning /\ InstanceServed
=============================================================================
