---------------------------- MODULE BridgeClient -----------------------------
(***************************************************************************)
(* The RPC client a compiled Forst program uses to call its Node host:     *)
(* forst/bridgert/client.go over the frames of frame.go.                   *)
(*                                                                         *)
(* One member of Callers is one call of Client.Call, so a caller also      *)
(* names the channel made for that call.  Payloads are abstracted to the   *)
(* call they belong to: what matters is who receives which answer.  The    *)
(* Node host is external; it reads requests, answers each at most once, in *)
(* any order, and may die at any moment.                                   *)
(***************************************************************************)
EXTENDS Naturals, FiniteSets

CONSTANTS
    Callers,     \* the calls made on one Client
    NoCaller,    \* c.mu is free
    SocketCap    \* requests the socket holds before a write blocks

ASSUME NoCallerAssumption == NoCaller \notin Callers
ASSUME SocketCapAssumption == SocketCap \in Nat \ {0}

VARIABLES
    mu,           \* Client.mu: its holder
    initialized,  \* Client.initialized
    nextID,       \* Client.nextID
    pending,      \* Client.pending: entries [id, ch]
    chan,         \* the capacity-one channel of each call
    pc,           \* where each call is inside Client.Call
    method,       \* the method of each call
    id,           \* its rpc id (0 before one is taken)
    outcome,      \* what Client.Call returned to each caller
    reader,       \* readLoop: "off", "reading", "holding" or "exited"
    held,         \* what readLoop has taken out of pending and not yet sent
    late,         \* history: the calls that registered after readLoop had ended
    conn,         \* "up" or "down"
    socket,       \* requests written and not read by the host
    serving,      \* requests the host has read and not answered
    responses     \* answers on their way back

clientVars == <<mu, initialized, nextID, pending, chan>>
callVars == <<pc, method, id, outcome>>
readerVars == <<reader, held, late>>
wireVars == <<conn, socket, serving, responses>>
vars == <<clientVars, callVars, readerVars, wireVars>>

Methods == {"initialize", "call", "shutdown"}
Results == [call : Callers, kind : {"ok", "error", "died", "write", "timeout", "rejected"}]
Empty == [call |-> NoCaller, kind |-> "none"]
Frames == [id : Nat, call : Callers]
Entry(c) == [id |-> id[c], ch |-> c]
Answer(c, k) == [call |-> c, kind |-> k]

TypeOK ==
    /\ mu \in Callers \cup {NoCaller}
    /\ initialized \in BOOLEAN
    /\ nextID \in Nat
    /\ pending \in SUBSET [id : Nat, ch : Callers]
    /\ chan \in [Callers -> Results \cup {Empty}]
    /\ pc \in [Callers -> {"idle", "started", "registered", "writing", "sent",
                           "failed", "finish", "done"}]
    /\ method \in [Callers -> Methods]
    /\ id \in [Callers -> Nat]
    /\ outcome \in [Callers -> Results \cup {Empty}]
    /\ reader \in {"off", "reading", "holding", "exited"}
    /\ held \in [ch : Callers, res : Results] \cup {Empty}
    /\ late \in SUBSET Callers
    /\ conn \in {"up", "down"}
    /\ socket \in SUBSET Frames
    /\ serving \in SUBSET Frames
    /\ responses \in SUBSET [id : Nat, res : Results]

Init ==
    /\ mu = NoCaller
    /\ initialized = FALSE
    /\ nextID = 1
    /\ pending = {}
    /\ chan = [c \in Callers |-> Empty]
    /\ pc = [c \in Callers |-> "idle"]
    /\ method \in [Callers -> Methods]
    /\ id = [c \in Callers |-> 0]
    /\ outcome = [c \in Callers |-> Empty]
    /\ reader = "off"
    /\ held = Empty
    /\ late = {}
    /\ conn = "up"
    /\ socket = {}
    /\ serving = {}
    /\ responses = {}

------------------------------------------------------------------------------
\* Call returns before anything is sent: not initialized, or the parameters
\* cannot be marshalled.
CallRejected(c) ==
    /\ pc[c] = "idle"
    /\ mu = NoCaller
    /\ pc' = [pc EXCEPT ![c] = "done"]
    /\ outcome' = [outcome EXCEPT ![c] = Answer(c, "rejected")]
    /\ UNCHANGED <<clientVars, method, id, readerVars, wireVars>>

\* Mutant: the id is read and advanced outside mu, so an update can be lost.
BeginRacyID(c) ==
    /\ pc[c] = "idle"
    /\ method[c] = "call" => initialized
    /\ reader' = IF reader = "off" THEN "reading" ELSE reader
    /\ id' = [id EXCEPT ![c] = nextID]
    /\ nextID' \in {nextID, nextID + 1}
    /\ pc' = [pc EXCEPT ![c] = "started"]
    /\ UNCHANGED <<mu, initialized, pending, chan, method, outcome, held, late, wireVars>>

\* The gate passes; the read loop is started by the first call; the id is
\* taken under mu.  The gate and the id are two critical sections, merged
\* because nothing between them reads what the other writes.
CallBegin(c) ==
    /\ pc[c] = "idle"
    /\ mu = NoCaller
    /\ method[c] = "call" => initialized
    /\ reader' = IF reader = "off" THEN "reading" ELSE reader
    /\ id' = [id EXCEPT ![c] = nextID]
    /\ nextID' = nextID + 1
    /\ pc' = [pc EXCEPT ![c] = "started"]
    /\ UNCHANGED <<mu, initialized, pending, chan, method, outcome, held, late, wireVars>>

\* c.pending[id] = ch under pendingMu: a map, so an entry with that id goes.
Register(c) ==
    /\ pc[c] = "started"
    /\ pending' = {p \in pending : p.id # id[c]} \cup {Entry(c)}
    /\ pc' = [pc EXCEPT ![c] = "registered"]
    /\ late' = IF reader = "exited" THEN late \cup {c} ELSE late
    /\ UNCHANGED <<mu, initialized, nextID, chan, method, id, outcome, reader, held, wireVars>>

\* The frame is built and mu is taken for the write.
WriteBegin(c) ==
    /\ pc[c] = "registered"
    /\ mu = NoCaller
    /\ mu' = c
    /\ pc' = [pc EXCEPT ![c] = "writing"]
    /\ UNCHANGED <<initialized, nextID, pending, chan, method, id, outcome, readerVars, wireVars>>

\* The write completes when the socket has room; a frame written to a dead
\* peer may be accepted by the kernel and lost.
WriteDone(c) ==
    /\ pc[c] = "writing"
    /\ \/ /\ conn = "up"
          /\ Cardinality(socket) < SocketCap
          /\ socket' = socket \cup {[id |-> id[c], call |-> c]}
       \/ conn = "down" /\ UNCHANGED socket
    /\ mu' = NoCaller
    /\ pc' = [pc EXCEPT ![c] = "sent"]
    /\ UNCHANGED <<initialized, nextID, pending, chan, method, id, outcome, readerVars,
                   conn, serving, responses>>

\* Frame construction or the write fails: oversized frame or dead peer.
WriteFails(c) ==
    /\ pc[c] = "writing"
    /\ mu' = NoCaller
    /\ pc' = [pc EXCEPT ![c] = "failed"]
    /\ outcome' = [outcome EXCEPT ![c] = Answer(c, "write")]
    /\ UNCHANGED <<initialized, nextID, pending, chan, method, id, readerVars, wireVars>>

\* Mutant: the select has no timer case.
WaitForever(c) ==
    /\ pc[c] = "sent"
    /\ UNCHANGED vars

\* The select picks the timer, which it may do with an answer in the channel.
Timeout(c) ==
    /\ pc[c] = "sent"
    /\ pc' = [pc EXCEPT ![c] = "failed"]
    /\ outcome' = [outcome EXCEPT ![c] = Answer(c, "timeout")]
    /\ UNCHANGED <<clientVars, method, id, readerVars, wireVars>>

\* Mutant: the error path returns without removePending.
LeavePending(c) ==
    /\ pc[c] = "failed"
    /\ pc' = [pc EXCEPT ![c] = "done"]
    /\ UNCHANGED <<clientVars, method, id, outcome, readerVars, wireVars>>

\* removePending(id), then Call returns its error.
removePending(c) ==
    /\ pc[c] = "failed"
    /\ pending' = {p \in pending : p.id # id[c]}
    /\ pc' = [pc EXCEPT ![c] = "done"]
    /\ UNCHANGED <<mu, initialized, nextID, chan, method, id, outcome, readerVars, wireVars>>

\* The select picks the channel and Call returns its content.
Receive(c) ==
    /\ pc[c] = "sent"
    /\ chan[c] # Empty
    /\ outcome' = [outcome EXCEPT ![c] = chan[c]]
    /\ chan' = [chan EXCEPT ![c] = Empty]
    /\ pc' = [pc EXCEPT ![c] = IF chan[c].kind = "ok" /\ method[c] # "call"
                               THEN "finish" ELSE "done"]
    /\ UNCHANGED <<mu, initialized, nextID, pending, method, id, readerVars, wireVars>>

\* Initialize and Shutdown record their success under mu.
Finish(c) ==
    /\ pc[c] = "finish"
    /\ mu = NoCaller
    /\ initialized' = (method[c] = "initialize")
    /\ pc' = [pc EXCEPT ![c] = "done"]
    /\ UNCHANGED <<mu, nextID, pending, chan, method, id, outcome, readerVars, wireVars>>

------------------------------------------------------------------------------
\* Mutant: readLoop looks the entry up and does not delete it.
ReadKeepsEntry(r) ==
    /\ reader = "reading"
    /\ r \in responses
    /\ responses' = responses \ {r}
    /\ \/ /\ \A p \in pending : p.id # r.id
          /\ UNCHANGED readerVars
       \/ \E p \in pending :
             /\ p.id = r.id
             /\ held' = [ch |-> p.ch, res |-> r.res]
             /\ reader' = "holding"
             /\ UNCHANGED late
    /\ UNCHANGED <<clientVars, callVars, conn, socket, serving>>

\* readLoop takes a response and looks its id up in pending; an orphan is
\* dropped, otherwise the entry is deleted and its channel kept for the send.
ReadFrame(r) ==
    /\ reader = "reading"
    /\ r \in responses
    /\ responses' = responses \ {r}
    /\ \/ /\ \A p \in pending : p.id # r.id
          /\ UNCHANGED <<pending, readerVars>>
       \/ \E p \in pending :
             /\ p.id = r.id
             /\ pending' = pending \ {p}
             /\ held' = [ch |-> p.ch, res |-> r.res]
             /\ reader' = "holding"
             /\ UNCHANGED late
    /\ UNCHANGED <<mu, initialized, nextID, chan, callVars, conn, socket, serving>>

\* `ch <- res`, outside pendingMu; it would block on a full channel.
Deliver ==
    /\ reader = "holding"
    /\ chan[held.ch] = Empty
    /\ chan' = [chan EXCEPT ![held.ch] = held.res]
    /\ held' = Empty
    /\ reader' = "reading"
    /\ UNCHANGED <<mu, initialized, nextID, pending, callVars, late, wireVars>>

\* Mutant: the pending map is replaced without answering its channels.
DropAllPending ==
    /\ reader = "reading"
    /\ pending' = {}
    /\ reader' = "exited"
    /\ UNCHANGED <<mu, initialized, nextID, chan, callVars, held, late, wireVars>>

\* Reading fails (end of stream, reset, or a frame that cannot be decoded):
\* failAllPending answers everything pending under pendingMu and the loop ends.
failAllPending ==
    /\ reader = "reading"
    /\ \A p \in pending : chan[p.ch] = Empty
    /\ chan' = [c \in Callers |-> IF \E p \in pending : p.ch = c
                                  THEN Answer(c, "died") ELSE chan[c]]
    /\ pending' = {}
    /\ reader' = "exited"
    /\ UNCHANGED <<mu, initialized, nextID, callVars, held, late, wireVars>>

------------------------------------------------------------------------------
\* External: the host reads a request, and later answers it.
HostReads(q) ==
    /\ conn = "up"
    /\ q \in socket
    /\ socket' = socket \ {q}
    /\ serving' = serving \cup {q}
    /\ UNCHANGED <<clientVars, callVars, readerVars, conn, responses>>

HostAnswers(q, k) ==
    /\ conn = "up"
    /\ q \in serving
    /\ serving' = serving \ {q}
    /\ responses' = responses \cup {[id |-> q.id, res |-> Answer(q.call, k)]}
    /\ UNCHANGED <<clientVars, callVars, readerVars, conn, socket>>

\* External: the host or the connection dies; unread answers may be lost.
ConnDies ==
    /\ conn = "up"
    /\ conn' = "down"
    /\ responses' \in {responses, {}}
    /\ UNCHANGED <<clientVars, callVars, readerVars, socket, serving>>

------------------------------------------------------------------------------
CallerStep(c) ==
    \/ CallRejected(c) \/ CallBegin(c) \/ Register(c) \/ WriteBegin(c)
    \/ WriteDone(c) \/ WriteFails(c) \/ Timeout(c) \/ removePending(c)
    \/ Receive(c) \/ Finish(c)

ReaderStep == (\E r \in responses : ReadFrame(r)) \/ Deliver \/ failAllPending

HostStep ==
    \/ \E q \in socket : HostReads(q)
    \/ \E q \in serving, k \in {"ok", "error"} : HostAnswers(q, k)
    \/ ConnDies

Next == (\E c \in Callers : CallerStep(c)) \/ ReaderStep \/ HostStep

Spec == Init /\ [][Next]_vars

\* A call that has begun runs on, its timer fires, and a host that is up keeps
\* reading its socket.  The host owes no answer, and the read loop may starve.
Fairness ==
    /\ \A c \in Callers :
          /\ SF_vars(WriteBegin(c)) /\ SF_vars(Finish(c))
          /\ WF_vars(Register(c)) /\ WF_vars(WriteDone(c))
          /\ WF_vars(Timeout(c)) /\ WF_vars(removePending(c))
    /\ WF_vars(\E q \in socket : HostReads(q))

FairSpec == Spec /\ Fairness

------------------------------------------------------------------------------
\* Client.Call hands a caller the answer to its own request and to no other,
\* whatever the order of answers, timeouts and late frames.
OwnAnswer ==
    \A c \in Callers : outcome[c] # Empty => outcome[c].call = c

\* No send in readLoop or failAllPending ever finds its channel full: the
\* latter would wait while holding pendingMu and block every other call.
SendsNeverBlock ==
    /\ \A p \in pending : chan[p.ch] = Empty
    /\ reader = "holding" => chan[held.ch] = Empty

\* An entry of pending belongs to a call that is still inside Client.Call and
\* will remove it: a quiet client has PendingCount() = 0.
NoLeakedPending ==
    \A p \in pending :
        /\ pc[p.ch] \in {"registered", "writing", "sent", "failed"}
        /\ p = Entry(p.ch)

\* A caller in the select is never forgotten: the read loop runs and its entry
\* is in pending, or the read loop holds its channel, or the channel has its
\* answer.  failAllPending leaves out nobody who had registered before it.
\* The exception is a call that registered after the loop had ended.
WaitersReachable ==
    \A c \in Callers : pc[c] = "sent" =>
        \/ reader # "exited" /\ Entry(c) \in pending
        \/ reader = "holding" /\ held.ch = c
        \/ chan[c] # Empty
        \/ c \in late

\* A call that registered after the read loop had ended gets no answer: it
\* returns the error of its write or the timeout, and never another result.
LateCallsTimeOut ==
    \A c \in late :
        /\ chan[c] = Empty
        /\ outcome[c] # Empty => outcome[c].kind \in {"write", "timeout"}

\* The pending table and its channels answer every call at most once: no send
\* blocks, no entry is left behind, and a waiting caller can still be answered
\* unless the read loop had ended before it registered; then nothing but its
\* own write or timer ends it.
PendingTableSound ==
    SendsNeverBlock /\ NoLeakedPending /\ WaitersReachable /\ LateCallsTimeOut

\* Every call that has taken an id returns, even if the host never answers.
CallReturns ==
    \A c \in Callers : (pc[c] = "started") ~> (pc[c] = "done")
==============================================================================
