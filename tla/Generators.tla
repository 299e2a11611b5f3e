----------------------------- MODULE Generators -----------------------------
(***************************************************************************)
(* Iterating a TypeScript generator from a compiled Forst program, end to  *)
(* end: the `for range` loop the transformer emits                         *)
(* (internal/transformer/go/node_bridge_for.go), the Seq handle            *)
(* (bridgert/generator.go) and the stream table of the Node runtime        *)
(* (packages/runtime/src/runtime/generators.ts).                           *)
(*                                                                         *)
(* The connection is BridgeClient's contract: requests are answered in the *)
(* order they were sent (runProtoLoop awaits each), a call returns its own *)
(* answer, or an error after a timeout or when the runtime dies.  In       *)
(* bootstrap mode GetClient starts a new runtime when the old one is dead. *)
(* Every handle s iterates its own generator, which yields 1..Items and    *)
(* then returns, or throws as ending says.                                 *)
(***************************************************************************)
EXTENDS Naturals, Sequences

CONSTANTS
    Handles,      \* Seq handles, each with one loop
    Items,        \* items each generator yields
    Singles,      \* handles pulled with Seq.Next; the others use NextBatch
    BatchSize,    \* items a NextBatch asks for (nodeSeqBatchSize)
    MaxTimeouts,  \* bound: calls that time out
    MaxDeaths     \* bound: runtime processes that die

ASSUME ItemsAssumption == Items \in Nat /\ BatchSize \in Nat \ {0, 1} /\ Singles \subseteq Handles
ASSUME BoundsAssumption == MaxTimeouts \in Nat /\ MaxDeaths \in Nat

VARIABLES
    pc,            \* where each loop is
    sid,           \* Seq.streamID; 0 is ""
    batch,         \* _nodeBatch[_nodeBatchIdx:]
    got,           \* the items the loop body has seen
    outcome,       \* how the loop was left: end, break, panic
    client,        \* the runtime (epoch) the current call was made on
    reply,         \* what Call returned, NoReply while it waits
    socket,        \* requests the runtime has not handled
    alive,         \* the runtime process runs
    epoch,         \* its number
    nextStreamId,  \* generators.ts nextStreamId
    streams,       \* generators.ts streams: open id -> the handle whose generator it is
    pos,           \* progress of each handle's generator: Items + 1 is finished
    ending,        \* the last step of each generator: it returns, throws an Error,
                   \* or throws another value ("bare")
    timeouts

goVars == <<pc, sid, batch, got, outcome, client, reply>>
nodeVars == <<alive, epoch, nextStreamId, streams, pos>>
vars == <<goVars, socket, nodeVars, ending, timeouts>>

NoReply == [ok |-> "none", id |-> 0, steps |-> <<>>]
ErrReply == [ok |-> "err", id |-> 0, steps |-> <<>>]
OkReply(id, steps) == [ok |-> "ok", id |-> id, steps |-> steps]

NoStreams == <<>>

Waiting == {"opening", "pulling", "fallback", "closing"}

Steps == [kind : {"yield", "done", "error", "bare"}, from : Handles, value : 0 .. Items]

TypeOK ==
    /\ pc \in [Handles -> Waiting \cup {"new", "pull", "body", "close", "failed", "done"}]
    /\ sid \in [Handles -> Nat]
    /\ \A s \in Handles :
          /\ \A i \in DOMAIN batch[s] : batch[s][i] \in Steps /\ batch[s][i].kind # "error"
          /\ \A i \in DOMAIN got[s] : got[s][i] \in Steps /\ got[s][i].kind = "yield"
    /\ outcome \in [Handles -> {"none", "end", "break", "panic"}]
    /\ client \in [Handles -> 0 .. MaxDeaths + 1]
    /\ \A s \in Handles : reply[s].ok # "none" => pc[s] \in Waiting
    /\ alive \in BOOLEAN
    /\ epoch \in 1 .. MaxDeaths + 1
    /\ nextStreamId \in Nat \ {0}
    /\ \A k \in DOMAIN streams : k \in 1 .. nextStreamId - 1 /\ streams[k] \in Handles
    /\ pos \in [Handles -> 0 .. Items + 1]
    /\ ending \in [Handles -> {"done", "error", "bare"}]
    /\ timeouts \in 0 .. MaxTimeouts

Init ==
    /\ pc = [s \in Handles |-> "new"]
    /\ sid = [s \in Handles |-> 0]
    /\ batch = [s \in Handles |-> <<>>]
    /\ got = [s \in Handles |-> <<>>]
    /\ outcome = [s \in Handles |-> "none"]
    /\ client = [s \in Handles |-> 0]
    /\ reply = [s \in Handles |-> NoReply]
    /\ socket = <<>>
    /\ alive = TRUE
    /\ epoch = 1
    /\ nextStreamId = 1
    /\ streams = NoStreams
    /\ pos = [s \in Handles |-> 0]
    /\ ending \in [Handles -> {"done", "error", "bare"}]
    /\ timeouts = 0

-----------------------------------------------------------------------------
(* Calls                                                                   *)

\* GetClient, then Call: the request goes to the runtime of that client; a dead
\* one is replaced by a fresh process, whose stream ids start again at 1.
CallOn(s, method, at) ==
    /\ reply' = [reply EXCEPT ![s] = NoReply]
    /\ pc' = [pc EXCEPT ![s] = at]
    /\ socket' = (IF alive THEN socket ELSE <<>>) \o <<[m |-> method, by |-> s, id |-> sid[s], wanted |-> TRUE]>>
    /\ alive' = TRUE
    /\ epoch' = IF alive THEN epoch ELSE epoch + 1
    /\ client' = [client EXCEPT ![s] = epoch']
    /\ nextStreamId' = IF alive THEN nextStreamId ELSE 1
    /\ streams' = IF alive THEN streams ELSE NoStreams

\* The answer to an abandoned call is dropped.
Abandon(s) ==
    [i \in DOMAIN socket |-> IF socket[i].by = s THEN [socket[i] EXCEPT !.wanted = FALSE] ELSE socket[i]]

\* Call gives up after its timeout.
Timeout(s) ==
    /\ timeouts < MaxTimeouts
    /\ pc[s] \in Waiting
    /\ reply[s] = NoReply
    /\ reply' = [reply EXCEPT ![s] = ErrReply]
    /\ socket' = Abandon(s)
    /\ timeouts' = timeouts + 1
    /\ UNCHANGED <<pc, sid, batch, got, outcome, client, nodeVars, ending>>

-----------------------------------------------------------------------------
(* The loop of handle s                                                    *)

\* OpenSeqArgs
Open(s) ==
    /\ pc[s] = "new"
    /\ CallOn(s, "genOpen", "opening")
    /\ UNCHANGED <<sid, batch, got, outcome, pos, ending, timeouts>>

\* GenOpen returns: the handle exists, or the Result holds the error.
Opened(s) ==
    /\ pc[s] = "opening"
    /\ reply[s] # NoReply
    /\ pc' = [pc EXCEPT ![s] = IF reply[s].ok = "ok" THEN "pull" ELSE "failed"]
    /\ sid' = [sid EXCEPT ![s] = reply[s].id]
    /\ reply' = [reply EXCEPT ![s] = NoReply]
    /\ UNCHANGED <<batch, got, outcome, client, socket, nodeVars, ending, timeouts>>

\* The batch is used up: Seq.Next or NextBatch.
Pull(s) ==
    /\ pc[s] = "pull"
    /\ CallOn(s, "genNextBatch", "pulling")
    /\ UNCHANGED <<sid, batch, got, outcome, pos, ending, timeouts>>

\* A mutant: an error step is decoded like the others.
KeepErrorSteps(steps) == steps

\* clientGenNextBatch decodes every step; an error step with data (the runtime
\* sends the name and stack of an Error) fails the whole batch, and one without
\* (any other value was thrown) stays in it.
decodeGenStepWire(steps) ==
    IF \E i \in DOMAIN steps : steps[i].kind = "error" THEN <<>> ELSE steps

\* The steps of an answer go to the loop; with none the loop panics and the
\* deferred Close runs.
Deliver(s, steps) ==
    /\ batch' = [batch EXCEPT ![s] = steps]
    /\ pc' = [pc EXCEPT ![s] = IF steps = <<>> THEN "close" ELSE "body"]
    /\ outcome' = [outcome EXCEPT ![s] = IF steps = <<>> THEN "panic" ELSE @]

\* genNextBatch is answered.
Pulled(s) ==
    /\ pc[s] = "pulling"
    /\ reply[s].ok = "ok"
    /\ Deliver(s, decodeGenStepWire(reply[s].steps))
    /\ reply' = [reply EXCEPT ![s] = NoReply]
    /\ UNCHANGED <<sid, got, client, socket, nodeVars, ending, timeouts>>

\* genNextBatch failed and more than one item was asked for.
PullFails(s) ==
    /\ pc[s] = "pulling"
    /\ reply[s].ok = "err"
    /\ s \notin Singles
    /\ Deliver(s, <<>>)
    /\ reply' = [reply EXCEPT ![s] = NoReply]
    /\ UNCHANGED <<sid, got, client, socket, nodeVars, ending, timeouts>>

\* genNextBatch failed and one item was asked for: decodeSingleGenNext calls
\* genNext on the same client, which fails at once if its runtime has died.
FallBack(s) ==
    /\ pc[s] = "pulling"
    /\ reply[s].ok = "err"
    /\ s \in Singles
    /\ IF alive /\ client[s] = epoch
       THEN CallOn(s, "genNext", "fallback")
       ELSE /\ reply' = [reply EXCEPT ![s] = ErrReply]
            /\ pc' = [pc EXCEPT ![s] = "fallback"]
            /\ UNCHANGED <<client, socket, alive, epoch, nextStreamId, streams>>
    /\ UNCHANGED <<sid, batch, got, outcome, pos, ending, timeouts>>

\* genNext is answered, or fails.
FellBack(s) ==
    /\ pc[s] = "fallback"
    /\ reply[s] # NoReply
    /\ Deliver(s, decodeGenStepWire(reply[s].steps))
    /\ reply' = [reply EXCEPT ![s] = NoReply]
    /\ UNCHANGED <<sid, got, client, socket, nodeVars, ending, timeouts>>

\* A mutant: a batch that runs out ends the loop.
BodyEndsWithBatch(s) ==
    /\ pc[s] = "body"
    /\ LET step == Head(batch[s])
       IN  IF step.kind = "done"
           THEN /\ pc' = [pc EXCEPT ![s] = "close"]
                /\ batch' = [batch EXCEPT ![s] = <<>>]
                /\ outcome' = [outcome EXCEPT ![s] = "end"]
                /\ UNCHANGED got
           ELSE /\ got' = [got EXCEPT ![s] = Append(@, step)]
                /\ batch' = [batch EXCEPT ![s] = Tail(@)]
                /\ pc' = [pc EXCEPT ![s] = IF Len(batch[s]) > 1 THEN "body" ELSE "close"]
                /\ outcome' = [outcome EXCEPT ![s] = IF Len(batch[s]) > 1 THEN @ ELSE "end"]
    /\ UNCHANGED <<sid, client, reply, socket, nodeVars, ending, timeouts>>

\* One turn of the loop: `done` breaks, an error panics, an item runs the body.
Body(s) ==
    /\ pc[s] = "body"
    /\ LET step == Head(batch[s])
       IN  IF step.kind # "yield"
           THEN /\ pc' = [pc EXCEPT ![s] = "close"]
                /\ batch' = [batch EXCEPT ![s] = <<>>]
                /\ outcome' = [outcome EXCEPT ![s] = IF step.kind = "done" THEN "end" ELSE "panic"]
                /\ UNCHANGED got
           ELSE /\ got' = [got EXCEPT ![s] = Append(@, step)]
                /\ batch' = [batch EXCEPT ![s] = Tail(@)]
                /\ pc' = [pc EXCEPT ![s] = IF Len(batch[s]) > 1 THEN "body" ELSE "pull"]
                /\ UNCHANGED outcome
    /\ UNCHANGED <<sid, client, reply, socket, nodeVars, ending, timeouts>>

\* The body leaves the loop early; Close is deferred.
Break(s) ==
    /\ pc[s] \in {"body", "pull"}
    /\ got[s] # <<>>
    /\ pc' = [pc EXCEPT ![s] = "close"]
    /\ batch' = [batch EXCEPT ![s] = <<>>]
    /\ outcome' = [outcome EXCEPT ![s] = "break"]
    /\ UNCHANGED <<sid, got, client, reply, socket, nodeVars, ending, timeouts>>

\* A mutant: Close only marks the handle.
CloseLocally(s) ==
    /\ pc[s] = "close"
    /\ pc' = [pc EXCEPT ![s] = "done"]
    /\ sid' = [sid EXCEPT ![s] = 0]
    /\ UNCHANGED <<batch, got, outcome, client, reply, socket, nodeVars, ending, timeouts>>

\* Seq.Close: genClose with the id, which the handle forgets.
Close(s) ==
    /\ pc[s] = "close"
    /\ CallOn(s, "genClose", "closing")
    /\ sid' = [sid EXCEPT ![s] = 0]
    /\ UNCHANGED <<batch, got, outcome, pos, ending, timeouts>>

\* A mutant: Close waits for a genClose that succeeds.
ClosedOnlyIfOk(s) ==
    /\ pc[s] = "closing"
    /\ reply[s].ok = "ok"
    /\ pc' = [pc EXCEPT ![s] = "done"]
    /\ reply' = [reply EXCEPT ![s] = NoReply]
    /\ UNCHANGED <<sid, batch, got, outcome, client, socket, nodeVars, ending, timeouts>>

\* genClose returns, with or without an error.
Closed(s) ==
    /\ pc[s] = "closing"
    /\ reply[s] # NoReply
    /\ pc' = [pc EXCEPT ![s] = "done"]
    /\ reply' = [reply EXCEPT ![s] = NoReply]
    /\ UNCHANGED <<sid, batch, got, outcome, client, socket, nodeVars, ending, timeouts>>

\* GetClient cannot start a runtime: the call it was for fails.
SpawnFails(s) ==
    /\ ~alive
    /\ pc[s] \in {"new", "pull", "close"}
    /\ pc' = [pc EXCEPT ![s] = CASE @ = "new" -> "failed" [] @ = "pull" -> "close" [] @ = "close" -> "done"]
    /\ sid' = [sid EXCEPT ![s] = IF pc[s] = "close" THEN 0 ELSE @]
    /\ outcome' = [outcome EXCEPT ![s] = IF pc[s] = "pull" THEN "panic" ELSE @]
    /\ UNCHANGED <<batch, got, client, reply, socket, nodeVars, ending, timeouts>>

-----------------------------------------------------------------------------
(* The Node runtime                                                        *)

\* What k calls of next() on the generator of g give: items, then one final
\* step; once it has finished, `done` again.
stepsOf(g, k) ==
    LET End == IF pos[g] <= Items THEN ending[g] ELSE "done"
        Left == IF pos[g] > Items THEN 1 ELSE Items + 1 - pos[g]
    IN  [i \in 1 .. (IF k < Left THEN k ELSE Left) |->
            IF pos[g] + i <= Items
            THEN [kind |-> "yield", from |-> g, value |-> pos[g] + i]
            ELSE [kind |-> End, from |-> g, value |-> 0]]

Answer(r, value) ==
    reply' = IF r.wanted THEN [reply EXCEPT ![r.by] = value] ELSE reply

Take(method) ==
    /\ alive
    /\ socket # <<>>
    /\ Head(socket).m \in method
    /\ socket' = Tail(socket)
    /\ UNCHANGED <<pc, sid, batch, got, outcome, client, alive, epoch, ending, timeouts>>

\* streams.set(id, ...)
Registered(s) ==
    [k \in DOMAIN streams \cup {nextStreamId} |-> IF k = nextStreamId THEN s ELSE streams[k]]

\* A mutant: the stream id is not advanced.
OpenSameId ==
    /\ Take({"genOpen"})
    /\ streams' = Registered(Head(socket).by)
    /\ Answer(Head(socket), OkReply(nextStreamId, <<>>))
    /\ UNCHANGED <<nextStreamId, pos>>

handleGenOpen ==
    /\ Take({"genOpen"})
    /\ nextStreamId' = nextStreamId + 1
    /\ streams' = Registered(Head(socket).by)
    /\ Answer(Head(socket), OkReply(nextStreamId, <<>>))
    /\ UNCHANGED pos

\* A mutant: every request asks the generator for a new iterator.
NextStartsAgain ==
    /\ Take({"genNext", "genNextBatch"})
    /\ LET r == Head(socket)
           g == streams[r.id]
           steps == stepsOf(g, IF r.m = "genNext" \/ r.by \in Singles THEN 1 ELSE BatchSize)
       IN  Answer(r, IF r.id \notin DOMAIN streams THEN ErrReply ELSE OkReply(r.id, steps))
    /\ UNCHANGED <<pos, nextStreamId, streams>>

\* handleGenNext and handleGenNextBatch; requireStream fails on an unknown id.
handleGenNext ==
    /\ Take({"genNext", "genNextBatch"})
    /\ LET r == Head(socket)
           g == streams[r.id]
           steps == stepsOf(g, IF r.m = "genNext" \/ r.by \in Singles THEN 1 ELSE BatchSize)
       IN  IF r.id \notin DOMAIN streams
           THEN Answer(r, ErrReply) /\ UNCHANGED pos
           ELSE /\ Answer(r, OkReply(r.id, steps))
                /\ pos' = [pos EXCEPT ![g] = IF @ + Len(steps) > Items THEN Items + 1 ELSE @ + Len(steps)]
    /\ UNCHANGED <<nextStreamId, streams>>

\* An unknown id is not an error.
handleGenClose ==
    /\ Take({"genClose"})
    /\ streams' = [k \in DOMAIN streams \ {Head(socket).id} |-> streams[k]]
    /\ Answer(Head(socket), OkReply(0, <<>>))
    /\ UNCHANGED <<nextStreamId, pos>>

\* The process dies: its streams go with it and every waiting call fails.
NodeDies ==
    /\ alive
    /\ epoch <= MaxDeaths
    /\ alive' = FALSE
    /\ socket' = <<>>
    /\ streams' = NoStreams
    /\ reply' = [s \in Handles |-> IF pc[s] \in Waiting /\ reply[s] = NoReply THEN ErrReply ELSE reply[s]]
    /\ UNCHANGED <<pc, sid, batch, got, outcome, client, epoch, nextStreamId, pos, ending, timeouts>>

Loop(s) ==
    \/ Open(s) \/ Opened(s) \/ Pull(s) \/ Pulled(s) \/ PullFails(s) \/ FallBack(s) \/ FellBack(s)
    \/ Body(s) \/ Close(s) \/ Closed(s)

Node == handleGenOpen \/ handleGenNext \/ handleGenClose

Next ==
    \/ \E s \in Handles : Loop(s) \/ Break(s) \/ SpawnFails(s) \/ Timeout(s)
    \/ Node
    \/ NodeDies

Spec == Init /\ [][Next]_vars

\* The program runs on, and the runtime answers what it has received.
FairSpec == Spec /\ (\A s \in Handles : WF_vars(Loop(s))) /\ WF_vars(Node)

-----------------------------------------------------------------------------
(* Properties                                                              *)

Ended == \A s \in Handles : pc[s] \in {"done", "failed"}

\* While the runtime that opened the streams lives, a handle only delivers
\* items of the generator it was opened for, over a table of stream ids shared
\* by every handle of the program.
OwnItems ==
    epoch = 1 => \A s \in Handles : \A i \in DOMAIN got[s] : got[s][i].from = s

\* What the loop body has seen is a prefix of what the generator yields:
\* nothing skipped, repeated or reordered by batching.  This is about NextBatch;
\* Next repeats a pull after a timeout.
InOrder ==
    epoch = 1 =>
        \A s \in Handles \ Singles : \A i \in DOMAIN got[s] : got[s][i].value = i

\* A loop that ended by itself saw every item of a generator that returned: no
\* batch boundary, no answer that was dropped and no exception, with or without
\* data, ends it like a normal end.
CompleteOnEnd ==
    epoch = 1 => \A s \in Handles \ Singles :
                    outcome[s] = "end" => Len(got[s]) = Items /\ ending[s] = "done"

\* A loop sees the items in order and, when it ends by itself, all of them.
ItemsInOrderAndComplete == InOrder /\ CompleteOnEnd

\* When every loop has ended and every request been handled, the runtime holds
\* no stream, unless a genOpen was given up ("genClose ... so generator cleanup
\* runs on the host").
StreamsReleased ==
    Ended /\ socket = <<>> /\ timeouts = 0 => DOMAIN streams = {}

\* Every loop ends: with its last item, an early exit or a panic.
LoopsEnd ==
    <>Ended
=============================================================================
