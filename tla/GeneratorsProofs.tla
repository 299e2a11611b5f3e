-------------------------- MODULE GeneratorsProofs --------------------------
(***************************************************************************)
(* For any number of handles, items, timeouts and runtime deaths: a loop   *)
(* sees its own generator's items, in order and all of them, and no stream *)
(* is left open.                                                           *)
(***************************************************************************)
EXTENDS GeneratorsCalls

\* In the first runtime an id belongs to one handle.
IdOf(s, id) == id < nextStreamId /\ (id \in DOMAIN streams => streams[id] = s)
IdsOwned ==
    epoch = 1 =>
        /\ \A s \in Handles :
              /\ sid[s] # 0 => IdOf(s, sid[s])
              /\ reply[s].ok = "ok" /\ pc[s] = "opening" => IdOf(s, reply[s].id)
        /\ \A i \in DOMAIN socket :
              socket[i].m \in Pulls => IdOf(socket[i].by, socket[i].id)

From(s, steps) == \A i \in DOMAIN steps : steps[i].from = s
StepsOwned ==
    epoch = 1 =>
        \A s \in Handles : From(s, got[s]) /\ From(s, batch[s]) /\ From(s, reply[s].steps)

\* steps are the next ones of s's generator after what the body has seen.
Continues(s, steps) ==
    /\ pos[s] = Len(got[s]) + Len(steps)
    /\ \A i \in DOMAIN steps :
          IF steps[i].kind = "yield"
          THEN steps[i].value = Len(got[s]) + i /\ Len(got[s]) + i <= Items
          ELSE Len(got[s]) + i = Items + 1 /\ steps[i].kind = ending[s]

\* A loop is never ahead of or behind its generator.
SeenInStep(s) ==
    /\ Len(got[s]) <= Items
    /\ \A i \in DOMAIN got[s] : got[s][i].value = i
    /\ pc[s] \in {"new", "opening", "pull"} => pos[s] = Len(got[s])
    /\ pc[s] = "pulling" /\ reply[s] = NoReply => pos[s] = Len(got[s])
    /\ pc[s] = "pulling" /\ reply[s].ok = "ok" => Continues(s, reply[s].steps)
    /\ pc[s] = "body" => Continues(s, batch[s])
    /\ pc[s] # "fallback"
    /\ outcome[s] = "end" => Len(got[s]) = Items /\ ending[s] = "done"

\* Where a loop is once one of its pulls has been given up.
GivenUp(s) ==
    \/ pc[s] = "pulling" /\ reply[s].ok = "err"
    \/ pc[s] \in {"close", "closing", "done"}
\* Only such a loop has left a pull behind it on the socket.
PullsGivenUp(s) ==
    \A i \in DOMAIN socket :
        socket[i].by = s /\ socket[i].m \in Pulls /\ ~socket[i].wanted => GivenUp(s)

\* A handle pulled with NextBatch is never ahead of or behind its generator.
InStep ==
    epoch = 1 => \A s \in Handles \ Singles : SeenInStep(s) /\ PullsGivenUp(s)

\* Without timeouts somebody is going to close every open stream.
WillClose(g, id) ==
    \/ pc[g] = "opening" /\ reply[g].ok = "ok" /\ reply[g].id = id
    \/ pc[g] \in {"pull", "pulling", "fallback", "body", "close"} /\ sid[g] = id
    \/ \E i \in DOMAIN socket : socket[i].m = "genClose" /\ socket[i].id = id
Releasing ==
    timeouts = 0 =>
        /\ \A i \in DOMAIN socket : socket[i].wanted
        /\ \A id \in DOMAIN streams : WillClose(streams[id], id)

IInv == Sound /\ IdsOwned /\ StepsOwned /\ InStep /\ Releasing

-----------------------------------------------------------------------------
(* Who gets which id and which steps                                       *)

\* The first runtime is never started again.
LEMMA EpochGrows ==
    ASSUME IInv, Next, epoch' = 1
    PROVE  epoch = 1
<1>1. epoch \in Nat \ {0}
  BY Constants DEF IInv, Sound, Typed, TypeOK
<1>2. epoch' = epoch \/ epoch' = epoch + 1
  <2>1. ASSUME NEW s \in Handles, LocalStep(s) PROVE epoch' = epoch
    BY <2>1, Local DEF IInv, Sound
  <2>2. ASSUME NEW s \in Handles, NEW method \in Methods, CallStep(s, method)
        PROVE  epoch' = epoch \/ epoch' = epoch + 1
    BY <2>2, Calling DEF IInv, Sound
  <2>3. ASSUME NEW s \in Handles, FallFails(s) \/ Timeout(s) PROVE epoch' = epoch
    BY <2>3 DEF FallFails, Timeout, nodeVars
  <2>4. ASSUME handleGenOpen \/ handleGenNext \/ handleGenClose \/ NodeDies PROVE epoch' = epoch
    BY <2>4 DEF handleGenOpen, handleGenNext, handleGenClose, NodeDies, Take
  <2> QED
    BY <2>1, <2>2, <2>3, <2>4, Forms
<1> QED
  BY <1>1, <1>2

\* Every step keeps ids with the handle they were given to, in the first runtime.
LEMMA IdsStep == IInv /\ [Next]_vars => IdsOwned'
<1> SUFFICES ASSUME IInv, [Next]_vars, epoch' = 1
             PROVE  /\ \A h \in Handles :
                          /\ sid'[h] # 0 => IdOf(h, sid[h])'
                          /\ reply'[h].ok = "ok" /\ pc'[h] = "opening" => IdOf(h, reply[h].id)'
                    /\ \A i \in DOMAIN socket' :
                          socket'[i].m \in Pulls => IdOf(socket[i].by, socket[i].id)'
  BY DEF IdsOwned
<1> DEFINE Goal == /\ \A h \in Handles :
                         /\ sid'[h] # 0 => IdOf(h, sid[h])'
                         /\ reply'[h].ok = "ok" /\ pc'[h] = "opening" => IdOf(h, reply[h].id)'
                   /\ \A i \in DOMAIN socket' :
                         socket'[i].m \in Pulls => IdOf(socket[i].by, socket[i].id)'
<1> USE DEF IInv, Sound
<1>0. CASE UNCHANGED vars
  BY <1>0 DEF vars, goVars, nodeVars, IdsOwned, IdOf
<1> SUFFICES ASSUME Next PROVE Goal
  BY <1>0
<1>a. epoch = 1
  BY EpochGrows
<1>b. /\ \A h \in Handles :
            /\ sid[h] # 0 => IdOf(h, sid[h])
            /\ reply[h].ok = "ok" /\ pc[h] = "opening" => IdOf(h, reply[h].id)
      /\ \A i \in DOMAIN socket : socket[i].m \in Pulls => IdOf(socket[i].by, socket[i].id)
  BY <1>a DEF IdsOwned
<1>1. ASSUME NEW s \in Handles, LocalStep(s) PROVE Goal
  <2>1. /\ UNCHANGED <<socket, nextStreamId, streams>> /\ OthersKept(s) /\ reply'[s] = NoReply
    BY <1>1, Local
  <2>2. sid'[s] # 0 => sid'[s] = sid[s] \/ (reply[s].ok = "ok" /\ pc[s] = "opening" /\ sid'[s] = reply[s].id)
    <3>1. CASE Opened(s)
      BY <3>1 DEF Opened, Typed, TypeOK, Replies, LoopsSound, ErrReply, NoReply
    <3>2. CASE ~Opened(s)
      BY <1>1, <3>2 DEF LocalStep, Pulled, PullFails, FellBack, Body, Break, Closed, SpawnFails, Typed, TypeOK
    <3> QED
      BY <3>1, <3>2
  <2> QED
    BY <1>b, <2>1, <2>2 DEF OthersKept, IdOf, NoReply
<1>2. ASSUME NEW s \in Handles, NEW method \in Methods, CallStep(s, method) PROVE Goal
  <2> DEFINE n == Len(socket) + 1
  <2>1. /\ DOMAIN socket' = DOMAIN socket \cup {n}
        /\ \A i \in DOMAIN socket : socket'[i] = socket[i]
        /\ socket'[n].m = method /\ socket'[n].by = s /\ socket'[n].id = sid[s]
    BY <1>2, Queued, Zenon
  <2> HIDE DEF n
  <2>2. UNCHANGED <<nextStreamId, streams>> /\ OthersKept(s) /\ reply'[s] = NoReply
    BY <1>2, Calling
  <2>3. method \in Pulls => sid[s] # 0
    BY <1>2 DEF CallStep, CalledAt, Pulls, Methods, LoopsSound
  <2>4. sid'[s] # 0 => sid'[s] = sid[s]
    BY <1>2 DEF CallStep, Typed, TypeOK
  <2> QED
    BY <1>b, <2>1, <2>2, <2>3, <2>4 DEF OthersKept, IdOf, NoReply
<1>3. ASSUME NEW s \in Handles, FallFails(s) PROVE Goal
  BY <1>b, <1>3 DEF FallFails, IdOf, Typed, TypeOK, ErrReply
<1>4. ASSUME NEW s \in Handles, Timeout(s) PROVE Goal
  <2>1. /\ DOMAIN socket' = DOMAIN socket /\ UNCHANGED <<pc, sid, nextStreamId, streams>>
        /\ \A i \in DOMAIN socket :
              socket'[i].m = socket[i].m /\ socket'[i].by = socket[i].by /\ socket'[i].id = socket[i].id
    BY <1>4, Abandoned DEF Timeout, Typed, nodeVars
  <2>2. \A h \in Handles : reply'[h].ok = "ok" => reply'[h] = reply[h]
    BY <1>4 DEF Timeout, Typed, ErrReply
  <2> QED
    BY <1>b, <2>1, <2>2 DEF IdOf
<1>5. ASSUME handleGenOpen \/ handleGenNext \/ handleGenClose PROVE Goal
  <2>1. PICK v : /\ Take(Methods) /\ Answer(Head(socket), v)
                 /\ handleGenOpen => v = OkReply(nextStreamId, <<>>) /\ socket[1].m = "genOpen"
                 /\ handleGenClose => v = OkReply(0, <<>>) /\ socket[1].m = "genClose"
                 /\ handleGenNext => socket[1].m \in Pulls /\ (v = ErrReply \/ v.ok = "ok")
    BY <1>5, Handling
  <2>2. UNCHANGED <<pc, sid>>
    BY <2>1 DEF Take
  <2>3. ASSUME NEW h \in Handles, NEW id \in Nat, IdOf(h, id)
        PROVE  id < nextStreamId' /\ (id \in DOMAIN streams' => streams'[id] = h)
    <3>1. CASE handleGenOpen
      <4>1. nextStreamId' = nextStreamId + 1 /\ nextStreamId \in Int
        BY <3>1, Constants DEF handleGenOpen, Typed, TypeOK
      <4>2. \A k \in DOMAIN streams' : k # nextStreamId => k \in DOMAIN streams /\ streams'[k] = streams[k]
        BY <3>1 DEF handleGenOpen, Registered
      <4> QED
        BY <2>3, <4>1, <4>2 DEF IdOf
    <3>2. CASE handleGenNext
      BY <2>3, <3>2 DEF handleGenNext, IdOf
    <3>3. CASE handleGenClose
      BY <2>3, <3>3 DEF handleGenClose, IdOf, Typed, TypeOK
    <3> QED
      BY <1>5, <3>1, <3>2, <3>3
  <2>4. ASSUME NEW h \in Handles, reply'[h].ok = "ok", pc'[h] = "opening" PROVE IdOf(h, reply[h].id)'
    <3>1. CASE ~(socket[1].wanted /\ h = socket[1].by)
      <4>1. reply'[h] = reply[h] /\ reply[h].id \in Nat
        BY <2>1, <2>2, <2>4, <3>1, Answering DEF Typed, Replies, LoopsSound
      <4> QED
        BY <1>b, <2>2, <2>3, <2>4, <4>1 DEF IdOf
    <3>2. CASE socket[1].wanted /\ h = socket[1].by
      <4>1. socket[1].m = "genOpen" /\ reply'[h] = v
        BY <2>1, <2>2, <2>4, <3>2, Answering, Taken DEF AwaitedAt, Methods
      <4>2. handleGenOpen /\ reply'[h].id = nextStreamId
        BY <1>5, <2>1, <4>1 DEF Pulls, OkReply
      <4>3. nextStreamId \in Nat
        BY DEF Typed, TypeOK
      <4>4. nextStreamId' = nextStreamId + 1 /\ streams'[nextStreamId] = h
        BY <2>1, <3>2, <4>2, Taken DEF handleGenOpen, Registered
      <4> QED
        BY <4>2, <4>3, <4>4 DEF IdOf
    <3> QED
      BY <3>1, <3>2
  <2>5. ASSUME NEW i \in DOMAIN socket', socket'[i].m \in Pulls PROVE IdOf(socket[i].by, socket[i].id)'
    <3>1. i + 1 \in DOMAIN socket /\ socket'[i] = socket[i + 1]
      BY <2>1, Taken
    <3>2. socket[i + 1].by \in Handles /\ socket[i + 1].id \in Nat
      BY <2>5, <3>1, InSocket DEF RequestsSound
    <3>3. IdOf(socket[i + 1].by, socket[i + 1].id)
      BY <1>b, <2>5, <3>1
    <3> QED
      BY <2>3, <3>1, <3>2, <3>3 DEF IdOf
  <2>6. \A h \in Handles : sid'[h] # 0 => IdOf(h, sid[h])'
    <3> SUFFICES ASSUME NEW h \in Handles, sid'[h] # 0 PROVE IdOf(h, sid[h])'
      OBVIOUS
    <3>1. sid[h] \in Nat /\ IdOf(h, sid[h]) /\ sid'[h] = sid[h]
      BY <1>b, <2>2 DEF Typed, TypeOK
    <3> QED
      BY <2>3, <3>1 DEF IdOf
  <2> QED
    BY <2>4, <2>5, <2>6
<1>6. ASSUME NodeDies PROVE Goal
  <2>1. UNCHANGED <<pc, sid, nextStreamId>> /\ streams' = NoStreams /\ DOMAIN socket' = {}
    BY <1>6 DEF NodeDies
  <2>2. DOMAIN streams' = {}
    BY <2>1, Constants
  <2>3. \A h \in Handles : reply'[h].ok = "ok" => reply'[h] = reply[h]
    BY <1>6 DEF NodeDies, ErrReply
  <2> QED
    BY <1>b, <2>1, <2>2, <2>3 DEF IdOf
<1> QED
  BY <1>1, <1>2, <1>3, <1>4, <1>5, <1>6, Forms

\* What handleGenNext answers a caller of the first runtime: the next steps of
\* the caller's own generator, or an error.
LEMMA NextAnswer ==
    ASSUME IInv, handleGenNext, epoch = 1
    PROVE  LET s == socket[1].by
           IN  \/ /\ Answer(Head(socket), ErrReply) /\ pos' = pos
               \/ \E k \in Nat \ {0} :
                     LET t == stepsOf(s, k)
                     IN  /\ Answer(Head(socket), OkReply(socket[1].id, t))
                         /\ pos' = [pos EXCEPT ![s] = IF @ + Len(t) > Items THEN Items + 1 ELSE @ + Len(t)]
<1> DEFINE r == Head(socket)
           g == streams[r.id]
           k == IF r.m = "genNext" \/ r.by \in Singles THEN 1 ELSE BatchSize
<1>1. Take({"genNext", "genNextBatch"}) /\ Typed
  BY DEF handleGenNext, IInv, Sound
<1>2. r = socket[1] /\ r.m \in Pulls /\ 1 \in DOMAIN socket
  BY <1>1, Taken DEF Pulls
<1>3. r.id \in DOMAIN streams => g = r.by
  BY <1>2 DEF IInv, Sound, IdsOwned, IdOf
<1>4. k \in Nat \ {0}
  BY Constants
<1>5. CASE r.id \notin DOMAIN streams
  BY <1>5 DEF handleGenNext
<1>6. CASE r.id \in DOMAIN streams
  <2>1. g = r.by
    BY <1>3, <1>6
  <2>2. /\ Answer(r, OkReply(r.id, stepsOf(g, k)))
        /\ pos' = [pos EXCEPT ![g] = IF @ + Len(stepsOf(g, k)) > Items THEN Items + 1
                                     ELSE @ + Len(stepsOf(g, k))]
    BY <1>6 DEF handleGenNext
  <2> HIDE DEF g, k
  <2> QED
    BY <1>2, <1>4, <2>1, <2>2, Zenon
<1> QED
  BY <1>5, <1>6

StepsOf(s) == From(s, got[s]) /\ From(s, batch[s]) /\ From(s, reply[s].steps)

\* Every step keeps each loop's steps those of its own generator.
LEMMA StepsStep == IInv /\ [Next]_vars => StepsOwned'
<1> SUFFICES ASSUME IInv, [Next]_vars, epoch' = 1
             PROVE  \A h \in Handles : StepsOf(h)'
  BY DEF StepsOwned, StepsOf
<1> USE DEF IInv, Sound
<1>0. CASE UNCHANGED vars
  BY <1>0 DEF vars, goVars, nodeVars, StepsOwned, StepsOf, From
<1> SUFFICES ASSUME Next PROVE \A h \in Handles : StepsOf(h)'
  BY <1>0
<1>a. epoch = 1
  BY EpochGrows
<1>b. \A h \in Handles : StepsOf(h)
  BY <1>a DEF StepsOwned, StepsOf
<1>c. \A h : From(h, <<>>)
  BY DEF From
<1>d. NoReply.steps = <<>> /\ ErrReply.steps = <<>>
  BY DEF NoReply, ErrReply
<1>1. ASSUME NEW s \in Handles, LocalStep(s), NEW h \in Handles PROVE StepsOf(h)'
  <2>1. CASE h # s
    BY <1>b, <1>1, <2>1, Local DEF OthersKept, StepsOf, From
  <2>2. CASE h = s
    <3>1. From(s, got'[s]) /\ From(s, batch'[s])
      <4>0. StepsOf(s) /\ pc \in [Handles -> Waiting \cup {"new", "pull", "body", "close", "failed", "done"}]
            /\ batch \in [Handles -> Seq(Steps)] /\ got \in [Handles -> Seq(Steps)]
        BY <1>b DEF Typed, TypeOK
      <4>1. CASE Opened(s) \/ Closed(s) \/ SpawnFails(s)
        BY <4>0, <4>1 DEF Opened, Closed, SpawnFails, StepsOf
      <4>2. CASE Pulled(s) \/ FellBack(s)
        <5>1. got' = got /\ batch'[s] = decodeGenStepWire(reply[s].steps)
          BY <4>0, <4>2 DEF Pulled, FellBack, Deliver
        <5>2. reply[s].steps \in Seq(Steps)
          BY DEF Typed, Replies
        <5>3. batch'[s] = <<>> \/ batch'[s] = reply[s].steps
          BY <5>1, <5>2, Decoding
        <5> QED
          BY <1>c, <4>0, <5>1, <5>3 DEF StepsOf
      <4>3. CASE PullFails(s) \/ Break(s)
        BY <1>c, <4>0, <4>3 DEF PullFails, Break, Deliver, StepsOf
      <4>4. CASE Body(s)
        <5>1. batch[s] \in Seq(Steps) /\ batch[s] # <<>> /\ got[s] \in Seq(Steps)
          BY <4>0, <4>4 DEF Body, LoopsSound
        <5>2. CASE Head(batch[s]).kind # "yield"
          <6>1. got' = got /\ batch'[s] = <<>>
            BY <4>0, <4>4, <5>2 DEF Body
          <6> QED
            BY <1>c, <4>0, <6>1 DEF StepsOf
        <5>3. CASE Head(batch[s]).kind = "yield"
          <6>1. got'[s] = Append(got[s], Head(batch[s])) /\ batch'[s] = Tail(batch[s])
            BY <4>0, <4>4, <5>3 DEF Body
          <6>2. Head(batch[s]) \in Steps /\ Head(batch[s]).from = s
            BY <4>0, <5>1, Popped DEF StepsOf, From
          <6>3. From(s, Append(got[s], Head(batch[s])))
            BY <4>0, <5>1, <6>2 DEF StepsOf, From
          <6>4. From(s, Tail(batch[s]))
            BY <4>0, <5>1, Popped DEF StepsOf, From
          <6> QED
            BY <6>1, <6>3, <6>4
        <5> QED
          BY <5>2, <5>3
      <4> QED
        BY <1>1, <4>1, <4>2, <4>3, <4>4 DEF LocalStep
    <3>2. reply'[s] = NoReply
      BY <1>1, Local
    <3> QED
      BY <1>c, <1>d, <2>2, <3>1, <3>2 DEF StepsOf, From
  <2> QED
    BY <2>1, <2>2
<1>2. ASSUME NEW s \in Handles, NEW method \in Methods, CallStep(s, method), NEW h \in Handles
      PROVE StepsOf(h)'
  <2>1. OthersKept(s) /\ UNCHANGED <<got, batch>> /\ reply'[s] = NoReply
    BY <1>2, Calling
  <2> QED
    BY <1>b, <1>c, <1>d, <2>1 DEF OthersKept, StepsOf, From
<1>3. ASSUME NEW s \in Handles, FallFails(s) \/ Timeout(s), NEW h \in Handles PROVE StepsOf(h)'
  <2>1. UNCHANGED <<got, batch>> /\ reply'[h] \in {reply[h], ErrReply}
    BY <1>3 DEF FallFails, Timeout, Typed
  <2> QED
    BY <1>b, <1>c, <1>d, <2>1 DEF StepsOf, From
<1>4. ASSUME handleGenOpen \/ handleGenNext \/ handleGenClose, NEW h \in Handles PROVE StepsOf(h)'
  <2>1. \E v : /\ Take(Methods) /\ Answer(Head(socket), v)
               /\ v.steps = <<>> \/ From(socket[1].by, v.steps)
    <3>1. CASE handleGenOpen \/ handleGenClose
      BY <3>1, Handling DEF OkReply
    <3>2. CASE handleGenNext
      <4>1. Take(Methods) /\ socket[1].by \in Handles
        BY <3>2, Handling, Taken
      <4>2. CASE Answer(Head(socket), ErrReply)
        BY <1>d, <4>1, <4>2
      <4>3. ASSUME NEW k \in Nat \ {0},
                   Answer(Head(socket), OkReply(socket[1].id, stepsOf(socket[1].by, k)))
            PROVE  \E v : /\ Take(Methods) /\ Answer(Head(socket), v)
                          /\ v.steps = <<>> \/ From(socket[1].by, v.steps)
        <5>1. From(socket[1].by, stepsOf(socket[1].by, k))
          BY <4>1, NextSteps DEF From
        <5>2. OkReply(socket[1].id, stepsOf(socket[1].by, k)).steps = stepsOf(socket[1].by, k)
          BY DEF OkReply
        <5> QED
          BY <4>1, <4>3, <5>1, <5>2
      <4> QED
        BY <1>a, <3>2, <4>2, <4>3, NextAnswer
    <3> QED
      BY <1>4, <3>1, <3>2
  <2>2. PICK v : /\ Take(Methods) /\ Answer(Head(socket), v)
                 /\ v.steps = <<>> \/ From(socket[1].by, v.steps)
    BY <2>1
  <2>3. UNCHANGED <<got, batch>>
    BY <2>2 DEF Take
  <2>4. reply'[h] = reply[h] \/ (h = socket[1].by /\ reply'[h] = v)
    BY <2>2, Answering
  <2> QED
    BY <1>b, <1>c, <2>2, <2>3, <2>4 DEF StepsOf, From
<1>5. ASSUME NodeDies, NEW h \in Handles PROVE StepsOf(h)'
  <2>1. UNCHANGED <<got, batch>> /\ reply'[h] \in {reply[h], ErrReply}
    BY <1>5 DEF NodeDies
  <2> QED
    BY <1>b, <1>c, <1>d, <2>1 DEF StepsOf, From
<1> QED
  BY <1>1, <1>2, <1>3, <1>4, <1>5, Forms

\* The loop body takes one step of the batch.
LEMMA BodyInStep ==
    ASSUME IInv, NEW s \in Handles, Body(s), SeenInStep(s)
    PROVE  SeenInStep(s)'
<1> DEFINE b == batch[s]
           g == got[s]
<1>1. /\ b \in Seq(Steps) /\ b # <<>> /\ g \in Seq(Steps)
      /\ pc[s] = "body" /\ pos' = pos /\ ending' = ending /\ Continues(s, b) /\ outcome[s] = "none"
      /\ Len(g) <= Items /\ \A i \in DOMAIN g : g[i].value = i
  BY ZenonT(30) DEF Body, IInv, Sound, Typed, LoopsSound, nodeVars, SeenInStep
<1>2. /\ Head(b) = b[1] /\ 1 \in DOMAIN b /\ Len(b) \in Nat \ {0} /\ DOMAIN b = 1 .. Len(b)
      /\ Len(Tail(b)) = Len(b) - 1 /\ DOMAIN Tail(b) = 1 .. Len(b) - 1
      /\ \A i \in DOMAIN Tail(b) : i + 1 \in DOMAIN b /\ Tail(b)[i] = b[i + 1]
  BY <1>1, Popped
<1>3. Len(g) \in Nat /\ DOMAIN g = 1 .. Len(g) /\ Items \in Nat
  BY <1>1, Constants
<1>4. /\ pos[s] = Len(g) + Len(b)
      /\ \A i \in DOMAIN b : IF b[i].kind = "yield"
                             THEN b[i].value = Len(g) + i /\ Len(g) + i <= Items
                             ELSE Len(g) + i = Items + 1 /\ b[i].kind = ending[s]
  BY <1>1 DEF Continues
<1>5. pc \in [Handles -> Waiting \cup {"new", "pull", "body", "close", "failed", "done"}]
      /\ batch \in [Handles -> Seq(Steps)] /\ got \in [Handles -> Seq(Steps)]
      /\ outcome \in [Handles -> {"none", "end", "break", "panic"}]
  BY DEF IInv, Sound, Typed, TypeOK
<1>6. CASE Head(b).kind # "yield"
  <2>1. got' = got /\ pc'[s] = "close"
    BY <1>5, <1>6 DEF Body
  <2>2. Len(g) = Items /\ Head(b).kind = ending[s]
    BY <1>2, <1>3, <1>4, <1>6
  <2>3. outcome'[s] = "end" => ending'[s] = "done"
    BY <1>1, <1>5, <1>6, <2>2 DEF Body
  <2> QED
    BY <1>1, <2>1, <2>2, <2>3, ZenonT(30) DEF SeenInStep
<1>7. CASE Head(b).kind = "yield"
  <2>1. /\ got'[s] = Append(g, Head(b)) /\ batch'[s] = Tail(b) /\ outcome' = outcome
        /\ pc'[s] = IF Len(b) > 1 THEN "body" ELSE "pull"
    BY <1>5, <1>7 DEF Body
  <2>2. Head(b).kind = "yield"
    BY <1>7
  <2> HIDE DEF b, g
  <2>3. Head(b).value = Len(g) + 1 /\ Len(g) + 1 <= Items
    BY <1>2, <1>4, <2>2
  <2>4. /\ Len(Append(g, Head(b))) = Len(g) + 1
        /\ \A i \in DOMAIN Append(g, Head(b)) : Append(g, Head(b))[i].value = i
    <3>1. /\ Len(Append(g, Head(b))) = Len(g) + 1 /\ DOMAIN Append(g, Head(b)) = 1 .. Len(g) + 1
          /\ \A i \in 1 .. Len(g) : Append(g, Head(b))[i] = g[i]
          /\ Append(g, Head(b))[Len(g) + 1] = Head(b)
      <4>1. Head(b) \in Steps
        BY <1>1, <1>2
      <4> QED
        BY <1>1, <4>1
    <3> QED
      BY <1>1, <1>3, <2>3, <3>1
  <2>5. \A i \in DOMAIN Tail(b) : IF Tail(b)[i].kind = "yield"
                                  THEN Tail(b)[i].value = Len(g) + 1 + i /\ Len(g) + 1 + i <= Items
                                  ELSE Len(g) + 1 + i = Items + 1 /\ Tail(b)[i].kind = ending[s]
    <3> SUFFICES ASSUME NEW i \in DOMAIN Tail(b)
                 PROVE  IF Tail(b)[i].kind = "yield"
                        THEN Tail(b)[i].value = Len(g) + 1 + i /\ Len(g) + 1 + i <= Items
                        ELSE Len(g) + 1 + i = Items + 1 /\ Tail(b)[i].kind = ending[s]
      OBVIOUS
    <3>1. i \in Int /\ i + 1 \in DOMAIN b /\ Tail(b)[i] = b[i + 1]
      BY <1>2
    <3>2. CASE b[i + 1].kind = "yield"
      <4>1. b[i + 1].value = Len(g) + (i + 1) /\ Len(g) + (i + 1) <= Items
        BY <1>4, <3>1, <3>2, Zenon
      <4> QED
        BY <1>3, <3>1, <3>2, <4>1
    <3>3. CASE b[i + 1].kind # "yield"
      <4>1. Len(g) + (i + 1) = Items + 1 /\ b[i + 1].kind = ending[s]
        BY <1>4, <3>1, <3>3, Zenon
      <4> QED
        BY <1>3, <3>1, <3>3, <4>1
    <3> QED
      BY <3>1, <3>2, <3>3
  <2>6. Continues(s, batch[s])'
    <3>1. pos'[s] = Len(g) + 1 + Len(Tail(b))
      BY <1>1, <1>2, <1>3, <1>4
    <3>2. Len(got'[s]) = Len(g) + 1 /\ batch'[s] = Tail(b)
      BY <2>1, <2>4
    <3> QED
      BY <1>1, <2>5, <3>1, <3>2 DEF Continues
  <2>7. ~(Len(b) > 1) => pos'[s] = Len(g) + 1
    BY <1>1, <1>2, <1>3, <1>4
  <2>8. outcome'[s] = "none"
    BY <1>1, <2>1
  <2> QED
    BY <1>3, <2>1, <2>3, <2>4, <2>6, <2>7, <2>8 DEF SeenInStep
<1> QED
  BY <1>6, <1>7

\* A step that leaves a loop and its generator alone, or fails its call.
LEMMA KeptInStep ==
    ASSUME NEW h \in Handles, SeenInStep(h),
           pc'[h] = pc[h], batch'[h] = batch[h], got'[h] = got[h], outcome'[h] = outcome[h],
           pos'[h] = pos[h], ending' = ending, reply'[h] = reply[h] \/ reply'[h] = ErrReply
    PROVE  SeenInStep(h)'
<1>1. ErrReply.ok = "err" /\ ErrReply # NoReply
  BY DEF ErrReply, NoReply
<1>2. CASE reply'[h] = reply[h]
  BY <1>2, Zenon DEF SeenInStep, Continues
<1>3. CASE reply'[h] = ErrReply
  BY <1>1, <1>3, Zenon DEF SeenInStep, Continues
<1> QED
  BY <1>2, <1>3

\* Every step keeps a NextBatch loop in step with its generator.
LEMMA InStepStep == IInv /\ [Next]_vars => InStep'
<1> SUFFICES ASSUME IInv, [Next]_vars, epoch' = 1
             PROVE  \A h \in Handles \ Singles : SeenInStep(h)' /\ PullsGivenUp(h)'
  BY DEF InStep
<1> USE DEF IInv, Sound
<1>0. CASE UNCHANGED vars
  BY <1>0, ZenonT(30) DEF vars, goVars, nodeVars, InStep, SeenInStep, PullsGivenUp, GivenUp, Continues
<1> SUFFICES ASSUME Next, NEW h \in Handles \ Singles PROVE SeenInStep(h)' /\ PullsGivenUp(h)'
  BY <1>0
<1>a. epoch = 1
  BY EpochGrows
<1>b. SeenInStep(h) /\ PullsGivenUp(h)
  BY <1>a DEF InStep
<1>1. ASSUME NEW s \in Handles, LocalStep(s) PROVE SeenInStep(h)' /\ PullsGivenUp(h)'
  <2>1. UNCHANGED <<socket, pos, ending>> /\ OthersKept(s)
    BY <1>1, Local
  <2>2. CASE h # s
    <3>1. SeenInStep(h)'
      BY <1>b, <2>1, <2>2, KeptInStep DEF OthersKept
    <3> QED
      BY <1>b, <2>1, <2>2, <3>1 DEF OthersKept, PullsGivenUp, GivenUp
  <2>3. CASE h = s
    <3>1. SeenInStep(s) /\ PullsGivenUp(s) /\ s \notin Singles
      BY <1>b, <2>3
    <3>2. /\ pc \in [Handles -> Waiting \cup {"new", "pull", "body", "close", "failed", "done"}]
          /\ batch \in [Handles -> Seq(Steps)] /\ got \in [Handles -> Seq(Steps)]
          /\ outcome \in [Handles -> {"none", "end", "break", "panic"}]
          /\ reply[s].steps \in Seq(Steps)
      BY ZenonT(30) DEF Typed, TypeOK, Replies
    <3>3. outcome[s] # "none" => pc[s] \in {"close", "closing", "done"}
      BY DEF LoopsSound
    <3>4. SeenInStep(s)'
      <4>1. CASE Opened(s)
        BY <2>1, <3>1, <3>2, <4>1, ZenonT(30) DEF Opened, SeenInStep
      <4>2. CASE Pulled(s)
        <5>1. /\ pc[s] = "pulling" /\ reply[s].ok = "ok" /\ got' = got
              /\ batch'[s] = decodeGenStepWire(reply[s].steps)
              /\ pc'[s] = IF batch'[s] = <<>> THEN "close" ELSE "body"
              /\ outcome'[s] # "end"
          BY <3>2, <3>3, <4>2 DEF Pulled, Deliver
        <5>2. pc'[s] = "body" => batch'[s] = reply[s].steps
          BY <3>2, <5>1, Decoding
        <5> QED
          BY <2>1, <3>1, <5>1, <5>2, Zenon DEF SeenInStep, Continues
      <4>3. CASE PullFails(s)
        BY <2>1, <3>1, <3>2, <3>3, <4>3, ZenonT(30) DEF PullFails, Deliver, SeenInStep
      <4>4. CASE FellBack(s)
        BY <3>1, <4>4 DEF FellBack, SeenInStep
      <4>5. CASE Body(s)
        BY <3>1, <4>5, BodyInStep
      <4>6. CASE Break(s)
        BY <2>1, <3>1, <3>2, <4>6, ZenonT(30) DEF Break, SeenInStep
      <4>7. CASE Closed(s)
        BY <2>1, <3>1, <3>2, <4>7 DEF Closed, SeenInStep
      <4>8. CASE SpawnFails(s)
        BY <2>1, <3>1, <3>2, <4>8 DEF SpawnFails, SeenInStep
      <4> QED
        BY <1>1, <4>1, <4>2, <4>3, <4>4, <4>5, <4>6, <4>7, <4>8 DEF LocalStep
    <3>5. GivenUp(s) => GivenUp(s)'
      BY <1>1, <3>2 DEF LocalStep, Opened, Pulled, PullFails, FellBack, Body, Break, Closed, SpawnFails,
                        Deliver, GivenUp
    <3> QED
      BY <2>1, <2>3, <3>1, <3>4, <3>5 DEF PullsGivenUp
  <2> QED
    BY <2>2, <2>3
<1>2. ASSUME NEW s \in Handles, NEW method \in Methods, CallStep(s, method)
      PROVE  SeenInStep(h)' /\ PullsGivenUp(h)'
  <2> DEFINE n == Len(socket) + 1
  <2>1. /\ DOMAIN socket' = DOMAIN socket \cup {n}
        /\ \A i \in DOMAIN socket : socket'[i] = socket[i]
        /\ socket'[n].wanted
    BY <1>2, Queued, Zenon
  <2> HIDE DEF n
  <2>2. /\ OthersKept(s) /\ UNCHANGED <<batch, got, outcome, pos, ending>> /\ reply'[s] = NoReply
        /\ pc[s] = CalledAt(method) /\ pc'[s] = AwaitedAt(method)
    BY <1>2, Calling
  <2>3. h = s => method # "genNext"
    BY <1>2 DEF CallStep
  <2>4. SeenInStep(h)'
    <3>1. CASE h # s
      BY <1>b, <2>2, <3>1, KeptInStep DEF OthersKept
    <3>2. CASE h = s
      <4>1. \/ pc[h] = "new" /\ pc'[h] = "opening"
            \/ pc[h] = "pull" /\ pc'[h] = "pulling"
            \/ pc[h] = "close" /\ pc'[h] = "closing"
        BY <2>2, <2>3, <3>2 DEF CalledAt, AwaitedAt, Methods
      <4>2. reply'[h].ok = "none" /\ got' = got /\ outcome' = outcome /\ pos' = pos /\ ending' = ending
        BY <2>2, <3>2, SMTT(30) DEF NoReply
      <4>3. pos[h] = Len(got[h]) \/ pc[h] = "close"
        BY <1>b, <4>1 DEF SeenInStep
      <4> QED
        BY <1>b, <4>1, <4>2, <4>3, Zenon DEF SeenInStep
    <3> QED
      BY <3>1, <3>2
  <2>5. GivenUp(h) => GivenUp(h)'
    BY <2>2, <2>3 DEF OthersKept, GivenUp, CalledAt, AwaitedAt, Methods
  <2>6. PullsGivenUp(h)'
    BY <1>b, <2>1, <2>5 DEF PullsGivenUp
  <2> QED
    BY <2>4, <2>6
<1>3. ASSUME NEW s \in Handles, FallFails(s) PROVE SeenInStep(h)' /\ PullsGivenUp(h)'
  <2>1. /\ h # s /\ pc'[h] = pc[h] /\ reply'[h] = reply[h]
        /\ UNCHANGED <<batch, got, outcome, pos, ending, socket>>
    BY <1>3 DEF FallFails, Typed, TypeOK
  <2> QED
    BY <1>b, <2>1, Zenon DEF SeenInStep, PullsGivenUp, GivenUp, Continues
<1>4. ASSUME NEW s \in Handles, Timeout(s) PROVE SeenInStep(h)' /\ PullsGivenUp(h)'
  <2>1. UNCHANGED <<pc, batch, got, outcome, pos, ending>> /\ pc[s] \in Waiting /\ reply[s] = NoReply
    BY <1>4 DEF Timeout, nodeVars
  <2>2. /\ reply'[s] = ErrReply /\ \A x \in Handles \ {s} : reply'[x] = reply[x]
    BY <1>4 DEF Timeout, Typed
  <2>3. /\ DOMAIN socket' = DOMAIN socket
        /\ \A i \in DOMAIN socket :
              /\ socket'[i].m = socket[i].m /\ socket'[i].by = socket[i].by
              /\ ~socket'[i].wanted => ~socket[i].wanted \/ socket[i].by = s
    BY <1>4, Abandoned DEF Timeout, Typed
  <2>4. SeenInStep(h)'
    BY <1>b, <2>1, <2>2, KeptInStep
  <2>5. GivenUp(h) => GivenUp(h)'
    BY <2>1, <2>2 DEF GivenUp, ErrReply
  <2>6. ASSUME NEW i \in DOMAIN socket, socket[i].by = h, socket[i].m \in Pulls, socket[i].wanted, h = s
        PROVE  GivenUp(h)'
    <3>1. pc[h] = "pulling"
      BY <1>b, <2>6 DEF RequestsSound, AwaitedAt, Pulls, SeenInStep
    <3> QED
      BY <2>1, <2>2, <2>6, <3>1 DEF GivenUp, ErrReply
  <2>7. PullsGivenUp(h)'
    BY <1>b, <2>3, <2>5, <2>6 DEF PullsGivenUp
  <2> QED
    BY <2>4, <2>7
<1>5. ASSUME handleGenOpen \/ handleGenNext \/ handleGenClose PROVE SeenInStep(h)' /\ PullsGivenUp(h)'
  <2>1. PICK v : /\ Take(Methods) /\ Answer(Head(socket), v)
                 /\ handleGenOpen => v = OkReply(nextStreamId, <<>>) /\ socket[1].m = "genOpen"
                 /\ handleGenClose => v = OkReply(0, <<>>) /\ socket[1].m = "genClose"
                 /\ handleGenNext => socket[1].m \in Pulls /\ (v = ErrReply \/ v.ok = "ok")
    BY <1>5, Handling
  <2>2. UNCHANGED <<pc, batch, got, outcome, ending>>
    BY <2>1, Zenon DEF Take
  <2>3. /\ 1 \in DOMAIN socket /\ socket[1].by \in Handles /\ socket[1].m \in Methods
        /\ \A i \in DOMAIN socket' : i + 1 \in DOMAIN socket /\ socket'[i] = socket[i + 1]
    BY <2>1, Taken
  <2>4. /\ socket[1].wanted /\ h = socket[1].by =>
             pc[h] = AwaitedAt(socket[1].m) /\ reply[h] = NoReply
        /\ ~(socket[1].wanted /\ h = socket[1].by) => reply'[h] = reply[h]
    BY <2>1, Answering
  <2>5. GivenUp(h) => GivenUp(h)'
    BY <2>2, <2>4 DEF GivenUp, NoReply
  <2>6. PullsGivenUp(h)'
    BY <1>b, <2>3, <2>5 DEF PullsGivenUp
  <2>7. CASE handleGenOpen \/ handleGenClose
    <3>1. pos' = pos /\ (socket[1].wanted /\ h = socket[1].by => pc[h] # "pulling")
      BY <2>1, <2>4, <2>7 DEF handleGenOpen, handleGenClose, AwaitedAt
    <3> QED
      BY <1>b, <2>2, <2>4, <2>6, <3>1, Zenon DEF SeenInStep, Continues
  <2>8. CASE handleGenNext /\ h # socket[1].by
    <3>1. pos'[h] = pos[h]
      BY <1>a, <2>3, <2>8, NextAnswer, ZenonT(30) DEF Typed, TypeOK
    <3> QED
      BY <1>b, <2>2, <2>4, <2>6, <2>8, <3>1, Zenon DEF SeenInStep, Continues
  <2>9. CASE handleGenNext /\ h = socket[1].by /\ ~socket[1].wanted
    <3>1. GivenUp(h)
      BY <1>b, <2>1, <2>3, <2>9 DEF PullsGivenUp
    <3>2. CASE pc[h] = "pulling" /\ reply[h].ok = "err"
      <4>0. reply'[h] = reply[h] /\ NoReply.ok = "none"
        BY <2>4, <2>9 DEF NoReply
      <4>1. reply'[h].ok = "err" /\ reply'[h] # NoReply /\ got' = got /\ outcome' = outcome
        BY <2>2, <3>2, <4>0
      <4> QED
        BY <1>b, <2>2, <2>6, <3>2, <4>1, Zenon DEF SeenInStep
    <3>3. CASE pc[h] \in {"close", "closing", "done"}
      BY <1>b, <2>2, <2>6, <3>3, Zenon DEF SeenInStep
    <3> QED
      BY <3>1, <3>2, <3>3, ZenonT(30) DEF GivenUp
  <2>10. CASE handleGenNext /\ h = socket[1].by /\ socket[1].wanted
    <3>1. pc[h] = "pulling" /\ reply[h] = NoReply /\ pos[h] = Len(got[h]) /\ Len(got[h]) <= Items
      BY <1>b, <2>1, <2>4, <2>10 DEF AwaitedAt, Pulls, SeenInStep
    <3>2. Len(got[h]) \in Nat /\ Items \in Nat
      BY Constants DEF Typed
    <3>3. CASE Answer(Head(socket), ErrReply) /\ pos' = pos
      <4>1. reply'[h] = ErrReply
        BY <2>1, <2>10, <3>3, Answering, ZenonT(30)
      <4>2. reply'[h].ok = "err" /\ reply'[h] # NoReply /\ got' = got /\ outcome' = outcome
        BY <2>2, <4>1 DEF ErrReply, NoReply
      <4> QED
        BY <1>b, <2>2, <2>6, <3>1, <4>2, Zenon DEF SeenInStep
    <3>4. ASSUME NEW k \in Nat \ {0}, NEW t, t = stepsOf(h, k),
                 Answer(Head(socket), OkReply(socket[1].id, t)),
                 pos' = [pos EXCEPT ![h] = IF @ + Len(t) > Items THEN Items + 1 ELSE @ + Len(t)]
          PROVE  SeenInStep(h)'
      <4>1. reply'[h] = OkReply(socket[1].id, t)
        BY <2>1, <2>10, <3>4, Answering, ZenonT(30)
      <4>2. reply'[h].ok = "ok" /\ reply'[h].steps = t
        BY <4>1 DEF OkReply
      <4>3. /\ Len(t) \in Nat /\ pos[h] + Len(t) <= Items + 1
            /\ \A i \in DOMAIN t : IF t[i].kind = "yield"
                                   THEN t[i].value = pos[h] + i /\ pos[h] + i <= Items
                                   ELSE pos[h] + i = Items + 1 /\ t[i].kind = ending[h]
        BY <3>1, <3>4, NextSteps
      <4>4. pos'[h] = pos[h] + Len(t)
        <5>1. pos'[h] = IF pos[h] + Len(t) > Items THEN Items + 1 ELSE pos[h] + Len(t)
          BY <3>4, ZenonT(30) DEF Typed, TypeOK
        <5> QED
          BY <3>1, <3>2, <4>3, <5>1
      <4>5. Continues(h, reply[h].steps)'
        BY <2>2, <3>1, <4>2, <4>3, <4>4 DEF Continues
      <4>6. reply'[h] # NoReply
        <5>1. NoReply.ok = "none"
          BY DEF NoReply
        <5> QED
          BY <4>2, <5>1, Zenon
      <4> QED
        BY <1>b, <2>2, <3>1, <4>2, <4>5, <4>6, Zenon DEF SeenInStep
    <3> QED
      BY <1>a, <2>6, <2>10, <3>3, <3>4, NextAnswer
  <2> QED
    BY <1>5, <2>7, <2>8, <2>9, <2>10
<1>6. ASSUME NodeDies PROVE SeenInStep(h)' /\ PullsGivenUp(h)'
  <2>1. UNCHANGED <<pc, batch, got, outcome, pos, ending>> /\ DOMAIN socket' = {}
    BY <1>6 DEF NodeDies
  <2>2. reply'[h] = reply[h] \/ reply'[h] = ErrReply
    BY <1>6 DEF NodeDies
  <2>3. SeenInStep(h)'
    BY <1>b, <2>1, <2>2, KeptInStep
  <2> QED
    BY <2>1, <2>3 DEF PullsGivenUp
<1> QED
  BY <1>1, <1>2, <1>3, <1>4, <1>5, <1>6, Forms

\* Every step leaves somebody to close each open stream, while no call timed out.
LEMMA ReleasingStep == IInv /\ [Next]_vars => Releasing'
<1> SUFFICES ASSUME IInv, [Next]_vars, timeouts' = 0
             PROVE  /\ \A i \in DOMAIN socket' : socket'[i].wanted
                    /\ \A id \in DOMAIN streams' : WillClose(streams[id], id)'
  BY DEF Releasing
<1> DEFINE Goal == /\ \A i \in DOMAIN socket' : socket'[i].wanted
                   /\ \A id \in DOMAIN streams' : WillClose(streams[id], id)'
<1> USE DEF IInv, Sound
<1>0. CASE UNCHANGED vars
  BY <1>0, Zenon DEF vars, goVars, nodeVars, Releasing, WillClose
<1> SUFFICES ASSUME Next PROVE Goal
  BY <1>0
<1>a. ASSUME timeouts = 0
      PROVE  /\ \A i \in DOMAIN socket : socket[i].wanted
             /\ \A id \in DOMAIN streams : WillClose(streams[id], id)
  BY <1>a DEF Releasing
<1>b. \A id \in DOMAIN streams : streams[id] \in Handles
  BY DEF Typed, TypeOK
<1>1. ASSUME NEW s \in Handles, LocalStep(s) PROVE Goal
  <2>1. UNCHANGED <<socket, streams, timeouts>> /\ OthersKept(s)
    BY <1>1, Local
  <2>2. ASSUME NEW id \in DOMAIN streams PROVE WillClose(streams[id], id)'
    <3>1. WillClose(streams[id], id) /\ alive
      BY <1>a, <2>1, <2>2 DEF DeadSound
    <3>2. CASE streams[id] # s
      BY <1>b, <2>1, <2>2, <3>1, <3>2 DEF OthersKept, WillClose
    <3>3. CASE streams[id] = s
      <4>0. pc \in [Handles -> Waiting \cup {"new", "pull", "body", "close", "failed", "done"}]
            /\ sid \in [Handles -> Nat]
        BY ZenonT(30) DEF Typed, TypeOK
      <4>1. CASE Opened(s)
        BY <2>1, <3>1, <3>3, <4>0, <4>1 DEF Opened, WillClose
      <4>2. CASE ~Opened(s)
        <5>1. /\ sid' = sid \/ ~alive
              /\ pc[s] \in {"pulling", "fallback", "body", "pull", "closing"}
              /\ pc[s] # "closing" => pc'[s] \in {"body", "close", "pull"}
          BY <1>1, <3>1, <4>0, <4>2 DEF LocalStep, Pulled, PullFails, FellBack, Body, Break, Closed,
                                        SpawnFails, Deliver
        <5> QED
          BY <2>1, <3>1, <3>3, <5>1, ZenonT(30) DEF WillClose
      <4> QED
        BY <4>1, <4>2
    <3> QED
      BY <3>2, <3>3
  <2> QED
    BY <1>a, <2>1, <2>2
<1>2. ASSUME NEW s \in Handles, NEW method \in Methods, CallStep(s, method) PROVE Goal
  <2> DEFINE n == Len(socket) + 1
  <2>1. /\ DOMAIN socket' = DOMAIN socket \cup {n}
        /\ \A i \in DOMAIN socket : socket'[i] = socket[i]
        /\ socket'[n].m = method /\ socket'[n].id = sid[s] /\ socket'[n].wanted
    BY <1>2, Queued, Zenon
  <2> HIDE DEF n
  <2>2. /\ OthersKept(s) /\ timeouts' = timeouts /\ (alive => streams' = streams)
        /\ ~alive => streams' = NoStreams
        /\ pc[s] = CalledAt(method) /\ pc'[s] = AwaitedAt(method)
    BY <1>2, Calling
  <2>3. method # "genClose" => sid' = sid
    BY <1>2 DEF CallStep
  <2>4. ASSUME NEW id \in DOMAIN streams' PROVE WillClose(streams[id], id)'
    <3>1. streams' = streams /\ WillClose(streams[id], id)
      BY <1>a, <2>2, <2>4, Constants
    <3>2. CASE \E i \in DOMAIN socket : socket[i].m = "genClose" /\ socket[i].id = id
      BY <2>1, <3>2 DEF WillClose
    <3>3. CASE ~ \E i \in DOMAIN socket : socket[i].m = "genClose" /\ socket[i].id = id
      <4>1. CASE streams[id] # s
        BY <1>b, <2>2, <2>4, <3>1, <3>3, <4>1 DEF OthersKept, WillClose
      <4>2. CASE streams[id] = s
        <5>1. pc[s] \in {"pull", "pulling", "close"} /\ sid[s] = id
          BY <2>2, <3>1, <3>3, <4>2 DEF WillClose, CalledAt, Methods
        <5>2. CASE method = "genClose"
          BY <2>1, <5>1, <5>2 DEF WillClose
        <5>3. CASE method # "genClose"
          <6>1. pc'[s] \in {"pulling", "fallback"}
            BY <2>2, <5>1, <5>3 DEF CalledAt, AwaitedAt, Methods
          <6> QED
            BY <2>3, <3>1, <4>2, <5>1, <5>3, <6>1 DEF WillClose
        <5> QED
          BY <5>2, <5>3
      <4> QED
        BY <4>1, <4>2
    <3> QED
      BY <3>2, <3>3
  <2>5. \A i \in DOMAIN socket' : socket'[i].wanted
    BY <1>a, <2>1, <2>2
  <2> QED
    BY <2>4, <2>5
<1>3. ASSUME NEW s \in Handles, FallFails(s) PROVE Goal
  <2>1. UNCHANGED <<socket, streams, timeouts, sid>> /\ pc[s] = "pulling" /\ pc'[s] = "fallback"
        /\ \A h \in Handles \ {s} : pc'[h] = pc[h] /\ reply'[h] = reply[h]
    BY <1>3, ZenonT(30) DEF FallFails, Typed, TypeOK
  <2> QED
    BY <1>a, <1>b, <2>1 DEF WillClose
<1>4. ASSUME NEW s \in Handles, Timeout(s) PROVE Goal
  <2>1. timeouts' = timeouts + 1 /\ timeouts \in Nat
    BY <1>4, Constants, SMTT(30) DEF Timeout, Typed, TypeOK
  <2> QED
    BY <2>1
<1>5. ASSUME handleGenOpen \/ handleGenNext \/ handleGenClose PROVE Goal
  <2>1. PICK v : /\ Take(Methods) /\ Answer(Head(socket), v)
                 /\ handleGenOpen => v = OkReply(nextStreamId, <<>>) /\ socket[1].m = "genOpen"
                 /\ handleGenClose => v = OkReply(0, <<>>) /\ socket[1].m = "genClose"
                 /\ handleGenNext => socket[1].m \in Pulls /\ (v = ErrReply \/ v.ok = "ok")
    BY <1>5, Handling
  <2>2. UNCHANGED <<pc, sid, timeouts>>
    BY <2>1 DEF Take
  <2>3. /\ 1 \in DOMAIN socket /\ socket[1].by \in Handles /\ socket[1].m \in Methods
        /\ Head(socket) = socket[1]
        /\ DOMAIN socket' = 1 .. Len(socket) - 1 /\ DOMAIN socket = 1 .. Len(socket)
        /\ Len(socket) \in Nat \ {0}
        /\ \A i \in DOMAIN socket' : i + 1 \in DOMAIN socket /\ socket'[i] = socket[i + 1]
    BY <2>1, Taken
  <2>4. \A i \in DOMAIN socket' : socket'[i].wanted
    BY <1>a, <2>2, <2>3
  <2>5. /\ socket[1].wanted /\ pc[socket[1].by] = AwaitedAt(socket[1].m)
        /\ reply[socket[1].by] = NoReply /\ reply'[socket[1].by] = v
        /\ \A h \in Handles \ {socket[1].by} : reply'[h] = reply[h]
    BY <1>a, <2>1, <2>2, <2>3, Answering, Zenon
  <2>6. ASSUME NEW g \in Handles, NEW id, WillClose(g, id),
               ~(socket[1].m = "genClose" /\ socket[1].id = id), streams'[id] = g
        PROVE  WillClose(streams[id], id)'
    <3>1. ASSUME NEW i \in DOMAIN socket, socket[i].m = "genClose", socket[i].id = id
          PROVE  \E j \in DOMAIN socket' : socket'[j].m = "genClose" /\ socket'[j].id = id
      <4>1. i # 1
        BY <2>6, <3>1
      <4>2. i - 1 \in DOMAIN socket' /\ socket'[i - 1] = socket[i]
        BY <2>3, <4>1
      <4> QED
        BY <3>1, <4>2
    <3>2. pc[g] = "opening" /\ reply[g].ok = "ok" => reply'[g] = reply[g]
      BY <2>5 DEF NoReply
    <3> QED
      BY <2>2, <2>6, <3>1, <3>2 DEF WillClose
  <2>7. ASSUME NEW id \in DOMAIN streams' PROVE WillClose(streams[id], id)'
    <3>1. CASE handleGenOpen /\ id = nextStreamId
      <4>1. streams'[id] = socket[1].by
        BY <2>3, <3>1 DEF handleGenOpen, Registered
      <4>2. reply'[socket[1].by].ok = "ok" /\ reply'[socket[1].by].id = id /\ pc'[socket[1].by] = "opening"
        BY <2>1, <2>2, <2>5, <3>1 DEF OkReply, AwaitedAt
      <4> QED
        BY <4>1, <4>2 DEF WillClose
    <3>2. CASE ~(handleGenOpen /\ id = nextStreamId)
      <4>1. /\ id \in DOMAIN streams /\ streams'[id] = streams[id]
            /\ ~(socket[1].m = "genClose" /\ socket[1].id = id)
        <5>1. CASE handleGenOpen
          BY <2>1, <2>7, <3>2, <5>1 DEF handleGenOpen, Registered
        <5>2. CASE handleGenNext
          BY <2>1, <2>7, <5>2, ZenonT(30) DEF handleGenNext, Pulls
        <5>3. CASE handleGenClose
          BY <2>3, <2>7, <5>3 DEF handleGenClose
        <5> QED
          BY <1>5, <5>1, <5>2, <5>3
      <4> QED
        BY <1>a, <1>b, <2>2, <2>6, <2>7, <4>1
    <3> QED
      BY <3>1, <3>2
  <2> QED
    BY <2>4, <2>7
<1>6. ASSUME NodeDies PROVE Goal
  <2>1. DOMAIN socket' = {} /\ DOMAIN streams' = {}
    BY <1>6, Constants DEF NodeDies
  <2> QED
    BY <2>1
<1> QED
  BY <1>1, <1>2, <1>3, <1>4, <1>5, <1>6, Forms

-----------------------------------------------------------------------------
(* The theorems                                                            *)

\* The program starts with nothing opened, sent or seen.
LEMMA Initially == Init => IInv
<1> SUFFICES ASSUME Init PROVE IInv
  OBVIOUS
<1>1. /\ DOMAIN socket = {} /\ DOMAIN streams = {}
      /\ DOMAIN <<>> = {} /\ Len(<<>>) = 0 /\ NoReply.ok = "none" /\ NoReply.steps = <<>>
      /\ \A s \in Handles : /\ pc[s] = "new" /\ sid[s] = 0 /\ batch[s] = <<>> /\ got[s] = <<>>
                            /\ outcome[s] = "none" /\ reply[s] = NoReply /\ pos[s] = 0
  BY Constants DEF Init, NoReply
<1>2. IdsOwned /\ StepsOwned
  BY <1>1 DEF IdsOwned, StepsOwned, From
<1>3. InStep
  <2> SUFFICES ASSUME NEW s \in Handles \ Singles PROVE SeenInStep(s) /\ PullsGivenUp(s)
    BY ZenonT(30) DEF InStep
  <2>1. pc[s] = "new" /\ outcome[s] = "none" /\ got[s] = <<>> /\ pos[s] = 0
    BY <1>1
  <2>2. Len(got[s]) = 0 /\ DOMAIN got[s] = {} /\ Items \in Nat
    BY <1>1, <2>1, Constants
  <2> QED
    BY <1>1, <2>1, <2>2 DEF SeenInStep, PullsGivenUp
<1>4. Releasing
  BY <1>1 DEF Releasing
<1> QED
  BY <1>2, <1>3, <1>4, SoundAtFirst DEF IInv

\* Every step keeps the whole invariant.
LEMMA Inductive == IInv /\ [Next]_vars => IInv'
<1> SUFFICES ASSUME IInv, [Next]_vars PROVE IInv'
  OBVIOUS
<1>1. Sound' /\ IdsOwned'
  BY SoundStep, IdsStep DEF IInv
<1>2. StepsOwned' /\ InStep' /\ Releasing'
  BY StepsStep, InStepStep, ReleasingStep
<1> QED
  BY <1>1, <1>2 DEF IInv

\* What the invariant says about the loops and the streams.
LEMMA Consequences == IInv => TypeOK /\ OwnItems /\ ItemsInOrderAndComplete /\ StreamsReleased
<1> SUFFICES ASSUME IInv PROVE TypeOK /\ OwnItems /\ ItemsInOrderAndComplete /\ StreamsReleased
  OBVIOUS
<1>1. TypeOK
  BY DEF IInv, Sound, Typed
<1>2. OwnItems
  BY DEF IInv, StepsOwned, From, OwnItems
<1>3. ItemsInOrderAndComplete
  BY DEF IInv, InStep, SeenInStep, ItemsInOrderAndComplete, InOrder, CompleteOnEnd
<1>4. ASSUME Ended, socket = <<>>, timeouts = 0
      PROVE  DOMAIN streams = {}
  <2>1. ASSUME NEW id \in DOMAIN streams PROVE FALSE
    <3>1. streams[id] \in Handles /\ WillClose(streams[id], id)
      BY <1>1, <1>4, <2>1 DEF IInv, Sound, Releasing, TypeOK
    <3>2. pc[streams[id]] \in {"done", "failed"} /\ DOMAIN socket = {}
      BY <1>4, <3>1 DEF Ended
    <3> QED
      BY <3>1, <3>2 DEF WillClose
  <2> QED
    BY <2>1
<1> QED
  BY <1>1, <1>2, <1>3, <1>4 DEF StreamsReleased

\* The invariant holds in every state of a program with generator loops.
THEOREM Invariance == Spec => []IInv
  BY Initially, Inductive, PTL DEF Spec

\* While the first runtime lives a loop sees items of its own generator only,
\* whatever calls time out and whatever answers come late.
THEOREM LoopsSeeTheirOwnItems == Spec => []OwnItems
  BY Invariance, Consequences, PTL

\* A loop that pulls with NextBatch sees a prefix of what its generator yields,
\* and the whole of it when it ends by itself.
THEOREM LoopsSeeEveryItemInOrder == Spec => []ItemsInOrderAndComplete
  BY Invariance, Consequences, PTL

\* Once every loop has ended and the runtime has handled every request no
\* stream is open, unless a call was given up.
THEOREM StreamsAreReleased == Spec => []StreamsReleased
  BY Invariance, Consequences, PTL
=============================================================================
