-------------------------- MODULE GeneratorsCalls ---------------------------
(***************************************************************************)
(* For any number of handles, items, timeouts and runtime deaths: a call's *)
(* answer reaches the call that waits for it, and the state is well typed. *)
(* GeneratorsProofs rests on these facts.                                  *)
(***************************************************************************)
EXTENDS Generators, Integers, TLAPS

Requests ==
    [m : {"genOpen", "genNextBatch", "genNext", "genClose"}, by : Handles,
     id : Nat, wanted : BOOLEAN]
Replies == [ok : {"none", "ok", "err"}, id : Nat, steps : Seq(Steps)]

\* TypeOK, with the sequences and records it leaves open.
Typed ==
    /\ TypeOK
    /\ batch \in [Handles -> Seq(Steps)]
    /\ got \in [Handles -> Seq(Steps)]
    /\ reply \in [Handles -> Replies]
    /\ socket \in Seq(Requests)

\* A dead runtime has no connection and no streams.
DeadSound == ~alive => socket = <<>> /\ DOMAIN streams = {} /\ epoch <= MaxDeaths

Pulls == {"genNextBatch", "genNext"}
AwaitedAt(method) ==
    CASE method = "genOpen" -> "opening"
      [] method = "genNextBatch" -> "pulling"
      [] method = "genNext" -> "fallback"
      [] method = "genClose" -> "closing"

\* A request whose caller still waits is the caller's only one of that kind.
RequestsSound ==
    /\ \A i \in DOMAIN socket :
          /\ socket[i].wanted =>
                pc[socket[i].by] = AwaitedAt(socket[i].m) /\ reply[socket[i].by] = NoReply
          /\ socket[i].m \in Pulls => socket[i].id # 0
    /\ \A i, j \in DOMAIN socket :
          socket[i].wanted /\ socket[j].wanted /\ socket[i].by = socket[j].by => i = j

\* Answers reach waiting calls; a loop past OpenSeqArgs has a stream id.
LoopsSound ==
    \A s \in Handles :
        /\ reply[s] # NoReply => pc[s] \in Waiting
        /\ reply[s].ok = "none" => reply[s] = NoReply
        /\ reply[s].ok = "err" => reply[s] = ErrReply
        /\ reply[s].ok = "ok" /\ pc[s] = "opening" => reply[s].id # 0
        /\ pc[s] \in {"pull", "pulling", "fallback", "body", "close"} => sid[s] # 0
        /\ pc[s] = "body" => batch[s] # <<>>
        /\ outcome[s] # "none" => pc[s] \in {"close", "closing", "done"}

Sound == Typed /\ DeadSound /\ RequestsSound /\ LoopsSound

-----------------------------------------------------------------------------
(* Sequences of requests                                                   *)

\* A request written to the socket goes behind the others.
LEMMA Pushed ==
    ASSUME NEW R, NEW q \in Seq(R), NEW x \in R, NEW t, t = q \o <<x>>
    PROVE  /\ t \in Seq(R)
           /\ DOMAIN t = 1 .. Len(q) + 1 /\ DOMAIN q = 1 .. Len(q) /\ Len(q) \in Nat
           /\ \A i \in DOMAIN q : t[i] = q[i]
           /\ t[Len(q) + 1] = x
OBVIOUS

\* The runtime takes the request that was sent first.
LEMMA Popped ==
    ASSUME NEW R, NEW q \in Seq(R), q # <<>>, NEW t, t = Tail(q)
    PROVE  /\ t \in Seq(R)
           /\ DOMAIN t = 1 .. Len(q) - 1 /\ DOMAIN q = 1 .. Len(q)
           /\ Len(q) \in Nat /\ Len(q) > 0 /\ Len(t) = Len(q) - 1
           /\ \A i \in DOMAIN t : i + 1 \in DOMAIN q /\ t[i] = q[i + 1]
           /\ 1 \in DOMAIN q /\ Head(q) = q[1] /\ q[1] \in R
OBVIOUS

\* A batch of more than one step is not exhausted by its first.
LEMMA LongerThanOne ==
    ASSUME NEW R, NEW q \in Seq(R), Len(q) > 1
    PROVE  Tail(q) # <<>>
<1>1. Len(<<>>) = 0 /\ q # <<>>
  OBVIOUS
<1>2. Len(Tail(q)) = Len(q) - 1 /\ Len(q) \in Nat
  BY <1>1, Popped
<1>3. Tail(q) = <<>> => Len(Tail(q)) = Len(<<>>)
  BY Zenon
<1> DEFINE n == Len(Tail(q))
<1>4. n # 0 /\ Len(<<>>) = 0
  BY <1>1, <1>2
<1> QED
  BY <1>3, <1>4, Zenon

\* A timed-out call leaves its request in the socket, unwanted.
LEMMA Abandoned ==
    ASSUME socket \in Seq(Requests), NEW s \in Handles
    PROVE  /\ Abandon(s) \in Seq(Requests)
           /\ DOMAIN Abandon(s) = DOMAIN socket
           /\ \A i \in DOMAIN socket :
                 /\ Abandon(s)[i].m = socket[i].m
                 /\ Abandon(s)[i].by = socket[i].by
                 /\ Abandon(s)[i].id = socket[i].id
                 /\ Abandon(s)[i].wanted <=> socket[i].wanted /\ socket[i].by # s
<1> DEFINE n == Len(socket)
<1>1. n \in Nat /\ DOMAIN socket = 1 .. n /\ \A i \in 1 .. n : socket[i] \in Requests
  OBVIOUS
<1>2. DOMAIN Abandon(s) = 1 .. n
  BY <1>1 DEF Abandon
<1>3. ASSUME NEW i \in 1 .. n
      PROVE  /\ Abandon(s)[i] \in Requests
             /\ Abandon(s)[i].m = socket[i].m
             /\ Abandon(s)[i].by = socket[i].by
             /\ Abandon(s)[i].id = socket[i].id
             /\ Abandon(s)[i].wanted <=> socket[i].wanted /\ socket[i].by # s
  <2>1. Abandon(s)[i] = IF socket[i].by = s THEN [socket[i] EXCEPT !.wanted = FALSE] ELSE socket[i]
    BY <1>1 DEF Abandon
  <2>2. socket[i] \in Requests
    BY <1>1
  <2>3. Abandon(s)[i].wanted = (socket[i].wanted /\ socket[i].by # s)
    BY <2>1, <2>2, Zenon DEF Requests
  <2>4. /\ Abandon(s)[i] \in Requests
        /\ Abandon(s)[i].m = socket[i].m /\ Abandon(s)[i].by = socket[i].by
        /\ Abandon(s)[i].id = socket[i].id
    BY <2>1, <2>2, Zenon DEF Requests
  <2> QED
    BY <2>3, <2>4, Zenon
<1>4. Abandon(s) \in [1 .. n -> Requests]
  BY <1>1, <1>3 DEF Abandon
<1>5. Abandon(s) \in Seq(Requests)
  BY <1>1, <1>4
<1> QED
  BY <1>1, <1>2, <1>3, <1>5

-----------------------------------------------------------------------------
(* Steps of a generator                                                    *)

\* What next() gives: the items after pos[g], then one final step.
LEMMA NextSteps ==
    ASSUME Typed, NEW g \in Handles, NEW k \in Nat \ {0}, NEW t, t = stepsOf(g, k)
    PROVE  /\ t \in Seq(Steps) /\ Len(t) \in Nat \ {0} /\ DOMAIN t = 1 .. Len(t)
           /\ \A i \in DOMAIN t : t[i].from = g
           /\ pos[g] <= Items =>
                 /\ pos[g] + Len(t) <= Items + 1
                 /\ \A i \in DOMAIN t :
                       IF t[i].kind = "yield"
                       THEN t[i].value = pos[g] + i /\ pos[g] + i <= Items
                       ELSE pos[g] + i = Items + 1 /\ t[i].kind = ending[g]
<1> DEFINE End == IF pos[g] <= Items THEN ending[g] ELSE "done"
           Left == IF pos[g] > Items THEN 1 ELSE Items + 1 - pos[g]
           n == IF k < Left THEN k ELSE Left
<1>1. pos[g] \in 0 .. Items + 1 /\ Items \in Nat
  BY ItemsAssumption DEF Typed, TypeOK
<1>2. n \in Nat \ {0} /\ (pos[g] <= Items => n <= Items + 1 - pos[g])
  BY <1>1
<1>3. End \in {"error", "bare", "done"} /\ (pos[g] <= Items => End = ending[g])
  BY DEF Typed, TypeOK
<1>4. t = [i \in 1 .. n |-> IF pos[g] + i <= Items
                            THEN [kind |-> "yield", from |-> g, value |-> pos[g] + i]
                            ELSE [kind |-> End, from |-> g, value |-> 0]]
  BY DEF stepsOf
<1> HIDE DEF End, Left, n
<1>5. ASSUME NEW i \in 1 .. n
      PROVE  /\ t[i] \in Steps /\ t[i].from = g
             /\ t[i].kind = "yield" => t[i].value = pos[g] + i /\ pos[g] + i <= Items
             /\ t[i].kind # "yield" => pos[g] + i > Items /\ t[i].kind = End
  <2>1. CASE pos[g] + i <= Items
    BY <1>1, <1>2, <1>4, <2>1 DEF Steps
  <2>2. CASE ~(pos[g] + i <= Items)
    BY <1>1, <1>2, <1>3, <1>4, <2>2 DEF Steps
  <2> QED
    BY <2>1, <2>2
<1>6. t \in [1 .. n -> Steps]
  BY <1>4, <1>5
<1>7. t \in Seq(Steps) /\ Len(t) = n /\ DOMAIN t = 1 .. n
  BY <1>2, <1>6
<1>8. ASSUME pos[g] <= Items, NEW i \in 1 .. n
      PROVE  IF t[i].kind = "yield"
             THEN t[i].value = pos[g] + i /\ pos[g] + i <= Items
             ELSE pos[g] + i = Items + 1 /\ t[i].kind = ending[g]
  <2>1. i \in Int /\ i <= n /\ n \in Int
    BY <1>2
  <2>2. CASE t[i].kind = "yield"
    BY <1>5, <2>2
  <2>3. CASE t[i].kind # "yield"
    <3>1. pos[g] + i > Items /\ t[i].kind = ending[g]
      BY <1>3, <1>5, <1>8, <2>3
    <3> QED
      BY <1>1, <1>2, <1>8, <2>1, <2>3, <3>1
  <2> QED
    BY <2>2, <2>3
<1> QED
  BY <1>1, <1>2, <1>5, <1>7, <1>8

\* A batch that holds an error step is dropped whole; any other is kept.
LEMMA Decoding ==
    ASSUME NEW steps \in Seq(Steps), NEW t, t = decodeGenStepWire(steps)
    PROVE  /\ t \in Seq(Steps)
           /\ \A i \in DOMAIN t : t[i] \in Steps /\ t[i].kind # "error"
           /\ t # <<>> => t = steps
<1>1. CASE \E i \in DOMAIN steps : steps[i].kind = "error"
  BY <1>1 DEF decodeGenStepWire
<1>2. CASE ~ \E i \in DOMAIN steps : steps[i].kind = "error"
  BY <1>2 DEF decodeGenStepWire
<1> QED
  BY <1>1, <1>2

\* A call appends its request; a dead runtime is replaced.
LEMMA Called ==
    ASSUME Typed, DeadSound, NEW s \in Handles, NEW at,
           NEW method \in {"genOpen", "genNextBatch", "genNext", "genClose"},
           CallOn(s, method, at)
    PROVE  /\ socket' \in Seq(Requests)
           /\ DOMAIN socket' = 1 .. Len(socket) + 1
           /\ DOMAIN socket = 1 .. Len(socket) /\ Len(socket) \in Nat
           /\ \A i \in DOMAIN socket : socket'[i] = socket[i]
           /\ socket'[Len(socket) + 1].m = method
           /\ socket'[Len(socket) + 1].by = s
           /\ socket'[Len(socket) + 1].id = sid[s]
           /\ socket'[Len(socket) + 1].wanted
<1> DEFINE r == [m |-> method, by |-> s, id |-> sid[s], wanted |-> TRUE]
<1>1. r \in Requests
  BY DEF Typed, TypeOK, Requests
<1>2. socket \in Seq(Requests)
  BY DEF Typed
<1>3. socket' = socket \o <<r>>
  BY Zenon DEF CallOn, DeadSound
<1>4. r.by = s /\ r.m = method /\ r.id = sid[s]
  OBVIOUS
<1>5. r.wanted
  BY Zenon
<1> HIDE DEF r
<1> QED
  <2>1. /\ socket' \in Seq(Requests)
        /\ DOMAIN socket' = 1 .. Len(socket) + 1
        /\ DOMAIN socket = 1 .. Len(socket) /\ Len(socket) \in Nat
        /\ \A i \in DOMAIN socket : socket'[i] = socket[i]
        /\ socket'[Len(socket) + 1] = r
    BY <1>1, <1>2, <1>3, Pushed
  <2> QED
    BY <1>4, <1>5, <2>1, Zenon

-----------------------------------------------------------------------------
(* Types                                                                   *)

Methods == {"genOpen", "genNextBatch", "genNext", "genClose"}

\* The assumptions on the constants, in one place.
LEMMA Constants ==
    /\ Items \in Nat /\ BatchSize \in Nat \ {0} /\ Singles \subseteq Handles
    /\ MaxTimeouts \in Nat /\ MaxDeaths \in Nat
    /\ DOMAIN NoStreams = {}
BY ItemsAssumption, BoundsAssumption DEF NoStreams

\* A call to the runtime keeps the types.
LEMMA CallTyped ==
    ASSUME Typed, DeadSound, NEW s \in Handles, NEW method \in Methods,
           NEW at \in Waiting, CallOn(s, method, at),
           sid' \in [Handles -> Nat],
           UNCHANGED <<batch, got, outcome, pos, ending, timeouts>>
    PROVE  Typed'
<1>1. socket' \in Seq(Requests)
  BY Called DEF Methods
<1>2. epoch' \in 1 .. MaxDeaths + 1
  BY Constants DEF CallOn, Typed, TypeOK, DeadSound
<1>3. alive' \in BOOLEAN
  BY DEF CallOn
<1>4. NoReply \in Replies /\ reply' \in [Handles -> Replies]
  BY DEF CallOn, Typed, Replies, NoReply
<1>5. client' \in [Handles -> 0 .. MaxDeaths + 1]
  BY <1>2, Constants DEF CallOn, Typed, TypeOK
<1>6. nextStreamId' \in Nat \ {0}
  BY Constants DEF CallOn, Typed, TypeOK
<1>7. \A k \in DOMAIN streams' : k \in 1 .. nextStreamId' - 1 /\ streams'[k] \in Handles
  BY Constants DEF CallOn, Typed, TypeOK
<1>8. pc' \in [Handles -> Waiting \cup {"new", "pull", "body", "close", "failed", "done"}]
  BY DEF CallOn, Typed, TypeOK
<1>9. \A h \in Handles : (reply'[h].ok # "none" => pc'[h] \in Waiting)
  BY ZenonT(30) DEF CallOn, Typed, TypeOK, NoReply
<1> QED
  BY <1>1, <1>2, <1>3, <1>4, <1>5, <1>6, <1>7, <1>8, <1>9, Zenon DEF Typed, TypeOK

\* Taking the first request and answering it.
LEMMA Taken ==
    ASSUME Typed, NEW ms, Take(ms)
    PROVE  /\ socket' \in Seq(Requests)
           /\ DOMAIN socket' = 1 .. Len(socket) - 1 /\ DOMAIN socket = 1 .. Len(socket)
           /\ Len(socket) \in Nat \ {0}
           /\ \A i \in DOMAIN socket' : i + 1 \in DOMAIN socket /\ socket'[i] = socket[i + 1]
           /\ 1 \in DOMAIN socket /\ Head(socket) = socket[1] /\ socket[1] \in Requests
           /\ socket[1].m \in ms /\ socket[1].by \in Handles /\ socket[1].wanted \in BOOLEAN
           /\ socket[1].id \in Nat
<1>1. socket \in Seq(Requests) /\ socket # <<>> /\ socket' = Tail(socket)
  BY DEF Typed, Take
<1>2. socket[1] \in Requests /\ Head(socket) = socket[1]
  BY <1>1, Popped
<1>3. /\ socket[1].m \in ms /\ socket[1].by \in Handles /\ socket[1].wanted \in BOOLEAN
      /\ socket[1].id \in Nat
  BY <1>2 DEF Take, Requests
<1> QED
  BY <1>1, <1>2, <1>3, Popped

\* A handler's answer keeps the types.
LEMMA AnswerTyped ==
    ASSUME Typed, RequestsSound, NEW ms, Take(ms), NEW v \in Replies, Answer(Head(socket), v),
           nextStreamId' \in Nat \ {0},
           \A k \in DOMAIN streams' : k \in 1 .. nextStreamId' - 1 /\ streams'[k] \in Handles,
           pos' \in [Handles -> 0 .. Items + 1]
    PROVE  Typed'
<1>1. reply' \in [Handles -> Replies]
  BY Taken DEF Answer, Typed
<1>2. \A s \in Handles : reply'[s].ok # "none" => pc[s] \in Waiting
  <2>1. socket[1].wanted => pc[socket[1].by] \in Waiting
    BY Taken DEF RequestsSound, AwaitedAt, Waiting, Requests
  <2> QED
    BY <2>1, Taken, ZenonT(30) DEF Answer, Typed, TypeOK
<1>3. UNCHANGED <<pc, sid, batch, got, outcome, client, alive, epoch, ending, timeouts>>
  BY DEF Take
<1> QED
  BY <1>1, <1>2, <1>3, Taken, ZenonT(30) DEF Typed, TypeOK

\* Handing a batch to the loop keeps the types.
LEMMA DeliverTyped ==
    ASSUME Typed, NEW s \in Handles, NEW t \in Seq(Steps), Deliver(s, t),
           \A i \in DOMAIN t : t[i] \in Steps /\ t[i].kind # "error",
           reply' = [reply EXCEPT ![s] = NoReply],
           UNCHANGED <<sid, got, client, socket, nodeVars, ending, timeouts>>
    PROVE  Typed'
<1>1. batch' \in [Handles -> Seq(Steps)]
  BY DEF Deliver, Typed
<1>2. \A h \in Handles : \A i \in DOMAIN batch'[h] : batch'[h][i] \in Steps /\ batch'[h][i].kind # "error"
  BY DEF Deliver, Typed, TypeOK
<1>3. pc' \in [Handles -> Waiting \cup {"new", "pull", "body", "close", "failed", "done"}]
  BY DEF Deliver, Typed, TypeOK
<1>4. outcome' \in [Handles -> {"none", "end", "break", "panic"}]
  BY DEF Deliver, Typed, TypeOK
<1>5. reply' \in [Handles -> Replies] /\ \A h \in Handles : reply'[h].ok # "none" => pc'[h] \in Waiting
  BY DEF Deliver, Typed, TypeOK, NoReply, Replies
<1> QED
  BY <1>1, <1>2, <1>3, <1>4, <1>5, ZenonT(30) DEF Typed, TypeOK, nodeVars

\* Every step keeps the types.
LEMMA TypedStep == Sound /\ [Next]_vars => Typed'
<1> SUFFICES ASSUME Sound, [Next]_vars PROVE Typed'
  OBVIOUS
<1> USE DEF Sound
<1>1. ASSUME NEW s \in Handles, Open(s) PROVE Typed'
  BY <1>1, CallTyped, Zenon DEF Open, Methods, Waiting, Typed, TypeOK
<1>2. ASSUME NEW s \in Handles, Opened(s) PROVE Typed'
  <2>1. sid' \in [Handles -> Nat]
    BY <1>2 DEF Opened, Typed, TypeOK, Replies
  <2>2. pc' \in [Handles -> Waiting \cup {"new", "pull", "body", "close", "failed", "done"}]
    BY <1>2 DEF Opened, Typed, TypeOK
  <2>3. reply' \in [Handles -> Replies] /\ \A h \in Handles : reply'[h].ok # "none" => pc'[h] \in Waiting
    BY <1>2 DEF Opened, Typed, TypeOK, NoReply, Replies
  <2> QED
    BY <1>2, <2>1, <2>2, <2>3, SMTT(30) DEF Opened, Typed, TypeOK, nodeVars
<1>3. ASSUME NEW s \in Handles, Pull(s) PROVE Typed'
  BY <1>3, CallTyped, Zenon DEF Pull, Methods, Waiting, Typed, TypeOK
<1>4. ASSUME NEW s \in Handles, Pulled(s) PROVE Typed'
  <2>1. reply[s].steps \in Seq(Steps)
    BY DEF Typed, Replies
  <2> QED
    BY <1>4, <2>1, Decoding, DeliverTyped, Zenon DEF Pulled
<1>5. ASSUME NEW s \in Handles, PullFails(s) PROVE Typed'
  <2>1. <<>> \in Seq(Steps) /\ \A i \in DOMAIN <<>> : FALSE
    OBVIOUS
  <2> QED
    BY <1>5, <2>1, DeliverTyped, Zenon DEF PullFails
<1>6. ASSUME NEW s \in Handles, FallBack(s) PROVE Typed'
  <2>1. CASE alive /\ client[s] = epoch
    BY <1>6, <2>1, CallTyped, ZenonT(30) DEF FallBack, Methods, Waiting, Typed, TypeOK
  <2>2. CASE ~(alive /\ client[s] = epoch)
    <3>1. /\ reply' = [reply EXCEPT ![s] = ErrReply] /\ pc' = [pc EXCEPT ![s] = "fallback"]
          /\ UNCHANGED <<client, socket, alive, epoch, nextStreamId, streams>>
          /\ UNCHANGED <<sid, batch, got, outcome, pos, ending, timeouts>>
      BY <1>6, <2>2 DEF FallBack
    <3>2. reply' \in [Handles -> Replies]
      BY <3>1 DEF Typed, ErrReply, Replies
    <3>3. /\ pc' \in [Handles -> Waiting \cup {"new", "pull", "body", "close", "failed", "done"}]
          /\ \A h \in Handles : reply'[h].ok # "none" => pc'[h] \in Waiting
      BY <3>1, ZenonT(30) DEF Typed, TypeOK, Waiting
    <3> QED
      BY <3>1, <3>2, <3>3, ZenonT(30) DEF Typed, TypeOK
  <2> QED
    BY <2>1, <2>2
<1>7. ASSUME NEW s \in Handles, FellBack(s) PROVE Typed'
  <2>1. reply[s].steps \in Seq(Steps)
    BY DEF Typed, Replies
  <2> QED
    BY <1>7, <2>1, Decoding, DeliverTyped, Zenon DEF FellBack
<1>8. ASSUME NEW s \in Handles, Body(s) PROVE Typed'
  <2>1. batch[s] \in Seq(Steps) /\ batch[s] # <<>>
    BY <1>8 DEF Body, Typed, LoopsSound
  <2>2. /\ Head(batch[s]) = batch[s][1] /\ 1 \in DOMAIN batch[s]
        /\ Tail(batch[s]) \in Seq(Steps)
        /\ \A i \in DOMAIN Tail(batch[s]) : i + 1 \in DOMAIN batch[s] /\ Tail(batch[s])[i] = batch[s][i + 1]
    BY <2>1, Popped
  <2>3. /\ Head(batch[s]) \in Steps /\ Head(batch[s]).kind # "error"
        /\ \A i \in DOMAIN Tail(batch[s]) : Tail(batch[s])[i] \in Steps /\ Tail(batch[s])[i].kind # "error"
    BY <2>2 DEF Typed, TypeOK
  <2>4. CASE Head(batch[s]).kind # "yield"
    <3>1. /\ pc' = [pc EXCEPT ![s] = "close"] /\ batch' = [batch EXCEPT ![s] = <<>>]
          /\ outcome' = [outcome EXCEPT ![s] = IF Head(batch[s]).kind = "done" THEN "end" ELSE "panic"]
          /\ UNCHANGED <<got, sid, client, reply, socket, nodeVars, ending, timeouts>>
      BY <1>8, <2>4 DEF Body
    <3>2. /\ pc' \in [Handles -> Waiting \cup {"new", "pull", "body", "close", "failed", "done"}]
          /\ \A h \in Handles : reply'[h].ok # "none" => pc'[h] \in Waiting
      BY <1>8, <3>1 DEF Body, Typed, TypeOK, Waiting
    <3>3. /\ batch' \in [Handles -> Seq(Steps)]
          /\ \A h \in Handles : \A i \in DOMAIN batch'[h] : batch'[h][i] \in Steps /\ batch'[h][i].kind # "error"
      BY <3>1 DEF Typed, TypeOK
    <3>4. outcome' \in [Handles -> {"none", "end", "break", "panic"}]
      BY <3>1 DEF Typed, TypeOK
    <3>5. got' = got /\ sid' = sid /\ client' = client /\ reply' = reply /\ socket' = socket
          /\ UNCHANGED <<nodeVars, ending, timeouts>>
      BY <3>1, Zenon
    <3> QED
      BY <3>2, <3>3, <3>4, <3>5, ZenonT(30) DEF Typed, TypeOK, nodeVars
  <2>5. CASE Head(batch[s]).kind = "yield"
    <3>1. Head(batch[s]).kind = "yield"
      BY <2>5
    <3>2. /\ Append(got[s], Head(batch[s])) \in Seq(Steps)
          /\ \A i \in DOMAIN Append(got[s], Head(batch[s])) :
                Append(got[s], Head(batch[s]))[i] \in Steps /\ Append(got[s], Head(batch[s]))[i].kind = "yield"
      <4>1. got[s] \in Seq(Steps) /\ \A i \in DOMAIN got[s] : got[s][i] \in Steps /\ got[s][i].kind = "yield"
        BY DEF Typed, TypeOK
      <4> QED
        BY <4>1, <2>3, <3>1
    <3>3. /\ got' = [got EXCEPT ![s] = Append(got[s], Head(batch[s]))]
          /\ batch' = [batch EXCEPT ![s] = Tail(batch[s])]
          /\ UNCHANGED outcome
          /\ pc' = [pc EXCEPT ![s] = IF Len(batch[s]) > 1 THEN "body" ELSE "pull"]
          /\ UNCHANGED <<sid, client, reply, socket, nodeVars, ending, timeouts>>
      BY <1>8, <2>5 DEF Body
    <3>4. got' \in [Handles -> Seq(Steps)] /\ batch' \in [Handles -> Seq(Steps)]
      BY <2>2, <3>2, <3>3 DEF Typed
    <3>5. \A h \in Handles :
             /\ \A i \in DOMAIN batch'[h] : batch'[h][i] \in Steps /\ batch'[h][i].kind # "error"
             /\ \A i \in DOMAIN got'[h] : got'[h][i] \in Steps /\ got'[h][i].kind = "yield"
      BY <2>3, <3>2, <3>3, ZenonT(30) DEF Typed, TypeOK
    <3>6. /\ pc' \in [Handles -> Waiting \cup {"new", "pull", "body", "close", "failed", "done"}]
          /\ \A h \in Handles : reply'[h].ok # "none" => pc'[h] \in Waiting
      BY <1>8, <3>3, ZenonT(30) DEF Body, Typed, TypeOK, Waiting
    <3> QED
      BY <3>3, <3>4, <3>5, <3>6, ZenonT(30) DEF Typed, TypeOK, nodeVars
  <2> QED
    BY <2>4, <2>5
<1>9. ASSUME NEW s \in Handles, Break(s) PROVE Typed'
  BY <1>9, SMTT(30) DEF Break, Typed, TypeOK, Waiting, nodeVars
<1>10. ASSUME NEW s \in Handles, Close(s) PROVE Typed'
  <2>1. sid' \in [Handles -> Nat]
    BY <1>10, ZenonT(30) DEF Close, Typed, TypeOK
  <2> QED
    BY <1>10, <2>1, CallTyped DEF Close, Methods, Waiting
<1>11. ASSUME NEW s \in Handles, Closed(s) PROVE Typed'
  <2>1. reply' \in [Handles -> Replies] /\ \A h \in Handles : reply'[h].ok # "none" => pc'[h] \in Waiting
    BY <1>11, SMTT(30) DEF Closed, Typed, TypeOK, NoReply, Replies
  <2> QED
    BY <1>11, <2>1, ZenonT(30) DEF Closed, Typed, TypeOK, nodeVars
<1>12. ASSUME NEW s \in Handles, SpawnFails(s) PROVE Typed'
  <2>1. pc' \in [Handles -> Waiting \cup {"new", "pull", "body", "close", "failed", "done"}]
    BY <1>12 DEF SpawnFails, Typed, TypeOK
  <2>2. \A h \in Handles : reply[h].ok # "none" => pc'[h] \in Waiting
    BY <1>12 DEF SpawnFails, Typed, TypeOK, Waiting
  <2> QED
    BY <1>12, <2>1, <2>2, SMTT(30) DEF SpawnFails, Typed, TypeOK, nodeVars
<1>13. ASSUME NEW s \in Handles, Timeout(s) PROVE Typed'
  <2>1. socket' \in Seq(Requests)
    BY <1>13, Abandoned, ZenonT(30) DEF Timeout, Typed
  <2>2. reply' \in [Handles -> Replies] /\ timeouts' \in 0 .. MaxTimeouts
    BY <1>13, Constants, SMTT(30) DEF Timeout, Typed, TypeOK, ErrReply, Replies
  <2> QED
    BY <1>13, <2>1, <2>2, ZenonT(30) DEF Timeout, Typed, TypeOK, nodeVars
<1>14. ASSUME handleGenOpen PROVE Typed'
  <2>1. Take({"genOpen"}) /\ Answer(Head(socket), OkReply(nextStreamId, <<>>))
    BY <1>14 DEF handleGenOpen
  <2>2. socket[1].m = "genOpen" /\ socket[1].by \in Handles /\ Head(socket) = socket[1] /\ socket # <<>>
    BY <2>1, Taken, Zenon DEF Take
  <2>3. nextStreamId \in Nat \ {0}
    BY ZenonT(30) DEF Typed, TypeOK
  <2>4. OkReply(nextStreamId, <<>>) \in Replies
    BY <2>3 DEF OkReply, Replies
  <2>5. nextStreamId' \in Nat \ {0}
    BY <1>14, <2>3, Constants DEF handleGenOpen
  <2>6. \A k \in DOMAIN streams' : k \in 1 .. nextStreamId' - 1 /\ streams'[k] \in Handles
    BY <1>14, <2>2, <2>3, SMTT(30) DEF handleGenOpen, Registered, Typed, TypeOK
  <2> QED
    BY <1>14, <2>1, <2>4, <2>5, <2>6, AnswerTyped, Zenon DEF handleGenOpen, Typed, TypeOK
<1>15. ASSUME handleGenNext PROVE Typed'
  <2> DEFINE r == Head(socket)
             g == streams[r.id]
             steps == stepsOf(g, IF r.m = "genNext" \/ r.by \in Singles THEN 1 ELSE BatchSize)
  <2>1. Take({"genNext", "genNextBatch"}) /\ UNCHANGED <<nextStreamId, streams>>
    BY <1>15 DEF handleGenNext
  <2>2. r = socket[1] /\ r.id \in Nat /\ (r.id \in DOMAIN streams => g \in Handles)
    BY <2>1, Taken, ZenonT(30) DEF RequestsSound, Pulls, Typed, TypeOK
  <2>3. CASE r.id \notin DOMAIN streams
    <3>1. Answer(r, ErrReply) /\ UNCHANGED pos
      BY <1>15, <2>3 DEF handleGenNext
    <3>2. ErrReply \in Replies
      BY DEF ErrReply, Replies
    <3> QED
      BY <2>1, <3>1, <3>2, AnswerTyped, Zenon DEF Typed, TypeOK
  <2>4. CASE r.id \in DOMAIN streams
    <3>1. g \in Handles
      BY <2>2, <2>4
    <3>2. Answer(r, OkReply(r.id, steps))
      BY <1>15, <2>4 DEF handleGenNext
    <3>3. pos' = [pos EXCEPT ![g] = IF @ + Len(steps) > Items THEN Items + 1 ELSE @ + Len(steps)]
      BY <1>15, <2>4 DEF handleGenNext
    <3>4. (IF r.m = "genNext" \/ r.by \in Singles THEN 1 ELSE BatchSize) \in Nat \ {0}
      BY Constants
    <3>5. steps \in Seq(Steps) /\ Len(steps) \in Nat
      BY <3>1, <3>4, NextSteps
    <3> HIDE DEF steps, g, r
    <3>6. OkReply(r.id, steps) \in Replies
      BY <2>2, <3>5 DEF OkReply, Replies
    <3>7. pos' \in [Handles -> 0 .. Items + 1]
      BY <3>1, <3>3, <3>5, Constants, SMTT(30) DEF Typed, TypeOK
    <3> QED
      BY <2>1, <3>2, <3>6, <3>7, AnswerTyped, Zenon DEF r, Typed, TypeOK
  <2> QED
    BY <2>3, <2>4
<1>16. ASSUME handleGenClose PROVE Typed'
  <2>1. OkReply(0, <<>>) \in Replies
    BY DEF OkReply, Replies
  <2>2. Take({"genClose"}) /\ Answer(Head(socket), OkReply(0, <<>>)) /\ UNCHANGED <<nextStreamId, pos>>
    BY <1>16 DEF handleGenClose
  <2>3. \A k \in DOMAIN streams' : k \in 1 .. nextStreamId' - 1 /\ streams'[k] \in Handles
    BY <1>16 DEF handleGenClose, Typed, TypeOK
  <2> QED
    BY <2>1, <2>2, <2>3, AnswerTyped, Zenon DEF Typed, TypeOK
<1>17. ASSUME NodeDies PROVE Typed'
  <2>1. reply' \in [Handles -> Replies] /\ \A h \in Handles : reply'[h].ok # "none" => pc'[h] \in Waiting
    BY <1>17, SMTT(30) DEF NodeDies, Typed, TypeOK, ErrReply, Replies
  <2>2. alive' \in BOOLEAN
    BY <1>17, Zenon DEF NodeDies
  <2> QED
    BY <1>17, <2>1, <2>2, Constants, SMTT(30) DEF NodeDies, Typed, TypeOK
<1>18. ASSUME UNCHANGED vars PROVE Typed'
  BY <1>18, ZenonT(30) DEF vars, goVars, nodeVars, Typed, TypeOK
<1> QED
  BY <1>1, <1>2, <1>3, <1>4, <1>5, <1>6, <1>7, <1>8, <1>9, <1>10, <1>11, <1>12, <1>13,
     <1>14, <1>15, <1>16, <1>17, <1>18 DEF Next, Loop, Node

-----------------------------------------------------------------------------
(* The steps of a loop, by what they touch                                 *)

\* Steps that only change what the loop itself knows.
LocalStep(s) ==
    \/ Opened(s) \/ Pulled(s) \/ PullFails(s) \/ FellBack(s)
    \/ Body(s) \/ Break(s) \/ Closed(s) \/ SpawnFails(s)

OthersKept(s) ==
    \A h \in Handles \ {s} :
        /\ pc'[h] = pc[h] /\ reply'[h] = reply[h] /\ sid'[h] = sid[h]
        /\ batch'[h] = batch[h] /\ got'[h] = got[h] /\ outcome'[h] = outcome[h]

\* A step of a loop that sends nothing leaves the runtime and the other loops alone.
LEMMA Local ==
    ASSUME Typed, LoopsSound, NEW s \in Handles, LocalStep(s)
    PROVE  /\ UNCHANGED <<socket, alive, epoch, nextStreamId, streams, pos, ending, timeouts>>
           /\ OthersKept(s)
           /\ pc[s] \notin Waiting \/ reply[s] # NoReply
           /\ pc'[s] \in {"pull", "body", "close", "failed", "done"}
           /\ reply'[s] = NoReply
<1>0. pc[s] \notin Waiting => reply[s] = NoReply
  BY DEF LoopsSound
<1> USE DEF Typed, TypeOK, LoopsSound, OthersKept, Waiting, nodeVars
<1>1. CASE Opened(s)
  BY <1>1, ZenonT(30) DEF Opened
<1>2. CASE Pulled(s)
  BY <1>2, SMTT(30) DEF Pulled, Deliver, NoReply
<1>3. CASE PullFails(s)
  BY <1>3, SMTT(30) DEF PullFails, Deliver, NoReply
<1>4. CASE FellBack(s)
  BY <1>4, ZenonT(30) DEF FellBack, Deliver
<1>5. CASE Body(s)
  <2>1. /\ pc[s] = "body"
        /\ UNCHANGED <<sid, reply, socket, alive, epoch, nextStreamId, streams, pos, ending, timeouts>>
    BY <1>5, ZenonT(30) DEF Body
  <2>2. \E p \in {"close", "body", "pull"} : pc' = [pc EXCEPT ![s] = p]
    BY <1>5, ZenonT(30) DEF Body
  <2>3. \E b : batch' = [batch EXCEPT ![s] = b]
    BY <1>5, ZenonT(30) DEF Body
  <2>4. (\E x : got' = [got EXCEPT ![s] = x]) \/ got' = got
    BY <1>5, ZenonT(30) DEF Body
  <2>5. (\E o : outcome' = [outcome EXCEPT ![s] = o]) \/ outcome' = outcome
    BY <1>5, ZenonT(30) DEF Body
  <2>6. OthersKept(s)
    BY <2>1, <2>2, <2>3, <2>4, <2>5, ZenonT(30)
  <2>7. pc'[s] \in {"pull", "body", "close"} /\ pc[s] \notin Waiting
    BY <2>1, <2>2, ZenonT(30)
  <2>8. reply'[s] = NoReply
    BY <1>0, <2>1, <2>7, ZenonT(30)
  <2> QED
    BY <2>1, <2>6, <2>7, <2>8, ZenonT(30)
<1>6. CASE Break(s)
  BY <1>6, ZenonT(30) DEF Break
<1>7. CASE Closed(s)
  BY <1>7, ZenonT(30) DEF Closed
<1>8. CASE SpawnFails(s)
  BY <1>8 DEF SpawnFails
<1> QED
  BY <1>1, <1>2, <1>3, <1>4, <1>5, <1>6, <1>7, <1>8, Zenon DEF LocalStep

\* Where a loop is before it makes a call.
CalledAt(method) ==
    CASE method = "genOpen" -> "new"
      [] method = "genNextBatch" -> "pull"
      [] method = "genNext" -> "pulling"
      [] method = "genClose" -> "close"

CallStep(s, method) ==
    /\ CallOn(s, method, AwaitedAt(method))
    /\ pc[s] = CalledAt(method)
    /\ method = "genNext" => reply[s].ok = "err" /\ s \in Singles
    /\ sid' = IF method = "genClose" THEN [sid EXCEPT ![s] = 0] ELSE sid
    /\ UNCHANGED <<batch, got, outcome, pos, ending, timeouts>>

\* genNext on a connection that is gone fails without a request.
FallFails(s) ==
    /\ pc[s] = "pulling" /\ reply[s].ok = "err" /\ s \in Singles
    /\ reply' = [reply EXCEPT ![s] = ErrReply]
    /\ pc' = [pc EXCEPT ![s] = "fallback"]
    /\ UNCHANGED <<client, socket, alive, epoch, nextStreamId, streams>>
    /\ UNCHANGED <<sid, batch, got, outcome, pos, ending, timeouts>>

\* Every step is of one of these forms.
LEMMA Forms ==
    ASSUME Next
    PROVE  \/ \E s \in Handles : LocalStep(s) \/ FallFails(s) \/ Timeout(s)
           \/ \E s \in Handles, method \in Methods : CallStep(s, method)
           \/ handleGenOpen \/ handleGenNext \/ handleGenClose \/ NodeDies
<1>1. ASSUME NEW s \in Handles, Open(s) PROVE CallStep(s, "genOpen")
  BY <1>1 DEF Open, CallStep, AwaitedAt, CalledAt
<1>2. ASSUME NEW s \in Handles, Pull(s) PROVE CallStep(s, "genNextBatch")
  BY <1>2 DEF Pull, CallStep, AwaitedAt, CalledAt
<1>3. ASSUME NEW s \in Handles, Close(s) PROVE CallStep(s, "genClose")
  BY <1>3 DEF Close, CallStep, AwaitedAt, CalledAt
<1>4. ASSUME NEW s \in Handles, FallBack(s) PROVE CallStep(s, "genNext") \/ FallFails(s)
  BY <1>4 DEF FallBack, FallFails, CallStep, AwaitedAt, CalledAt
<1> QED
  BY <1>1, <1>2, <1>3, <1>4 DEF Next, Loop, Node, LocalStep, Methods

\* What a call changes: the caller waits, the others are left alone.
LEMMA Calling ==
    ASSUME Typed, DeadSound, LoopsSound, NEW s \in Handles, NEW method \in Methods, CallStep(s, method)
    PROVE  /\ OthersKept(s)
           /\ pc[s] = CalledAt(method) /\ pc'[s] = AwaitedAt(method) /\ reply'[s] = NoReply
           /\ pc[s] \notin Waiting \/ reply[s] # NoReply
           /\ UNCHANGED <<batch, got, outcome, pos, ending, timeouts>>
           /\ alive' /\ (alive => UNCHANGED <<epoch, nextStreamId, streams>>)
           /\ ~alive => epoch' = epoch + 1 /\ nextStreamId' = 1 /\ streams' = NoStreams
           /\ epoch' = 1 => alive
<1>1. OthersKept(s) /\ pc'[s] = AwaitedAt(method) /\ reply'[s] = NoReply
  BY ZenonT(30) DEF CallStep, CallOn, OthersKept, Typed, TypeOK
<1>2. pc[s] \notin Waiting \/ reply[s] # NoReply
  BY DEF CallStep, CalledAt, Waiting, NoReply, Methods
<1>3. alive'
  BY Zenon DEF CallStep, CallOn
<1>4. alive => UNCHANGED <<epoch, nextStreamId, streams>>
  BY DEF CallStep, CallOn
<1>5. ~alive => epoch' = epoch + 1 /\ nextStreamId' = 1 /\ streams' = NoStreams
  BY DEF CallStep, CallOn
<1>6. epoch \in Nat \ {0}
  BY SMTT(30) DEF Typed, TypeOK
<1> QED
  BY <1>1, <1>2, <1>3, <1>4, <1>5, <1>6, SMTT(30) DEF CallStep

\* A runtime that dies takes its connection and its streams with it.
LEMMA DeadStep == Sound /\ [Next]_vars => DeadSound'
<1> SUFFICES ASSUME Sound, [Next]_vars PROVE DeadSound'
  OBVIOUS
<1> USE DEF Sound
<1>1. ASSUME NEW s \in Handles, LocalStep(s) PROVE DeadSound'
  BY <1>1, Local, ZenonT(30) DEF DeadSound
<1>2. ASSUME NEW s \in Handles, NEW method \in Methods, CallStep(s, method) PROVE DeadSound'
  BY <1>2, Calling, ZenonT(30) DEF DeadSound
<1>3. ASSUME NEW s \in Handles, FallFails(s) \/ Timeout(s) PROVE DeadSound'
  <2>1. CASE FallFails(s)
    BY <2>1 DEF FallFails, DeadSound
  <2>2. CASE Timeout(s)
    <3>1. socket = <<>> => Abandon(s) = <<>>
      BY DEF Abandon
    <3> QED
      BY <2>2, <3>1 DEF Timeout, nodeVars, DeadSound
  <2> QED
    BY <1>3, <2>1, <2>2
<1>4. ASSUME handleGenOpen \/ handleGenNext \/ handleGenClose PROVE DeadSound'
  BY <1>4, ZenonT(30) DEF handleGenOpen, handleGenNext, handleGenClose, Take, DeadSound
<1>5. ASSUME NodeDies PROVE DeadSound'
  BY <1>5, Constants DEF NodeDies, DeadSound
<1>6. ASSUME UNCHANGED vars PROVE DeadSound'
  BY <1>6 DEF vars, nodeVars, DeadSound
<1> QED
  BY <1>1, <1>2, <1>3, <1>4, <1>5, <1>6, Forms

\* Nobody waits for a call that has been answered or was not made.
LEMMA NotWanted ==
    ASSUME Typed, RequestsSound, NEW s \in Handles, pc[s] \notin Waiting \/ reply[s] # NoReply,
           NEW i \in DOMAIN socket, socket[i].by = s
    PROVE  ~socket[i].wanted
<1>1. socket[i] \in Requests
  BY DEF Typed
<1>2. AwaitedAt(socket[i].m) \in Waiting
  BY <1>1 DEF Requests, AwaitedAt, Waiting
<1> QED
  BY <1>2 DEF RequestsSound

\* What an answer does to the request table: the first request is gone, and its
\* caller, if it still waited, has the answer.
LEMMA Answering ==
    ASSUME Typed, RequestsSound, NEW ms, Take(ms), NEW v, Answer(Head(socket), v)
    PROVE  /\ reply' = IF socket[1].wanted THEN [reply EXCEPT ![socket[1].by] = v] ELSE reply
           /\ socket[1].wanted =>
                 /\ pc[socket[1].by] = AwaitedAt(socket[1].m)
                 /\ reply[socket[1].by] = NoReply
                 /\ reply'[socket[1].by] = v
           /\ \A h \in Handles : ~(socket[1].wanted /\ h = socket[1].by) => reply'[h] = reply[h]
           /\ RequestsSound'
<1>1. reply' = IF socket[1].wanted THEN [reply EXCEPT ![socket[1].by] = v] ELSE reply
  <2>1. Head(socket) = socket[1]
    BY Taken, ZenonT(30)
  <2> QED
    BY <2>1, Zenon DEF Answer
<1>2. UNCHANGED <<pc>>
  BY DEF Take
<1>3. socket[1].wanted => pc[socket[1].by] = AwaitedAt(socket[1].m) /\ reply[socket[1].by] = NoReply
  BY Taken, ZenonT(30) DEF RequestsSound
<1>4. reply \in [Handles -> Replies]
  BY DEF Typed
<1>5. socket[1].wanted => reply'[socket[1].by] = v
  BY <1>1, <1>4, Taken
<1>6. \A h \in Handles : ~(socket[1].wanted /\ h = socket[1].by) => reply'[h] = reply[h]
  BY <1>1, <1>4, Taken, ZenonT(30)
<1>7. \A i, j \in DOMAIN socket' :
         socket'[i].wanted /\ socket'[j].wanted /\ socket'[i].by = socket'[j].by => i = j
  <2> SUFFICES ASSUME NEW i \in DOMAIN socket', NEW j \in DOMAIN socket',
                      socket'[i].wanted, socket'[j].wanted, socket'[i].by = socket'[j].by
               PROVE  i = j
    OBVIOUS
  <2>1. /\ i + 1 \in DOMAIN socket /\ socket'[i] = socket[i + 1] /\ i \in Int
        /\ j + 1 \in DOMAIN socket /\ socket'[j] = socket[j + 1] /\ j \in Int
    BY Taken
  <2>2. i + 1 = j + 1
    BY <2>1 DEF RequestsSound
  <2> QED
    BY <2>1, <2>2
<1>8. ASSUME NEW i \in DOMAIN socket'
      PROVE  /\ socket'[i].wanted =>
                   pc'[socket'[i].by] = AwaitedAt(socket'[i].m) /\ reply'[socket'[i].by] = NoReply
             /\ socket'[i].m \in Pulls => socket'[i].id # 0
  <2>1. i + 1 \in DOMAIN socket /\ socket'[i] = socket[i + 1] /\ i + 1 # 1 /\ 1 \in DOMAIN socket
    BY Taken
  <2>2. socket[i + 1].by \in Handles
    <3>1. socket[i + 1] \in Requests
      BY <2>1 DEF Typed
    <3> QED
      BY <3>1 DEF Requests
  <2>3. socket[i + 1].wanted => ~(socket[1].wanted /\ socket[i + 1].by = socket[1].by)
    BY <2>1, ZenonT(30) DEF RequestsSound
  <2> QED
    BY <1>2, <1>6, <2>1, <2>2, <2>3, SMTT(30) DEF RequestsSound
<1> QED
  BY <1>1, <1>3, <1>5, <1>6, <1>7, <1>8, ZenonT(30) DEF RequestsSound

\* The socket after a call.
LEMMA Queued ==
    ASSUME Typed, DeadSound, NEW s \in Handles, NEW method \in Methods, CallStep(s, method)
    PROVE  LET n == Len(socket) + 1
           IN  /\ DOMAIN socket' = DOMAIN socket \cup {n} /\ n \notin DOMAIN socket
               /\ \A i \in DOMAIN socket : socket'[i] = socket[i]
               /\ socket'[n].m = method /\ socket'[n].by = s
               /\ socket'[n].id = sid[s] /\ socket'[n].wanted
<1>1. CallOn(s, method, AwaitedAt(method))
  BY DEF CallStep
<1>2. DOMAIN socket' = 1 .. Len(socket) + 1 /\ DOMAIN socket = 1 .. Len(socket) /\ Len(socket) \in Nat
  BY <1>1, Called, ZenonT(30) DEF Methods
<1>3. DOMAIN socket' = DOMAIN socket \cup {Len(socket) + 1} /\ Len(socket) + 1 \notin DOMAIN socket
  BY <1>2
<1> QED
  BY <1>1, <1>3, Called, ZenonT(30) DEF Methods

\* The fields of a queued request.
LEMMA InSocket ==
    ASSUME Typed, NEW i \in DOMAIN socket
    PROVE  /\ socket[i].by \in Handles /\ socket[i].m \in Methods
           /\ socket[i].id \in Nat /\ socket[i].wanted \in BOOLEAN
<1>1. socket[i] \in Requests
  BY DEF Typed
<1> QED
  BY <1>1 DEF Requests, Methods

\* Each handler of the runtime answers the first request.
LEMMA Handling ==
    ASSUME Typed, handleGenOpen \/ handleGenNext \/ handleGenClose
    PROVE  \E v : /\ Take(Methods) /\ Answer(Head(socket), v)
                  /\ handleGenOpen => v = OkReply(nextStreamId, <<>>) /\ socket[1].m = "genOpen"
                  /\ handleGenClose => v = OkReply(0, <<>>) /\ socket[1].m = "genClose"
                  /\ handleGenNext => socket[1].m \in Pulls /\ (v = ErrReply \/ v.ok = "ok")
<1>1. CASE handleGenOpen
  <2>1. Take({"genOpen"})
    BY <1>1 DEF handleGenOpen
  <2>2. Take(Methods) /\ socket[1].m = "genOpen"
    BY <2>1, Taken DEF Take, Methods
  <2>3. ~handleGenNext /\ ~handleGenClose
    BY <2>2, Taken, ZenonT(30) DEF handleGenNext, handleGenClose, Take
  <2> QED
    BY <1>1, <2>2, <2>3, ZenonT(30) DEF handleGenOpen
<1>2. CASE handleGenClose
  <2>1. Take({"genClose"})
    BY <1>2 DEF handleGenClose
  <2>2. Take(Methods) /\ socket[1].m = "genClose"
    BY <2>1, Taken DEF Take, Methods
  <2>3. ~handleGenNext /\ ~handleGenOpen
    BY <2>2, Taken, ZenonT(30) DEF handleGenNext, handleGenOpen, Take
  <2> QED
    BY <1>2, <2>2, <2>3, ZenonT(30) DEF handleGenClose
<1>3. CASE handleGenNext
  <2>1. Take({"genNext", "genNextBatch"})
    BY <1>3, Zenon DEF handleGenNext
  <2>2. Take(Methods) /\ socket[1].m \in Pulls
    BY <2>1, Taken, ZenonT(30) DEF Take, Methods, Pulls
  <2>3. ~handleGenClose /\ ~handleGenOpen
    BY <2>2, Taken, ZenonT(30) DEF handleGenClose, handleGenOpen, Take, Pulls
  <2>4. \E v : Answer(Head(socket), v) /\ (v = ErrReply \/ v.ok = "ok")
    <3>1. \/ Answer(Head(socket), ErrReply)
          \/ \E id, steps : Answer(Head(socket), OkReply(id, steps))
      BY <1>3, Zenon DEF handleGenNext
    <3>2. \A id, steps : OkReply(id, steps).ok = "ok"
      BY DEF OkReply
    <3> QED
      BY <3>1, <3>2, Zenon
  <2> QED
    BY <2>2, <2>3, <2>4
<1> QED
  BY <1>1, <1>2, <1>3, ZenonT(30)

\* Every step keeps the request table and its waiting callers paired.
LEMMA RequestsStep == Sound /\ [Next]_vars => RequestsSound'
<1> SUFFICES ASSUME Sound, [Next]_vars PROVE RequestsSound'
  OBVIOUS
<1> USE DEF Sound
<1>1. ASSUME NEW s \in Handles, LocalStep(s) PROVE RequestsSound'
  <2>1. \A i \in DOMAIN socket : socket[i].wanted => socket[i].by \in Handles \ {s}
    BY <1>1, Local, NotWanted, InSocket, ZenonT(30)
  <2> QED
    BY <1>1, <2>1, Local, SMTT(30) DEF RequestsSound, OthersKept
<1>2. ASSUME NEW s \in Handles, NEW method \in Methods, CallStep(s, method) PROVE RequestsSound'
  <2> DEFINE n == Len(socket) + 1
  <2>1. /\ DOMAIN socket' = DOMAIN socket \cup {n}
        /\ \A i \in DOMAIN socket : socket'[i] = socket[i]
        /\ socket'[n].m = method /\ socket'[n].by = s /\ socket'[n].id = sid[s]
    BY <1>2, Queued, Zenon
  <2>2. \A i \in DOMAIN socket : socket[i].wanted => socket[i].by \in Handles \ {s}
    BY <1>2, Calling, NotWanted, InSocket, ZenonT(30)
  <2>3. method \in Pulls => sid[s] # 0
    BY <1>2 DEF CallStep, CalledAt, Pulls, Methods, LoopsSound
  <2>4. pc'[s] = AwaitedAt(method) /\ reply'[s] = NoReply /\ OthersKept(s)
    BY <1>2, Calling, ZenonT(30)
  <2> HIDE DEF n
  <2> QED
    BY <2>1, <2>2, <2>3, <2>4, SMTT(30) DEF RequestsSound, OthersKept
<1>3. ASSUME NEW s \in Handles, FallFails(s) PROVE RequestsSound'
  <2>1. \A i \in DOMAIN socket : socket[i].wanted => socket[i].by \in Handles \ {s}
    BY <1>3, NotWanted, InSocket DEF FallFails, NoReply
  <2> QED
    BY <1>3, <2>1, ZenonT(30) DEF FallFails, RequestsSound, Typed, TypeOK
<1>4. ASSUME NEW s \in Handles, Timeout(s) PROVE RequestsSound'
  <2>1. /\ DOMAIN socket' = DOMAIN socket
        /\ \A i \in DOMAIN socket :
              /\ socket'[i].m = socket[i].m /\ socket'[i].by = socket[i].by /\ socket'[i].id = socket[i].id
              /\ socket'[i].wanted => socket[i].wanted /\ socket[i].by # s
    BY <1>4, Abandoned, ZenonT(30) DEF Timeout, Typed
  <2>2. pc' = pc /\ \A h \in Handles \ {s} : reply'[h] = reply[h]
    BY <1>4 DEF Timeout, Typed
  <2> QED
    BY <2>1, <2>2, InSocket, SMTT(30) DEF RequestsSound
<1>5. ASSUME handleGenOpen \/ handleGenNext \/ handleGenClose PROVE RequestsSound'
  BY <1>5, Handling, Answering, ZenonT(30)
<1>6. ASSUME NodeDies PROVE RequestsSound'
  <2>1. DOMAIN socket' = {}
    BY <1>6 DEF NodeDies
  <2> QED
    BY <2>1, ZenonT(30) DEF RequestsSound
<1>7. ASSUME UNCHANGED vars PROVE RequestsSound'
  BY <1>7, ZenonT(30) DEF vars, goVars, RequestsSound
<1> QED
  BY <1>1, <1>2, <1>3, <1>4, <1>5, <1>6, <1>7, Forms

LoopSound(s) ==
    /\ reply[s] # NoReply => pc[s] \in Waiting
    /\ reply[s].ok = "none" => reply[s] = NoReply
    /\ reply[s].ok = "err" => reply[s] = ErrReply
    /\ reply[s].ok = "ok" /\ pc[s] = "opening" => reply[s].id # 0
    /\ pc[s] \in {"pull", "pulling", "fallback", "body", "close"} => sid[s] # 0
    /\ pc[s] = "body" => batch[s] # <<>>
    /\ outcome[s] # "none" => pc[s] \in {"close", "closing", "done"}

\* Every step keeps answers with waiting calls, and stream ids with opened loops.
LEMMA LoopsStep == Sound /\ [Next]_vars => LoopsSound'
<1> SUFFICES ASSUME Sound, [Next]_vars PROVE \A h \in Handles : LoopSound(h)'
  BY DEF LoopsSound, LoopSound
<1> USE DEF Sound
<1>0. \A h \in Handles : LoopSound(h)
  BY ZenonT(30) DEF LoopsSound, LoopSound
<1>1. ASSUME NEW s \in Handles, LocalStep(s), NEW h \in Handles PROVE LoopSound(h)'
  <2>1. CASE h # s
    BY <1>0, <1>1, <2>1, Local, SMTT(30) DEF OthersKept, LoopSound
  <2>2. CASE h = s
    <3>1. /\ pc'[s] \in {"pull", "body", "close"} => sid'[s] # 0
          /\ pc'[s] = "body" => batch'[s] # <<>>
          /\ outcome'[s] # "none" => pc'[s] \in {"close", "closing", "done"}
      <4> USE <1>0 DEF Typed, TypeOK, LoopSound
      <4>1. CASE Opened(s)
        BY <4>1, Zenon DEF Opened, NoReply, Replies
      <4>2. CASE Pulled(s)
        BY <4>2, Zenon DEF Pulled, Deliver
      <4>3. CASE PullFails(s)
        BY <4>3, ZenonT(30) DEF PullFails, Deliver
      <4>4. CASE FellBack(s)
        BY <4>4, Zenon DEF FellBack, Deliver
      <4>5. CASE Body(s)
        <5>1. pc[s] = "body" /\ sid' = sid /\ outcome[s] = "none"
          BY <4>5, Zenon DEF Body
        <5>2. CASE Head(batch[s]).kind # "yield"
          BY <4>5, <5>1, <5>2, ZenonT(30) DEF Body
        <5>3. CASE Head(batch[s]).kind = "yield"
          <6>1. /\ batch' = [batch EXCEPT ![s] = Tail(batch[s])] /\ UNCHANGED outcome
                /\ pc' = [pc EXCEPT ![s] = IF Len(batch[s]) > 1 THEN "body" ELSE "pull"]
            BY <4>5, <5>3, ZenonT(30) DEF Body
          <6>2. Len(batch[s]) > 1 => Tail(batch[s]) # <<>>
            <7>1. batch[s] \in Seq(Steps) /\ batch[s] # <<>>
              BY <5>1, ZenonT(30)
            <7> QED
              BY <7>1, LongerThanOne, Zenon
          <6>3. /\ batch'[s] = Tail(batch[s]) /\ outcome'[s] = outcome[s]
                /\ pc'[s] = IF Len(batch[s]) > 1 THEN "body" ELSE "pull"
            BY <6>1, ZenonT(30)
          <6> QED
            BY <5>1, <6>2, <6>3, ZenonT(30)
        <5> QED
          BY <5>2, <5>3, ZenonT(30)
      <4>6. CASE Break(s)
        BY <4>6, ZenonT(30) DEF Break
      <4>7. CASE Closed(s)
        BY <4>7, ZenonT(30) DEF Closed
      <4>8. CASE SpawnFails(s)
        BY <4>8, Zenon DEF SpawnFails
      <4> QED
        BY <1>1, <4>1, <4>2, <4>3, <4>4, <4>5, <4>6, <4>7, <4>8, Zenon DEF LocalStep
    <3> QED
      BY <1>1, <2>2, <3>1, Local, SMTT(30) DEF LoopSound, NoReply
  <2> QED
    BY <2>1, <2>2
<1>2. ASSUME NEW s \in Handles, NEW method \in Methods, CallStep(s, method), NEW h \in Handles
      PROVE LoopSound(h)'
  <2>1. CASE h # s
    BY <1>0, <1>2, <2>1, Calling, SMTT(30) DEF OthersKept, LoopSound
  <2>2. CASE h = s
    <3>1. /\ pc[s] = CalledAt(method) /\ pc'[s] = AwaitedAt(method) /\ reply'[s] = NoReply
          /\ batch' = batch /\ outcome' = outcome
      BY <1>2, Calling, Zenon
    <3>2. pc'[s] \in {"pulling", "fallback"} => sid'[s] # 0
      BY <1>0, <1>2, <3>1 DEF CallStep, AwaitedAt, CalledAt, Methods, LoopSound
    <3>3. outcome[s] # "none" => pc'[s] = "closing"
      BY <1>0, <3>1 DEF LoopSound, CalledAt, AwaitedAt, Methods
    <3>4. pc'[s] \in Waiting
      BY <3>1 DEF AwaitedAt, Waiting, Methods
    <3>5. reply'[s].ok = "none"
      BY <3>1, SMTT(30) DEF NoReply
    <3> QED
      BY <2>2, <3>1, <3>2, <3>3, <3>4, <3>5, ZenonT(30) DEF LoopSound, Waiting
  <2> QED
    BY <2>1, <2>2
<1>3. ASSUME NEW s \in Handles, FallFails(s), NEW h \in Handles PROVE LoopSound(h)'
  BY <1>0, <1>3, ZenonT(30) DEF FallFails, LoopSound, Typed, TypeOK, Waiting, ErrReply
<1>4. ASSUME NEW s \in Handles, Timeout(s), NEW h \in Handles PROVE LoopSound(h)'
  BY <1>0, <1>4, ZenonT(30) DEF Timeout, LoopSound, Typed, TypeOK, ErrReply
<1>5. ASSUME handleGenOpen \/ handleGenNext \/ handleGenClose, NEW h \in Handles PROVE LoopSound(h)'
  <2>1. PICK v : /\ Take(Methods) /\ Answer(Head(socket), v)
                 /\ handleGenOpen => v = OkReply(nextStreamId, <<>>) /\ socket[1].m = "genOpen"
                 /\ handleGenClose => v = OkReply(0, <<>>) /\ socket[1].m = "genClose"
                 /\ handleGenNext => socket[1].m \in Pulls /\ (v = ErrReply \/ v.ok = "ok")
    BY <1>5, Handling
  <2>2. UNCHANGED <<pc, sid, batch, outcome>>
    BY <2>1 DEF Take
  <2>3. CASE ~(socket[1].wanted /\ h = socket[1].by)
    BY <1>0, <2>1, <2>2, <2>3, Answering, Zenon DEF LoopSound
  <2>4. CASE socket[1].wanted /\ h = socket[1].by
    <3>1. reply'[h] = v /\ pc[h] = AwaitedAt(socket[1].m)
      BY <2>1, <2>4, Answering, Zenon
    <3>2. pc[h] \in Waiting
      BY <2>1, <3>1, Taken DEF AwaitedAt, Waiting, Methods
    <3>3. v.ok # "none" /\ (v.ok = "err" => v = ErrReply)
      BY <1>5, <2>1, SMTT(30) DEF OkReply, ErrReply
    <3>4. pc[h] = "opening" => v.id # 0
      <4>1. pc[h] = "opening" => socket[1].m = "genOpen"
        BY <2>1, <3>1, Taken DEF AwaitedAt, Methods
      <4>2. socket[1].m = "genOpen" => v.id = nextStreamId
        BY <1>5, <2>1 DEF OkReply, Pulls
      <4>3. nextStreamId # 0
        BY ZenonT(30) DEF Typed, TypeOK
      <4> QED
        BY <4>1, <4>2, <4>3
    <3> QED
      BY <1>0, <2>2, <3>1, <3>2, <3>3, <3>4, Zenon DEF LoopSound
  <2> QED
    BY <2>3, <2>4
<1>6. ASSUME NodeDies, NEW h \in Handles PROVE LoopSound(h)'
  BY <1>0, <1>6, ZenonT(30) DEF NodeDies, LoopSound, ErrReply
<1>7. ASSUME UNCHANGED vars, NEW h \in Handles PROVE LoopSound(h)'
  BY <1>0, <1>7, ZenonT(30) DEF vars, goVars, LoopSound
<1> QED
  BY <1>1, <1>2, <1>3, <1>4, <1>5, <1>6, <1>7, Forms

-----------------------------------------------------------------------------
(* The theorem                                                             *)

\* The program starts with nothing opened, sent or seen.
LEMMA SoundAtFirst == Init => Sound
<1> SUFFICES ASSUME Init PROVE Sound
  OBVIOUS
<1>1. /\ DOMAIN socket = {} /\ socket \in Seq(Requests)
      /\ <<>> \in Seq(Steps) /\ DOMAIN <<>> = {} /\ Len(<<>>) = 0
      /\ \A s \in Handles : /\ pc[s] = "new" /\ sid[s] = 0 /\ batch[s] = <<>> /\ got[s] = <<>>
                            /\ outcome[s] = "none" /\ reply[s] = NoReply
  BY DEF Init
<1>2. NoReply \in Replies /\ NoReply.ok = "none"
  BY <1>1 DEF NoReply, Replies
<1>3. Typed
  <2>1. TypeOK
    BY <1>1, <1>2, Constants, SMTT(30) DEF TypeOK, Init, Waiting
  <2> QED
    BY <1>1, <1>2, <2>1 DEF Typed, Init
<1> QED
  BY <1>1, <1>2, <1>3, ZenonT(30) DEF Sound, DeadSound, RequestsSound, LoopsSound, Init

\* Every step keeps the calls sound.
LEMMA SoundStep == Sound /\ [Next]_vars => Sound'
<1> SUFFICES ASSUME Sound, [Next]_vars PROVE Sound'
  OBVIOUS
<1>1. Typed' /\ DeadSound'
  BY TypedStep, DeadStep
<1>2. RequestsSound' /\ LoopsSound'
  BY RequestsStep, LoopsStep
<1> QED
  BY <1>1, <1>2 DEF Sound

\* A waiting call has exactly one request or one answer, whatever times out and
\* whenever the runtime dies.
THEOREM CallsAreSound == Spec => []Sound
  BY SoundAtFirst, SoundStep, PTL DEF Spec

\* Every state is well typed: an open stream has an id the runtime gave out and
\* the handle it was opened for, and a loop's body sees items only.
THEOREM Typing == Spec => []TypeOK
<1>1. Sound => TypeOK
  BY DEF Sound, Typed
<1> QED
  BY <1>1, CallsAreSound, PTL
=============================================================================
