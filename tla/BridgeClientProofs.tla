-------------------------- MODULE BridgeClientProofs -------------------------
(***************************************************************************)
(* For any number of concurrent calls and any socket capacity: a call      *)
(* receives only its own answer, no send of the read loop blocks, no entry *)
(* of pending outlives its call, and a waiting caller can be answered      *)
(* unless the read loop had ended before it registered.                    *)
(***************************************************************************)
EXTENDS BridgeClient, TLAPS

InCall == {"registered", "writing", "sent", "failed"}

\* Ids are handed out once, in increasing order.
IdsUnique ==
    /\ nextID > 0
    /\ \A c \in Callers :
          /\ id[c] < nextID
          /\ pc[c] = "idle" => id[c] = 0
          /\ pc[c] \notin {"idle", "done"} => id[c] # 0
    /\ \A c, d \in Callers : id[c] = id[d] /\ id[c] # 0 => c = d

\* Every frame carries the id of the call it belongs to.
FramesTagged ==
    /\ \A f \in socket \cup serving : f.id = id[f.call] /\ f.id # 0
    /\ \A r \in responses : r.id = id[r.res.call] /\ r.id # 0

\* A pending entry is of a call in progress whose channel is empty.
PendingSound ==
    \A p \in pending :
        /\ p = Entry(p.ch)
        /\ id[p.ch] # 0
        /\ pc[p.ch] \in InCall
        /\ chan[p.ch] = Empty

\* What the read loop holds has left pending and fits its channel.
HeldSound ==
    reader = "holding" =>
        /\ held \in [ch : Callers, res : Results]
        /\ held.res.call = held.ch
        /\ chan[held.ch] = Empty
        /\ pc[held.ch] \notin {"idle", "started"}
        /\ \A p \in pending : p.ch # held.ch

\* Channels and outcomes hold answers to their own call.
ChannelsSound ==
    \A c \in Callers :
        /\ chan[c] # Empty => chan[c].call = c /\ pc[c] \notin {"idle", "started"}
        /\ outcome[c] # Empty => outcome[c].call = c
        /\ pc[c] \in {"idle", "started"} => outcome[c] = Empty

\* From registration to the select a call is pending with the read loop
\* running, held, answered or late.
Reachable ==
    \A c \in Callers : pc[c] \in {"registered", "writing", "sent"} =>
        \/ reader # "exited" /\ Entry(c) \in pending
        \/ reader = "holding" /\ held.ch = c
        \/ chan[c] # Empty
        \/ c \in late

\* A late call has registered, nobody has answered it, and the loop has ended.
LateSound ==
    \A c \in late :
        /\ reader = "exited"
        /\ pc[c] \notin {"idle", "started"}
        /\ chan[c] = Empty
        /\ outcome[c] # Empty => outcome[c].kind \in {"write", "timeout"}

IInv ==
    /\ TypeOK /\ IdsUnique /\ FramesTagged /\ PendingSound
    /\ HeldSound /\ ChannelsSound /\ Reachable /\ LateSound

LEMMA Initially == Init => IInv
<1> SUFFICES ASSUME Init PROVE IInv
  OBVIOUS
<1>1. initialized \in BOOLEAN
  BY Zenon DEF Init
<1>2. TypeOK
  BY <1>1, SMT DEF Init, TypeOK, Methods
<1> QED
  BY <1>2 DEF Init, IInv, IdsUnique, FramesTagged, PendingSound, HeldSound,
              ChannelsSound, Reachable, LateSound, Entry

\* IInv is inductive: one step per action of the client, the read loop and
\* the host.
LEMMA Inductive == IInv /\ [Next]_vars => IInv'
<1> SUFFICES ASSUME IInv, [Next]_vars PROVE IInv'
  OBVIOUS
<1> USE NoCallerAssumption
    DEF IInv, TypeOK, IdsUnique, FramesTagged, PendingSound, HeldSound,
        ChannelsSound, Reachable, LateSound, InCall, Entry, Answer, Empty, Results, Frames,
        Methods, clientVars, callVars, readerVars, wireVars
<1>1. ASSUME NEW c \in Callers, CallRejected(c) PROVE IInv'
  BY <1>1 DEF CallRejected
<1>2. ASSUME NEW c \in Callers, CallBegin(c) PROVE IInv'
  BY <1>2 DEF CallBegin
<1>3. ASSUME NEW c \in Callers, Register(c) PROVE IInv'
  <2>1. TypeOK'
    BY <1>3 DEF Register
  <2>2. IdsUnique' /\ FramesTagged' /\ ChannelsSound'
    BY <1>3 DEF Register
  <2>3. PendingSound'
    BY <1>3 DEF Register
  <2>4. HeldSound'
    BY <1>3 DEF Register
  <2>5. Reachable'
    BY <1>3 DEF Register
  <2>6. outcome[c] = Empty
    BY <1>3 DEF Register
  <2>7. LateSound'
    BY <1>3, <2>6 DEF Register
  <2> QED
    BY <2>1, <2>2, <2>3, <2>4, <2>5, <2>7, ZenonT(30)
<1>4. ASSUME NEW c \in Callers, WriteBegin(c) PROVE IInv'
  BY <1>4 DEF WriteBegin
<1>5. ASSUME NEW c \in Callers, WriteDone(c) PROVE IInv'
  BY <1>5 DEF WriteDone
<1>6. ASSUME NEW c \in Callers, WriteFails(c) PROVE IInv'
  BY <1>6 DEF WriteFails
<1>7. ASSUME NEW c \in Callers, Timeout(c) PROVE IInv'
  BY <1>7 DEF Timeout
<1>8. ASSUME NEW c \in Callers, removePending(c) PROVE IInv'
  BY <1>8 DEF removePending
<1>9. ASSUME NEW c \in Callers, Receive(c) PROVE IInv'
  <2>1. TypeOK'
    BY <1>9 DEF Receive
  <2>2. IdsUnique' /\ FramesTagged'
    BY <1>9 DEF Receive
  <2>3. PendingSound' /\ HeldSound'
    BY <1>9 DEF Receive
  <2>4. ChannelsSound' /\ Reachable' /\ LateSound'
    BY <1>9 DEF Receive
  <2> QED
    BY <2>1, <2>2, <2>3, <2>4, ZenonT(30)
<1>10. ASSUME NEW c \in Callers, Finish(c) PROVE IInv'
  <2>1. TypeOK'
    BY <1>10 DEF Finish
  <2>2. IdsUnique' /\ FramesTagged'
    BY <1>10 DEF Finish
  <2>3. PendingSound' /\ HeldSound'
    BY <1>10 DEF Finish
  <2>4. ChannelsSound' /\ Reachable' /\ LateSound'
    BY <1>10 DEF Finish
  <2> QED
    BY <2>1, <2>2, <2>3, <2>4, ZenonT(30)
<1>11. ASSUME NEW r \in responses, ReadFrame(r) PROVE IInv'
  BY <1>11, SMTT(30) DEF ReadFrame
<1>12. ASSUME Deliver PROVE IInv'
  <2>1. TypeOK'
    BY <1>12 DEF Deliver
  <2>2. IdsUnique' /\ FramesTagged'
    BY <1>12 DEF Deliver
  <2>3. PendingSound' /\ HeldSound'
    BY <1>12 DEF Deliver
  <2>4. ChannelsSound' /\ Reachable' /\ LateSound'
    BY <1>12 DEF Deliver
  <2> QED
    BY <2>1, <2>2, <2>3, <2>4, ZenonT(30)
<1>13. ASSUME failAllPending PROVE IInv'
  <2>1. \A c \in Callers :
          \/ chan'[c] = Answer(c, "died") /\ Entry(c) \in pending
          \/ chan'[c] = chan[c] /\ Entry(c) \notin pending
    BY <1>13 DEF failAllPending
  <2>2. pending' = {} /\ reader' = "exited"
    BY <1>13 DEF failAllPending
  <2>3. /\ UNCHANGED <<mu, initialized, nextID, callVars, held, late, wireVars>>
        /\ reader = "reading"
    BY <1>13 DEF failAllPending
  <2>4. chan' \in [Callers -> Results \cup {Empty}]
    BY <1>13 DEF failAllPending
  <2>5. TypeOK'
    BY <2>2, <2>3, <2>4
  <2>6. ChannelsSound' /\ Reachable'
    <3> SUFFICES ASSUME NEW c \in Callers
                 PROVE  /\ chan'[c] # Empty =>
                              chan'[c].call = c /\ pc[c] \notin {"idle", "started"}
                        /\ pc[c] \in {"registered", "writing", "sent"} =>
                              chan'[c] # Empty
      BY <2>3
    <3>1. CASE chan'[c] = Answer(c, "died") /\ Entry(c) \in pending
      BY <3>1
    <3>2. CASE chan'[c] = chan[c] /\ Entry(c) \notin pending
      BY <3>2, <2>3
    <3> QED
      BY <2>1, <3>1, <3>2
  <2>7. IdsUnique' /\ FramesTagged' /\ PendingSound' /\ HeldSound'
    BY <2>2, <2>3
  <2>8. LateSound'
    BY <2>3
  <2> QED
    BY <2>5, <2>6, <2>7, <2>8, ZenonT(30)
<1>14. ASSUME NEW q \in socket, HostReads(q) PROVE IInv'
  <2>1. TypeOK'
    BY <1>14 DEF HostReads
  <2>2. IdsUnique' /\ FramesTagged'
    BY <1>14 DEF HostReads
  <2>3. PendingSound' /\ HeldSound'
    BY <1>14 DEF HostReads
  <2>4. ChannelsSound' /\ Reachable' /\ LateSound'
    BY <1>14 DEF HostReads
  <2> QED
    BY <2>1, <2>2, <2>3, <2>4, ZenonT(30)
<1>15. ASSUME NEW q \in serving, NEW k \in {"ok", "error"}, HostAnswers(q, k) PROVE IInv'
  <2>1. TypeOK'
    BY <1>15 DEF HostAnswers
  <2>2. IdsUnique' /\ FramesTagged'
    BY <1>15 DEF HostAnswers
  <2>3. PendingSound' /\ HeldSound'
    BY <1>15 DEF HostAnswers
  <2>4. ChannelsSound' /\ Reachable' /\ LateSound'
    BY <1>15 DEF HostAnswers
  <2> QED
    BY <2>1, <2>2, <2>3, <2>4, ZenonT(30)
<1>16. ASSUME ConnDies PROVE IInv'
  <2>1. TypeOK'
    BY <1>16 DEF ConnDies
  <2>2. IdsUnique' /\ FramesTagged'
    BY <1>16 DEF ConnDies
  <2>3. PendingSound' /\ HeldSound'
    BY <1>16 DEF ConnDies
  <2>4. ChannelsSound' /\ Reachable' /\ LateSound'
    BY <1>16 DEF ConnDies
  <2> QED
    BY <2>1, <2>2, <2>3, <2>4, ZenonT(30)
<1>17. ASSUME UNCHANGED vars PROVE IInv'
  <2>1. TypeOK'
    BY <1>17 DEF vars
  <2>2. IdsUnique' /\ FramesTagged'
    BY <1>17 DEF vars
  <2>3. PendingSound' /\ HeldSound'
    BY <1>17 DEF vars
  <2>4. ChannelsSound' /\ Reachable' /\ LateSound'
    BY <1>17 DEF vars
  <2> QED
    BY <2>1, <2>2, <2>3, <2>4, ZenonT(30)
<1> HIDE DEF IInv, TypeOK, IdsUnique, FramesTagged, PendingSound, HeldSound,
             ChannelsSound, Reachable, LateSound, InCall, Entry, Answer, Empty, Results,
             Frames, Methods, clientVars, callVars, readerVars, wireVars
<1> QED
  BY <1>1, <1>2, <1>3, <1>4, <1>5, <1>6, <1>7, <1>8, <1>9, <1>10, <1>11, <1>12, <1>13, <1>14, <1>15, <1>16, <1>17
     DEF Next, CallerStep, ReaderStep, HostStep

\* Every variable of the client, the read loop and the wire keeps its type.
THEOREM Typing == Spec => []TypeOK
<1>1. IInv => TypeOK
  BY DEF IInv
<1> QED
  BY <1>1, Initially, Inductive, PTL DEF Spec

\* Client.Call never returns another call's answer.
THEOREM AnswersAreOwn == Spec => []OwnAnswer
<1>1. IInv => OwnAnswer
  BY DEF IInv, ChannelsSound, OwnAnswer
<1> QED
  BY <1>1, Initially, Inductive, PTL DEF Spec

\* Neither `ch <- res` in readLoop nor the sends of failAllPending can block.
THEOREM SendsDoNotBlock == Spec => []SendsNeverBlock
<1>1. IInv => SendsNeverBlock
  BY DEF IInv, PendingSound, HeldSound, SendsNeverBlock
<1> QED
  BY <1>1, Initially, Inductive, PTL DEF Spec

\* The pending map holds entries of calls in progress only.
THEOREM PendingNeverLeaks == Spec => []NoLeakedPending
<1>1. IInv => NoLeakedPending
  BY DEF IInv, PendingSound, NoLeakedPending, InCall
<1> QED
  BY <1>1, Initially, Inductive, PTL DEF Spec

\* A caller in the select can still be answered, or has been, unless the read
\* loop had ended before it registered: failAllPending misses nobody.
THEOREM NobodyForgotten == Spec => []WaitersReachable
<1>1. IInv => WaitersReachable
  BY DEF IInv, Reachable, WaitersReachable
<1> QED
  BY <1>1, Initially, Inductive, PTL DEF Spec

\* A call that registered after the read loop had ended returns no result but
\* the error of its write or its timeout.
THEOREM LateCalls == Spec => []LateCallsTimeOut
<1>1. IInv => LateCallsTimeOut
  BY DEF IInv, LateSound, LateCallsTimeOut
<1> QED
  BY <1>1, Initially, Inductive, PTL DEF Spec

\* For any callers and any host no send blocks, no entry is left behind, and
\* every waiting caller is answerable or late.
THEOREM PendingTable == Spec => []PendingTableSound
<1>1. SendsNeverBlock /\ NoLeakedPending /\ WaitersReachable /\ LateCallsTimeOut
        => PendingTableSound
  BY DEF PendingTableSound
<1> QED
  BY <1>1, SendsDoNotBlock, PendingNeverLeaks, NobodyForgotten, LateCalls, PTL
==============================================================================
