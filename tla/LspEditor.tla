----------------------------- MODULE LspEditor -----------------------------
(***************************************************************************)
(* The VS Code extension (packages/vscode-forst): document listeners,      *)
(* DidChangeDebouncer, the restart command, and the `forst lsp` child it   *)
(* starts.  JavaScript runs one callback at a time; every await ends a     *)
(* step.  ensureForstLspProcess is first come first served but the         *)
(* initialize that may follow it is not, so requests are posted in any     *)
(* order.                                                                  *)
(*                                                                         *)
(* The listeners and the loops hold a TextDocument: a live one has the     *)
(* version and the text of the editor's buffer, one that has been closed   *)
(* keeps its last ones.  A handle is <<doc, version, text>>, and its text  *)
(* is 0 while it is live.                                                  *)
(***************************************************************************)
EXTENDS LspWire, FiniteSets

CONSTANTS
    Edited,        \* bound: the documents that are edited
    MaxFlight,     \* bound: requests under way at the same time
    MaxEvents,     \* bound: edits, restarts and failures together
    MaxRestarts,   \* bound: runs of forst.restartLanguageServer
    MaxFailures    \* bound: failed starts and exits of the server

ASSUME EditorAssumption ==
    Edited \subseteq Docs /\ MaxFlight \in Nat /\ MaxEvents \in Nat /\ MaxRestarts \in Nat /\ MaxFailures \in Nat

VARIABLES
    buf,          \* the editor's documents: open, version, text
    lastText,     \* the last text typed
    pending,      \* the debounce timer of each document; version 0 is none
    applied,      \* lastAppliedVersion; 0 is undefined
    uriEpoch,     \* with globalEpoch, the generations
    globalEpoch,
    restartToken,
    resync,       \* loop k = 0 (activation), 1 ... (restarts): handles still to open
    unavailable,  \* session.compilerUnavailable is set
    tracked,      \* session.child.process is set
    up,           \* a server listens on the port
    exiting,      \* the exit event of a killed child is still to come
    failures,
    shown         \* the diagnostics collection

editorVars == <<buf, lastText, pending, applied, uriEpoch, globalEpoch, restartToken,
                resync, unavailable, tracked, up, exiting, failures, shown>>
childVars == <<tracked, up, exiting, failures>>
debounceVars == <<pending, applied, uriEpoch, globalEpoch>>

NoTimer == [ver |-> 0, text |-> 0, gen |-> 0]

\* Nothing is shown; otherwise the version that was analysed, the text the
\* analysis read for it, and the request that brought it.
Nothing(by) == [ver |-> 0, text |-> 0, by |-> by]

OpenDocs == {d \in Docs : buf[d].open}
\* A mutant: handles without version and text.
BareHandles(ds) == {<<d>> : d \in ds}
Live(ds) == {<<d, 0, 0>> : d \in ds}
Loops == 0 .. MaxRestarts

EditorInit ==
    /\ buf \in [Docs -> {[open |-> TRUE, ver |-> 1, text |-> Disk],
                         [open |-> FALSE, ver |-> 0, text |-> 0]}]
    /\ lastText = Disk
    /\ pending = [d \in Docs |-> NoTimer]
    /\ applied = [d \in Docs |-> 0]
    /\ uriEpoch = [d \in Docs |-> 0]
    /\ globalEpoch = 0
    /\ restartToken = 0
    /\ resync = [k \in Loops |-> IF k = 0 THEN Live(OpenDocs) ELSE {}]
    /\ unavailable = FALSE
    /\ tracked = FALSE
    /\ up = FALSE
    /\ exiting = FALSE
    /\ failures = 0
    /\ shown = [d \in Docs |-> Nothing(0)]

-----------------------------------------------------------------------------
(* DidChangeDebouncer                                                      *)

generationOf(d) == uriEpoch[d] + globalEpoch
isCurrentGeneration(d, gen) == gen = generationOf(d)

\* A mutant: an older answer is applied.
ApplyAlways(d, ver) == ver > 0

shouldApply(d, ver) == ver >= applied[d]

-----------------------------------------------------------------------------
(* Requests                                                                *)

\* The bound on edits, restarts and failures together.
Events == lastText + restartToken + failures < MaxEvents + Disk

\* The bounds on requests.
Room == Free # {} /\ Cardinality(Active) < MaxFlight

\* withClient, getOrCreateLspClient: nothing is posted once the server could
\* not be started.  Otherwise the call waits for ensureForstLspProcess.
Call(r) ==
    /\ Room
    /\ req' = [req EXCEPT ![NextId] = IF unavailable THEN Over ELSE r]

\* The calls that still wait, and the loops, keep the closed TextDocument.
Frozen(i, d) ==
    /\ req[i].pc = "ensure" /\ req[i].kind \in {"open", "reopen"}
    /\ req[i].doc = d /\ req[i].text = 0
Freeze(d) ==
    [k \in Loops |-> {IF h[1] = d /\ h[3] = 0 THEN <<d, buf[d].ver, buf[d].text>> ELSE h :
                      h \in resync[k]}]
CloseDocument(d) ==
    LET stamped == [i \in Ids |-> IF Frozen(i, d)
                                  THEN [req[i] EXCEPT !.ver = buf[d].ver, !.text = buf[d].text]
                                  ELSE req[i]]
        close == NewRequest("close", d, 0, 0, 0, restartToken)
    IN  req' = [stamped EXCEPT ![NextId] = IF unavailable THEN Over ELSE close]

onDidOpenTextDocument(d) ==
    /\ ~buf[d].open
    /\ buf' = [buf EXCEPT ![d] = [open |-> TRUE, ver |-> 1, text |-> Disk]]
    /\ Call(NewRequest("open", d, 0, 0, 0, restartToken))
    /\ UNCHANGED <<lastText, debounceVars, restartToken, resync, unavailable, childVars, shown>>

\* Every edit restarts the document's timer.
onDidChangeTextDocument(d) ==
    /\ d \in Edited
    /\ buf[d].open
    /\ lastText < MaxText /\ Events
    /\ lastText' = lastText + 1
    /\ buf' = [buf EXCEPT ![d].ver = @ + 1, ![d].text = lastText + 1]
    /\ pending' = [pending EXCEPT ![d] =
           [ver |-> buf[d].ver + 1, text |-> lastText + 1, gen |-> generationOf(d)]]
    /\ UNCHANGED <<req, applied, uriEpoch, globalEpoch, restartToken, resync, unavailable,
                   childVars, shown>>

\* The timer runs out: flush drops the payload or sends it.
flush(d) ==
    /\ pending[d] # NoTimer
    /\ pending' = [pending EXCEPT ![d] = NoTimer]
    /\ LET p == pending[d]
       IN  IF shouldApply(d, p.ver) /\ isCurrentGeneration(d, p.gen)
           THEN Call(NewRequest("change", d, p.ver, p.text, p.gen, restartToken))
           ELSE UNCHANGED req
    /\ UNCHANGED <<buf, lastText, applied, uriEpoch, globalEpoch, restartToken, resync,
                   unavailable, childVars, shown>>

\* A mutant: the timer of a closed document still runs.
CloseKeepsTimer(d) ==
    /\ buf[d].open
    /\ Room
    /\ CloseDocument(d)
    /\ buf' = [buf EXCEPT ![d] = [open |-> FALSE, ver |-> 0, text |-> 0]]
    /\ resync' = Freeze(d)
    /\ applied' = [applied EXCEPT ![d] = 0]
    /\ shown' = [shown EXCEPT ![d] = Nothing(0)]
    /\ UNCHANGED <<lastText, pending, uriEpoch, globalEpoch, restartToken, unavailable, childVars>>

onDidCloseTextDocument(d) ==
    /\ buf[d].open
    /\ Room
    /\ CloseDocument(d)
    /\ buf' = [buf EXCEPT ![d] = [open |-> FALSE, ver |-> 0, text |-> 0]]
    /\ resync' = Freeze(d)
    /\ pending' = [pending EXCEPT ![d] = NoTimer]
    /\ applied' = [applied EXCEPT ![d] = 0]
    /\ uriEpoch' = [uriEpoch EXCEPT ![d] = @ + 1]
    /\ shown' = [shown EXCEPT ![d] = Nothing(0)]
    /\ UNCHANGED <<lastText, globalEpoch, restartToken, unavailable, childVars>>

\* Activation and restart open the documents one after the other; a failed one
\* is skipped.
Reopening(k) == \E i \in Active : req[i].kind = "reopen" /\ req[i].token = k
OpenNext(k, h) ==
    /\ h \in resync[k]
    /\ ~Reopening(k)
    /\ resync' = [resync EXCEPT ![k] = @ \ {h}]
    /\ Call(NewRequest("reopen", h[1], h[2], h[3], 0, k))
    /\ UNCHANGED <<buf, lastText, debounceVars, restartToken, unavailable, childVars, shown>>

-----------------------------------------------------------------------------
(* The child process and the answers                                       *)

\* The call goes on with a running server: its child, one it finds on the port,
\* or a new one.  A document call of before a restart is dropped.
Stale(i) == req[i].kind \in {"open", "change", "close"} /\ req[i].token # restartToken
Post(i) ==
    /\ req[i].pc = "ensure"
    /\ up' = TRUE
    /\ tracked' = (tracked \/ ~up)
    /\ LET d == req[i].doc
           live == req[i].kind \in {"open", "reopen"} /\ req[i].text = 0
           sent == IF live THEN [req[i] EXCEPT !.ver = buf[d].ver, !.text = buf[d].text] ELSE req[i]
       IN  req' = [req EXCEPT ![i] = IF Stale(i) THEN Over ELSE [sent EXCEPT !.pc = "posted"]]
    /\ UNCHANGED <<buf, lastText, debounceVars, restartToken, resync, unavailable, exiting,
                   failures, shown>>

\* ensureForstLspProcess throws: no executable, no spawn, or no health answer.
EnsureFails(i) ==
    /\ req[i].pc = "ensure"
    /\ failures < MaxFailures /\ Events
    /\ failures' = failures + 1
    /\ unavailable' = TRUE
    /\ req' = [req EXCEPT ![i] = Over]
    /\ UNCHANGED <<buf, lastText, debounceVars, restartToken, resync, tracked, up, exiting, shown>>

\* resetLspSessionState on a change of the settings.
onDidChangeConfiguration ==
    /\ unavailable
    /\ unavailable' = FALSE
    /\ UNCHANGED <<req, buf, lastText, debounceVars, restartToken, resync, childVars, shown>>

\* The posts a server that ends leaves unanswered are rejected.
Rejected == [i \in Ids |-> IF req[i].pc \in ServerAt THEN Over ELSE req[i]]

ServerExits ==
    /\ up
    /\ failures < MaxFailures /\ Events
    /\ failures' = failures + 1
    /\ up' = FALSE
    /\ tracked' = FALSE
    /\ req' = Rejected
    /\ UNCHANGED <<buf, lastText, debounceVars, restartToken, resync, unavailable, exiting, shown>>

\* The exit handler of the child a restart killed clears session.child.process,
\* which by now may be the next child.
ExitEvent ==
    /\ exiting
    /\ exiting' = FALSE
    /\ tracked' = FALSE
    /\ UNCHANGED <<req, buf, lastText, debounceVars, restartToken, resync, unavailable, up,
                   failures, shown>>

\* forst.restartLanguageServer.  A child that is not tracked is not killed.
restartLanguageServer ==
    /\ restartToken < MaxRestarts /\ Events
    /\ restartToken' = restartToken + 1
    /\ pending' = [d \in Docs |-> NoTimer]
    /\ applied' = [d \in Docs |-> 0]
    /\ globalEpoch' = globalEpoch + 1
    /\ unavailable' = FALSE
    /\ shown' = [d \in Docs |-> Nothing(0)]
    /\ tracked' = FALSE
    /\ up' = (up /\ ~tracked)
    /\ exiting' = (exiting \/ tracked)
    /\ req' = IF tracked THEN Rejected ELSE req
    /\ resync' = [resync EXCEPT ![restartToken + 1] = Live(OpenDocs)]
    /\ UNCHANGED <<buf, lastText, uriEpoch, failures>>

\* What an answer to i puts in the collection.
Answer(i) ==
    IF req[i].kind = "close" THEN Nothing(i)
    ELSE [ver |-> req[i].ver, text |-> req[i].got, by |-> i]

\* didOpen and didClose: the answer is applied as it comes.
ApplyAnswer(i) ==
    /\ req[i].pc = "answered"
    /\ req[i].kind \in {"open", "reopen", "close"}
    /\ shown' = [shown EXCEPT ![req[i].doc] = Answer(i)]
    /\ req' = [req EXCEPT ![i] = Over]
    /\ UNCHANGED <<buf, lastText, debounceVars, restartToken, resync, unavailable, childVars>>

\* didChange: only if it is not superseded by a restart, a close or a newer one.
ApplyChange(i) ==
    /\ req[i].pc = "answered"
    /\ req[i].kind = "change"
    /\ LET d == req[i].doc
       IN  IF /\ ~Stale(i)
              /\ isCurrentGeneration(d, req[i].gen)
              /\ shouldApply(d, req[i].ver)
           THEN /\ shown' = [shown EXCEPT ![d] = Answer(i)]
                /\ applied' = [applied EXCEPT ![d] = IF req[i].ver >= @ THEN req[i].ver ELSE @]
           ELSE UNCHANGED <<shown, applied>>
    /\ req' = [req EXCEPT ![i] = Over]
    /\ UNCHANGED <<buf, lastText, pending, uriEpoch, globalEpoch, restartToken, resync,
                   unavailable, childVars>>
=============================================================================
