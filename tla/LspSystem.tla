----------------------------- MODULE LspSystem -----------------------------
(***************************************************************************)
(* The editor and the language server together: LspEditor's callbacks and  *)
(* LspServer's handlers share the requests in flight.                      *)
(*                                                                         *)
(* The history variable apart records the events after which the two sides *)
(* need not agree until the next restart:                                  *)
(*   "buffers"  a document request was never handled, or handled before an *)
(*              earlier one for the same document; or a server came up     *)
(*              without the buffers, or outlived a restart;                *)
(*   "answers"  an answer to didOpen or didClose was applied after the     *)
(*              answer to a later request for the same document, or after  *)
(*              a restart that came between the call and its answer; or a  *)
(*              re-open loop opened a closed document, whose last text and *)
(*              version then stand for those of the document opened since. *)
(***************************************************************************)
EXTENDS LspServer, LspEditor

VARIABLE apart

vars == <<req, serverVars, editorVars, apart>>

Init ==
    /\ req = [i \in Ids |-> NoRequest]
    /\ ServerInit
    /\ EditorInit
    /\ apart = "no"

BuffersIf(event) == apart' = IF apart = "no" /\ event THEN "buffers" ELSE apart

\* i is handled while an earlier request for its document still is to be.
Overtakes(i) == \E j \in Earlier(i, {"ensure", "posted"}) : ~Stale(j)
Handled(i) == req[i].pc = "posted" /\ req'[i].pc # "posted"

Serve(i) ==
    /\ ServerStep(i)
    /\ BuffersIf(Handled(i) /\ Overtakes(i))
    /\ UNCHANGED editorVars

\* A call made after the server could not be started is not posted.
MakeCall ==
    /\ \/ \E d \in Docs : onDidOpenTextDocument(d) \/ onDidCloseTextDocument(d)
       \/ \E d \in Docs : flush(d)
       \/ \E k \in Loops : \E h \in resync[k] : OpenNext(k, h)
    /\ BuffersIf(unavailable)
    /\ UNCHANGED serverVars

PostCall(i) ==
    /\ Post(i)
    /\ apart' = IF req[i].kind = "reopen" /\ req[i].text # 0 THEN "answers" ELSE apart
    /\ UNCHANGED serverVars

EnsureFailure(i) ==
    /\ EnsureFails(i)
    /\ BuffersIf(TRUE)
    /\ UNCHANGED serverVars

LocalEvent ==
    /\ \/ \E d \in Docs : onDidChangeTextDocument(d)
       \/ onDidChangeConfiguration
       \/ ExitEvent
    /\ UNCHANGED <<serverVars, apart>>

FreshServer == docs' = NoTexts /\ writer' = 0

Crash ==
    /\ ServerExits
    /\ FreshServer
    /\ BuffersIf(TRUE)

Restart ==
    /\ restartLanguageServer
    /\ IF tracked THEN FreshServer ELSE UNCHANGED serverVars
    /\ apart' = IF up /\ ~tracked THEN "buffers" ELSE "no"

Late(i) ==
    /\ req[i].kind # "change"
    /\ shown[req[i].doc].by > i \/ req[i].token # restartToken
Receive(i) ==
    /\ ApplyAnswer(i) \/ ApplyChange(i)
    /\ apart' = IF Late(i) THEN "answers" ELSE apart
    /\ UNCHANGED serverVars

\* The end of a behaviour within the bounds, or a wedged server.
Idle == (Active = {} \/ Wedged) /\ UNCHANGED vars

Next ==
    \/ \E i \in Ids : Serve(i) \/ PostCall(i) \/ EnsureFailure(i) \/ Receive(i)
    \/ MakeCall \/ LocalEvent \/ Crash \/ Restart
    \/ Idle

Spec == Init /\ [][Next]_vars

-----------------------------------------------------------------------------
(* Properties                                                              *)

\* Type correctness of the requests and of both sides.
TypeOK ==
    /\ req \in [Ids -> Requests]
    /\ docs \in [Docs -> Texts]
    /\ writer \in 0 .. MaxReqs
    /\ apart \in {"no", "buffers", "answers"}
    /\ buf \in [Docs -> [open : BOOLEAN, ver : Nat, text : Texts]]
    /\ pending \in [Docs -> [ver : Nat, text : Texts, gen : Nat]]
    /\ shown \in [Docs -> [ver : Nat, text : Texts, by : 0 .. MaxReqs]]
    /\ \A k \in Loops : resync[k] \subseteq Docs \X Nat \X Texts

Quiet == Active = {} /\ \A d \in Docs : pending[d] = NoTimer /\ \A k \in Loops : resync[k] = {}

\* Once nothing is in flight, and unless one of the recorded events happened
\* since the last restart, the server has the editor's text of every open
\* document and no other, and the diagnostics shown are those of that text and
\* version: the debouncer, the generations and the restart token between them
\* drop nothing that is needed and keep nothing that is old.  (For an emptied
\* buffer the server has the text but analyses the file on disk, so only the
\* version is compared.)
SettledInSync ==
    (Quiet /\ apart = "no") =>
        \A d \in Docs :
            /\ docs[d] = buf[d].text
            /\ shown[d].ver = buf[d].ver
            /\ buf[d].text \notin Empty => shown[d].text = buf[d].text

\* "so a slow response cannot overwrite a newer one" (DidChangeDebouncer): once
\* the answer to a didChange is applied, the diagnostics shown are never those
\* of an older version, however the other answers are delayed, unless one to
\* didOpen or didClose came late or a re-open loop opened a closed document.
NewestShown == apart # "answers" => \A d \in Docs : shown[d].ver >= applied[d]

\* While calls are under way one of them can go on, unless the server is wedged
\* on documentMu: the lock, the re-open loops and the rejected posts leave
\* nobody waiting for nobody.
OnlyWedgedHangs ==
    (Active # {} /\ ~Wedged) =>
        \/ \E i \in Active : req[i].pc \in {"ensure", "answered"}
        \/ \E i \in Active : ENABLED Serve(i)
=============================================================================
