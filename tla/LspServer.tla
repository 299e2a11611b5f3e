----------------------------- MODULE LspServer -----------------------------
(***************************************************************************)
(* `forst lsp` (forst/cmd/forst/lsp): the handlers of document.go and the  *)
(* package analysis they call (server.go, package_analysis.go).            *)
(* net/http runs each request in a goroutine of its own; they share the    *)
(* open documents behind a sync.RWMutex.                                   *)
(*                                                                         *)
(* A writer that waits for documentMu keeps new readers out, as Go's       *)
(* RWMutex does.  A read section that takes no lock inside is one step,    *)
(* possible when no writer waits.  The files of Docs declare one package,  *)
(* so every document is analysed in the group of all of them.  A hit in a  *)
(* cache, keyed by the texts, gives what the analysis gives, so the caches *)
(* are left out; notifications to peers are only logged.  A query (hover,  *)
(* completion ...) is the analysis of a didOpen without the write, and is  *)
(* left out.                                                               *)
(***************************************************************************)
EXTENDS LspWire

VARIABLES
    docs,      \* openDocuments; 0 is no entry
    writer     \* the request waiting for documentMu, 0 none

serverVars == <<docs, writer>>

ServerInit == docs = NoTexts /\ writer = 0

\* The requests that hold documentMu for reading and will ask for it again.
Readers == {i \in Ids : req[i].pc = "loading"}

\* openDocumentContent answers "" for a document that is not open, and for an
\* open one whose buffer is empty.
NoContent(d) == docs[d] \in {0} \cup Empty

\* loadPackageGroupContents: the open buffer, else the file on disk.
openDocumentContent(d) == IF NoContent(d) THEN Disk ELSE docs[d]

-----------------------------------------------------------------------------
(* documentMu                                                              *)

\* Lock with readers inside: the writer waits.
LockWait(i) ==
    /\ req[i].pc = "posted"
    /\ Readers # {}
    /\ writer = 0
    /\ writer' = i
    /\ UNCHANGED <<req, docs>>

\* A mutant: the lock is not released.
WriteKeepsLock(i, text) ==
    /\ req[i].pc = "posted"
    /\ Readers = {}
    /\ writer \in {0, i}
    /\ writer' = i
    /\ docs' = [docs EXCEPT ![req[i].doc] = text]

\* Lock, store, Unlock.
Write(i, text) ==
    /\ req[i].pc = "posted"
    /\ Readers = {}
    /\ writer \in {0, i}
    /\ writer' = 0
    /\ docs' = [docs EXCEPT ![req[i].doc] = text]

\* handleDidOpen, handleDidChange: the buffer is stored first.
setOpenDocument(i) ==
    /\ req[i].kind \in SyncKinds
    /\ Write(i, req[i].text)
    /\ req' = [req EXCEPT ![i].pc = "group"]

\* Request r after an analysis that read this text of its document: handleDidClose
\* goes on to the next open peer and answers with no diagnostics, the others
\* answer with theirs.
After(r, got) ==
    IF r.todo = {}
    THEN [r EXCEPT !.at = r.doc, !.got = IF r.kind = "close" THEN 0 ELSE got, !.pc = "answered"]
    ELSE LET p == CHOOSE d \in r.todo : TRUE
         IN  [r EXCEPT !.at = p, !.todo = @ \ {p}, !.pc = "group"]

\* handleDidClose: the buffer is dropped first, and republishOpenFtInSameDir
\* lists the open peers.
deleteOpenDocument(i) ==
    /\ req[i].kind = "close"
    /\ Write(i, 0)
    /\ LET peers == {d \in Docs \ {req[i].doc} : docs[d] # 0}
       IN  req' = [req EXCEPT ![i] = After([req[i] EXCEPT !.todo = peers], 0)]

-----------------------------------------------------------------------------
(* The package analysis                                                    *)

\* republishOpenFtInSameDir skips a peer that has been closed meanwhile, or is
\* empty.
SkipClosedPeer(i) ==
    /\ req[i].pc = "group"
    /\ req[i].kind = "close"
    /\ writer = 0
    /\ NoContent(req[i].at)
    /\ req' = [req EXCEPT ![i] = After(req[i], 0)]
    /\ UNCHANGED serverVars

\* samePackageOpenURIs, then loadPackageGroupContents takes documentMu ...
LoadBegin(i) ==
    /\ req[i].pc = "group"
    /\ req[i].kind = "close" => ~NoContent(req[i].at)
    /\ writer = 0
    /\ req' = [req EXCEPT ![i].pc = "loading"]
    /\ UNCHANGED serverVars

\* ... and again, inside openDocumentContent, for every member; the merged
\* snapshot is of these texts.  When one of them does not parse,
\* compileForstFile takes the text it was called with.  (What comes after
\* the last member's text only parses, checks and logs, so unlock, analysis and
\* answer are the same step.)
Merged == {openDocumentContent(d) : d \in Docs}
compileForstFile(r) == IF Merged \cap Broken # {} THEN r.text ELSE openDocumentContent(r.doc)
Analyze(i) ==
    /\ req[i].pc = "loading"
    /\ writer = 0
    /\ req' = [req EXCEPT ![i] = After(req[i], compileForstFile(req[i]))]
    /\ UNCHANGED serverVars

ServerStep(i) ==
    \/ LockWait(i) \/ setOpenDocument(i) \/ deleteOpenDocument(i)
    \/ SkipClosedPeer(i) \/ LoadBegin(i) \/ Analyze(i)

-----------------------------------------------------------------------------

\* A reader that asks for documentMu again, behind a writer that waits for it:
\* neither of the two, and no later request, can go on.
Wedged == writer # 0 /\ Readers # {}
=============================================================================
