------------------------------ MODULE LspWire ------------------------------
(***************************************************************************)
(* The JSON-RPC requests the VS Code extension (packages/vscode-forst)     *)
(* posts to `forst lsp` (forst/cmd/forst/lsp).  Every request is one POST  *)
(* on a connection of its own, so requests in flight reach the server, and *)
(* answers the editor, in any order (LspEditor, LspServer, LspSystem).     *)
(*                                                                         *)
(* A text is a number: 0 no text, Disk what is saved on disk, and a new    *)
(* number for every edit.                                                  *)
(***************************************************************************)
EXTENDS Naturals

CONSTANTS
    Docs,      \* the .ft files of one package
    NoDoc,
    Broken,    \* texts that do not parse
    Empty,     \* texts of no characters
    MaxReqs,   \* bound: requests
    MaxText    \* bound: the last text

ASSUME DocsAssumption == NoDoc \notin Docs /\ \E d, e \in Docs : d # e
ASSUME WireAssumption == MaxReqs \in Nat /\ MaxText \in Nat \ {0}

VARIABLE req   \* the requests, numbered in the order they are made

Ids == 1 .. MaxReqs
Disk == 1
Texts == 0 .. MaxText
NoTexts == [d \in Docs |-> 0]

SyncKinds == {"open", "reopen", "change"}
Kinds == SyncKinds \cup {"close", "none"}

\* Where a request is: not made, waiting for ensureForstLspProcess, posted, in
\* its handler, answered, or over.
ServerAt == {"posted", "group", "loading"}
Places == ServerAt \cup {"free", "ensure", "answered", "over"}

Requests ==
    [kind : Kinds, doc : Docs \cup {NoDoc}, ver : Nat, text : Texts, gen : Nat, token : Nat,
     at : Docs \cup {NoDoc}, todo : SUBSET Docs, got : Texts, pc : Places]

NewRequest(kind, doc, ver, text, gen, token) ==
    [kind |-> kind, doc |-> doc, ver |-> ver, text |-> text, gen |-> gen, token |-> token,
     at |-> doc, todo |-> {}, got |-> 0, pc |-> "ensure"]

NoRequest ==
    [kind |-> "none", doc |-> NoDoc, ver |-> 0, text |-> 0, gen |-> 0,
     token |-> 0, at |-> NoDoc, todo |-> {}, got |-> 0, pc |-> "free"]

Over == [NoRequest EXCEPT !.pc = "over"]

Free == {i \in Ids : req[i].pc = "free"}
Active == {i \in Ids : req[i].pc \notin {"free", "over"}}
NextId == CHOOSE i \in Free : \A j \in Free : i <= j

\* The requests for the same document made before i, and not yet past `places`.
Earlier(i, places) == {j \in Ids : j < i /\ req[j].doc = req[i].doc /\ req[j].pc \in places}
=============================================================================
