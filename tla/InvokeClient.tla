---------------------------- MODULE InvokeClient ----------------------------
(***************************************************************************)
(* The clients of an invoke server: the transport emitted into every       *)
(* generated package, the sidecar's HTTP transport and @forst/client.  A   *)
(* call with its challenge, timeout and retries; a streamed answer; the    *)
(* scopes of the generated test module; and the choices of credentials and *)
(* of a connection.                                                        *)
(***************************************************************************)
EXTENDS Naturals, FiniteSets, Sequences, SequencesExt, Subject

(* One call.  subject.client is the client, subject.dial how it reaches    *)
(* the server, subject.auth whether it holds credentials, subject.hook the *)
(* middleware hook that throws, and subject.json whether the arguments can *)
(* be written as JSON.                                                     *)
MaxRetries == 1      \* bound
CallCases ==
   {c \in [part : {"invoke call"}, client : {"generated", "sidecar"}, dial : {"tcp", "socket"},
           auth : {"held", "missing", "disabled"}, retries : 0..MaxRetries,
           hook : {"none", "onStart", "onSuccess", "onFailure"}, json : BOOLEAN] : c.client = "sidecar" => c.hook = "none"}
CallOpen == [pc |-> "begin", attempt |-> 0, fired |-> FALSE, ran |-> FALSE, reply |-> "none", hooks |-> <<>>,
             ends |-> <<>>, outcome |-> "none"]
Envelopes == {"ok", "failure", "domain error", "no result", "other version"}
Replies == Envelopes \cup {"null", "not json", "http error", "refused", "lost", "cut", "silent"}
InCall == subject.part = "invoke call" /\ UNCHANGED subject
CallAt(pc) == InCall /\ state.pc = pc
Generated == subject.client = "generated"
RunMiddleware(s, hook) == IF Generated THEN [s EXCEPT !.hooks = Append(@, hook)] ELSE s
Throws(hook) == Generated /\ subject.hook = hook
CallEnds(s, outcome) == [s EXCEPT !.pc = "done", !.outcome = outcome]
RetriesRejected(e) == \* mutant: a rejection by the server is retried
   IF Generated THEN e \in {"unreachable", "http failure", "rejected"} ELSE TRUE
ShouldRetryInvokeFailure(e) == IF Generated THEN e \in {"unreachable", "http failure"} ELSE e \in {"error", "timed out"}
AttemptFails(s, e) ==
   LET t == [s EXCEPT !.ends = Append(@, [end |-> e, ran |-> s.ran, reply |-> s.reply]), !.ran = FALSE, !.reply = "none",
                      !.fired = FALSE]
   IN IF s.attempt < subject.retries /\ ShouldRetryInvokeFailure(e) THEN [t EXCEPT !.pc = "begin", !.attempt = @ + 1]
      ELSE CallEnds(RunMiddleware(t, "onFailure"), IF Throws("onFailure") THEN "hook error" ELSE e)
\* What fetchWithAuth and performRequest throw, as the caller of an attempt sees it.
Failed == IF Generated THEN "unreachable" ELSE "error"
InvokeBegins == \* an error of onStart is thrown before the try
   /\ CallAt("begin")
   /\ state' = LET s == RunMiddleware(state, "onStart")
               IN CASE Throws("onStart") -> CallEnds(s, "hook error")
                    [] ~subject.json -> IF Generated THEN AttemptFails(s, "untagged") ELSE CallEnds(s, "untagged")
                    [] ~Generated /\ subject.auth = "missing" -> AttemptFails(s, Failed)
                    [] OTHER -> [s EXCEPT !.pc = IF subject.auth = "held" THEN "challenge" ELSE "send"]
FetchChallenge == \* an HTTP error, no nonce, a body that is not JSON or no connection
   /\ CallAt("challenge")
   /\ state' \in {[state EXCEPT !.pc = "send"], AttemptFails(state, Failed)}
\* The server may have run the function whenever the request reached it.
Runs(reply) == CASE reply \in {"ok", "domain error", "no result", "other version"} -> {TRUE} [] reply = "refused" -> {FALSE}
                 [] OTHER -> BOOLEAN
SendInvoke ==
   /\ CallAt("send")
   /\ \E reply \in Replies : \E ran \in Runs(reply) :
        state' = [state EXCEPT !.pc = "waiting", !.reply = reply, !.ran = ran]
\* Over a socket the body is part of the request: an answer that is cut never resolves it.
Collected(reply) == IF subject.dial = "socket" THEN reply \notin {"cut", "silent"} ELSE reply # "silent"
InvokeAnswered ==
   /\ CallAt("waiting") /\ Collected(state.reply)
   /\ state' = IF state.reply \in {"refused", "lost"} THEN AttemptFails(state, Failed)
               ELSE [state EXCEPT !.pc = "body"]
InvokeDecoded ==
   /\ CallAt("body")
   /\ LET r == state.reply
          success(s) == IF Throws("onSuccess") THEN AttemptFails(s, "hook error")
                        ELSE CallEnds([s EXCEPT !.ends = Append(@, [end |-> "ok", ran |-> s.ran, reply |-> r])], "ok")
          fails(e) == AttemptFails(state, e)
      IN state' = CASE r = "cut" -> fails(IF Generated THEN "untagged" ELSE "error")
                    [] r = "other version" /\ Generated -> fails("version mismatch")
                    [] r = "http error" -> fails(IF Generated THEN "http failure" ELSE "error")
                    [] r = "not json" -> fails(IF Generated THEN "rejected" ELSE "error")
                    [] r = "null" -> fails(IF Generated THEN "untagged" ELSE "error")   \* TypeError
                    [] r \in {"failure", "no result"} -> fails("rejected")
                    [] r = "domain error" -> fails(IF Generated THEN "domain error" ELSE "rejected")
                    [] OTHER -> success(RunMiddleware(state, "onSuccess"))
Waits == state.pc \in {"challenge", "waiting"} \/ (state.pc = "body" /\ subject.dial = "tcp")
SignalHeard == ~Generated \/ subject.dial = "tcp"      \* the emitted socket request takes no signal
InvokeTimeout ==
   /\ InCall /\ Waits /\ ~state.fired
   /\ state' = IF ~SignalHeard THEN [state EXCEPT !.fired = TRUE]
               ELSE AttemptFails(state, IF Generated /\ state.pc = "body" THEN "untagged" ELSE "timed out")
CallNext == InvokeBegins \/ FetchChallenge \/ SendInvoke \/ InvokeAnswered \/ InvokeDecoded \/ InvokeTimeout
(* Lines that arrive in chunks: the rows of a streamed answer, read by the *)
(* generated client or by the sidecar's, and the credentials a host relays *)
(* to the generated client.  A row is the pair "a", "b" on a line of its   *)
(* own; anything else on a line does not parse.  A row is known by the     *)
(* place of its "a" in the text.                                           *)
MaxText == 6         \* bound: symbols
Symbols == {"a", "b", "newline"}
LineCases == [part : {"invoke lines"}, reader : {"generated", "sidecar", "relay"}, text : BoundedSeq(Symbols, MaxText)]
LinesOpen == [pc |-> "open", read |-> 0, chunks |-> {}, buffer |-> <<>>, rows |-> <<>>, aborted |-> FALSE, locked |-> TRUE, hook |-> "none"]
InLines == subject.part = "invoke lines" /\ UNCHANGED subject
LinesAt(pc) == InLines /\ state.pc = pc
Symbol(i) == subject.text[i]
Newlines(places) == {k \in DOMAIN places : Symbol(places[k]) = "newline"}
FirstNewline(places) == CHOOSE k \in Newlines(places) : \A j \in Newlines(places) : k <= j
Parses(line) == Len(line) = 2 /\ Symbol(line[1]) = "a" /\ Symbol(line[2]) = "b"
\* The end of a stream: the reader's lock is released, and the generated client's last hook runs.
StreamEnd(s, how) ==
   [s EXCEPT !.pc = how, !.locked = FALSE,
             !.hook = CASE subject.reader # "generated" \/ how = "left" -> "none" [] how = "failed" -> "onFailure" [] OTHER -> "onSuccess"]
InvokeStream == \* the request: refused, an HTTP error, another version, no body or an abort, which ends the generated stream quietly
   /\ LinesAt("open")
   /\ \/ state' = [state EXCEPT !.pc = "read"]
      \/ subject.reader # "relay" /\ state' = StreamEnd(state, "failed")
      \/ subject.reader = "generated" /\ state' = StreamEnd([state EXCEPT !.aborted = TRUE], "aborted")
DropsRest(buffer, chunk) == chunk            \* mutant: what follows the last newline is forgotten
Carried(buffer, chunk) == IF subject.reader = "sidecar" THEN chunk ELSE buffer \o chunk
ReadChunk == \* the sidecar's reader takes what follows the last newline of a chunk for a line
   /\ LinesAt("read") /\ state.read < Len(subject.text) /\ ~state.aborted
   /\ \E n \in 1 .. Len(subject.text) - state.read :
        state' = [state EXCEPT !.read = @ + n, !.chunks = IF subject.reader = "sidecar" THEN @ \cup {state.read + n} ELSE @, !.pc = "lines",
                               !.buffer = Carried(@, [k \in 1..n |-> state.read + k])]
ReadEnd ==
   /\ LinesAt("read") /\ state.read = Len(subject.text) /\ ~state.aborted
   /\ state' = StreamEnd(state, IF subject.reader = "generated" /\ state.buffer # <<>> THEN "failed" ELSE "ended")
ReadCut == \* the connection is lost: read() rejects
   LinesAt("read") /\ ~state.aborted /\ state' = StreamEnd(state, "failed")
TakeLine(s, line, rest) ==
   LET next == [s EXCEPT !.buffer = rest]
   IN CASE Parses(line) -> [next EXCEPT !.rows = Append(@, line[1]), !.pc = IF subject.reader = "relay" THEN "lines" ELSE "yield"]
        [] line # <<>> /\ subject.reader = "generated" -> StreamEnd(next, "failed")
        [] OTHER -> next
NextLine ==
   /\ LinesAt("lines")
   /\ LET b == state.buffer
          k == FirstNewline(b)
      IN state' = CASE Newlines(b) # {} -> TakeLine(state, SubSeq(b, 1, k - 1), SubSeq(b, k + 1, Len(b)))
                    [] subject.reader = "sidecar" /\ b # <<>> -> TakeLine(state, b, <<>>)
                    [] OTHER -> [state EXCEPT !.pc = "read"]
ConsumerTakes == \* abortAndEnd after each row
   /\ LinesAt("yield")
   /\ state' = IF state.aborted /\ subject.reader = "generated" THEN StreamEnd(state, "aborted")
               ELSE [state EXCEPT !.pc = "lines"]
ConsumerLeaves == LinesAt("yield") /\ state' = StreamEnd(state, "left")
Abort == \* the timeout of the request, or the caller's signal
   /\ InLines /\ subject.reader # "relay" /\ state.pc \in {"read", "lines", "yield"} /\ ~state.aborted
   /\ state' = [state EXCEPT !.aborted = TRUE]
ReadAborted == \* noticed before read() by the generated client, or thrown by it
   /\ LinesAt("read") /\ state.aborted
   /\ state' = StreamEnd(state, IF subject.reader = "generated" THEN "aborted" ELSE "failed")
LinesNext == \/ InvokeStream \/ ReadEnd \/ ReadCut \/ ReadChunk \/ NextLine \/ ConsumerTakes \/ ConsumerLeaves \/ Abort \/ ReadAborted
(* withForstTestScope: two tasks of a test process enter and leave scopes. *)
(* A scope replaces the raw invoke call, or the handler of one function,   *)
(* or neither.  storage: AsyncLocalStorage exists; otherwise one variable  *)
(* of the module holds the scope that was entered last.                    *)
Tasks == 1..2
MaxScopes == 3       \* bound: scopes entered
ScopeKinds == {"client", "handler", "empty"}
NoStore == [client |-> 0, handler |-> 0]       \* whose override answers; 0: none
ScopeCases == [part : {"test scope"}, storage : BOOLEAN, kinds : [1..MaxScopes -> ScopeKinds]]
ScopesOpen == [next |-> 1, open |-> [t \in Tasks |-> <<>>], stores |-> [t \in Tasks |-> <<>>], fallback |-> NoStore,
               previous |-> [t \in Tasks |-> <<>>], mixed |-> FALSE]
InScope == subject.part = "test scope" /\ UNCHANGED subject
ParentWins(parent, kind, n) == \* mutant: the outer scope's overrides are spread last
   [client |-> IF parent.client # 0 \/ kind # "client" THEN parent.client ELSE n,
    handler |-> IF parent.handler # 0 \/ kind # "handler" THEN parent.handler ELSE n]
MergeOverrides(parent, kind, n) ==
   [client |-> IF kind = "client" THEN n ELSE parent.client, handler |-> IF kind = "handler" THEN n ELSE parent.handler]
StoreOf(t) == IF state.stores[t] = <<>> THEN NoStore ELSE Last(state.stores[t])
GetActiveScope(t) == IF subject.storage THEN StoreOf(t) ELSE state.fallback
EnterScope(t) ==
   /\ InScope /\ state.next <= MaxScopes
   /\ LET n == state.next
          store == MergeOverrides(GetActiveScope(t), subject.kinds[n], n)
      IN state' = [state EXCEPT !.next = @ + 1, !.open[t] = Append(@, n), !.stores[t] = Append(@, store),
                                !.previous[t] = Append(@, state.fallback),
                                !.fallback = IF subject.storage THEN @ ELSE store,
                                !.mixed = @ \/ \E u \in Tasks \ {t} : state.open[u] # <<>>]
LeaveScope(t) == \* the scope's promise settles
   /\ InScope /\ state.open[t] # <<>>
   /\ state' = [state EXCEPT !.open[t] = Front(@), !.stores[t] = Front(@), !.previous[t] = Front(@),
                             !.fallback = IF subject.storage THEN @ ELSE Last(state.previous[t])]
ScopeNext == \E t \in Tasks : EnterScope(t) \/ LeaveScope(t)
\* createScopeTransport: which scope answers a call, 0 for the real client or none.
InvokeInScope(store) == IF store.client # 0 THEN store.client ELSE store.handler
(* The credentials of a request.  A server that checks proofs hands its    *)
(* token over, or leaves it in the environment; the ready file says which, *)
(* and the generation the token is known by.  An older server wrote a      *)
(* generation only.  The environment's token and the token file of older   *)
(* servers may be there whatever the server does.                          *)
CredentialCases ==
   [part : {"invoke credentials"}, server : {"off", "handoff", "env", "older"}, ready : BOOLEAN, disabled : {"", "off", "0"},
    callback : {"absent", "undefined", "held"}, relay : BOOLEAN, envToken : BOOLEAN, tokenFile : {"absent", "empty", "held"}]
WriteAuthArtifacts(c) == [delivery |-> IF c.server \in {"off", "older"} THEN "" ELSE c.server,
                          generation |-> IF c.server = "off" THEN 0 ELSE 1]
AuthDisabledByEnv(c) == c.disabled \in {"off", "0"}
\* A generation of 0 is not written, so it reads as absent.  A handed-over token is in neither place.
DeliveryIgnored(c) == \* mutant: the delivery of the ready file is not looked at
   IF ~c.ready \/ WriteAuthArtifacts(c).generation = 0 THEN "none"
   ELSE IF c.envToken THEN "env" ELSE IF c.tokenFile = "held" THEN "file" ELSE "none"
ReadInvokeReadyAuth(c) ==
   LET r == WriteAuthArtifacts(c)
   IN CASE ~c.ready \/ r.delivery = "handoff" \/ r.generation = 0 -> "none"
        [] c.envToken -> "env"
        [] r.delivery = "env" \/ c.tokenFile # "held" -> "none"
        [] OTHER -> "file"
GeneratedAuth(c) ==
   CASE AuthDisabledByEnv(c) -> "none"
     [] c.callback # "absent" -> IF c.callback = "held" THEN "callback" ELSE "none"
     [] c.relay -> "relay"
     [] OTHER -> ReadInvokeReadyAuth(c)
\* The readers of @forst/cli, which the sidecar uses.
ResolveInvokeToken(c) ==
   LET delivery == WriteAuthArtifacts(c).delivery
   IN CASE delivery = "handoff" -> "none"
        [] c.envToken -> "env"
        [] delivery = "env" \/ c.tokenFile # "held" -> "none"
        [] OTHER -> "file"
ReadyAuthOfCli(c) == IF ~c.ready \/ WriteAuthArtifacts(c).generation = 0 THEN "none" ELSE ResolveInvokeToken(c)
\* The sidecar knows one word for disabled, no relay, and no call without credentials.
SidecarAuth(c) ==
   CASE c.disabled = "off" -> "none"
     [] c.callback # "absent" -> IF c.callback = "held" THEN "callback" ELSE "throws"
     [] ReadyAuthOfCli(c) = "none" -> "throws"
     [] OTHER -> ReadyAuthOfCli(c)
(* Which connection @forst/client makes of its configuration.              *)
ConnectionCases ==
   [part : {"client connection"}, baseUrl : BOOLEAN, devUrl : BOOLEAN, transport : {"", "http", "dev"},
    runtime : {"", "spawn", "connect"}, skip : BOOLEAN, envUrl : {"", "FORST_BASE_URL", "FORST_DEV_URL"},
    ready : {"none", "url", "socket"}, production : BOOLEAN, custom : BOOLEAN]
ResolveExplicitBaseUrl(c) == CASE c.baseUrl -> "base" [] c.devUrl -> "dev" [] c.envUrl # "" -> "env" [] OTHER -> "none"
ResolverUrl(c) == CASE c.ready = "url" -> "ready" [] ResolveExplicitBaseUrl(c) # "none" -> ResolveExplicitBaseUrl(c) [] OTHER -> "default"
ShouldConnect(c) ==
   CASE c.transport = "http" -> ResolveExplicitBaseUrl(c) # "none" \/ c.ready # "none"
     [] c.transport = "dev" \/ c.runtime = "spawn" -> FALSE
     [] OTHER -> c.runtime = "connect" \/ c.skip \/ ResolveExplicitBaseUrl(c) # "none" \/ c.ready # "none"
MergeForstSidecarEnv(c) ==
   IF c.runtime # "" THEN c.runtime
   ELSE IF c.skip \/ c.devUrl \/ c.envUrl = "FORST_DEV_URL" THEN "connect" ELSE "spawn"
CreateInvokeClient(c) == IF ShouldConnect(c) THEN "http" ELSE MergeForstSidecarEnv(c)
\* ForstClient: the client that calls, and the sidecar that start and stop are for.  Its base URL is never empty.
ExplicitConnect(c) == c.transport = "http" \/ c.runtime = "connect" \/ c.baseUrl \/ c.devUrl
ForstClientConnection(c) ==
   [calls |-> CreateInvokeClient([c EXCEPT !.baseUrl = TRUE, !.transport = IF ExplicitConnect(c) \/ c.custom THEN @ ELSE "dev"]),
    managed |-> IF c.custom THEN "custom" ELSE MergeForstSidecarEnv([c EXCEPT !.devUrl = TRUE])]
ResolveConnectionMode(c) ==
   IF c.production /\ ResolveExplicitBaseUrl(c) = "none" THEN "throws"
   ELSE IF ~c.production /\ ~c.skip /\ c.transport = "dev" THEN "dev" ELSE "http"

InvokeClientInit ==
   \/ subject \in CallCases /\ state = CallOpen
   \/ subject \in LineCases /\ state = LinesOpen
   \/ subject \in ScopeCases /\ state = ScopesOpen
   \/ subject \in CredentialCases \cup ConnectionCases /\ Stateless
InvokeClientNext ==
   \/ CallNext \/ LinesNext \/ ScopeNext
   \/ subject.part \in {"invoke credentials", "client connection"} /\ Compute
-----------------------------------------------------------------------------
\* (HttpInvokeClient, ForstSidecarClient) A call sends its request again only
\* when no answer of the function arrived in time, and the generated client's
\* never after a rejection; so a function that ran twice is one whose first
\* answer was late, lost, cut, not understood or an HTTP error.  A success is
\* an answer "ok" of the last request.  Every attempt starts with onStart, and
\* the call ends with one onSuccess or onFailure unless a hook throws.  An error
\* is tagged unless a hook threw it, the arguments could not be written, the
\* body was null or could not be read.  A timeout is heard over TCP, and by the
\* sidecar also over a socket.  (The guide promises it for every connection of
\* the generated client, and retries after it; neither is claimed.)
CallSound ==
   subject.part = "invoke call" =>
      LET n == Len(state.ends)
          final == state.ends[n]
      IN /\ n <= subject.retries + 1 /\ state.attempt <= subject.retries
         /\ \A i \in 1 .. n - 1 : /\ state.ends[i].reply \in Envelopes => state.ends[i].end = "timed out"
                                  /\ Generated => state.ends[i].end \notin {"rejected", "domain error", "version mismatch"}
         /\ state.outcome = "ok" => final.ran /\ final.reply \in {"ok", "other version"} /\ (Generated => final.reply = "ok")
         /\ state.outcome = "domain error" => final.ran /\ final.reply = "domain error"
         /\ state.outcome = "untagged" => ~subject.json \/ final.reply = "null" \/ subject.dial = "tcp"
         /\ SignalHeard => ~state.fired
         /\ Generated /\ subject.hook = "none" /\ state.pc = "done" =>
               state.hooks = [i \in 1 .. state.attempt + 1 |-> "onStart"]
                             \o <<IF state.outcome = "ok" THEN "onSuccess" ELSE "onFailure">>
\* (invokeStreamBody, streamingInvoke, consumeHostInvokeAuthStream) However
\* the text is cut into chunks, the generated client yields each row once and
\* in order, up to the first line that is no row, and ends without an error
\* only after the last row or when aborted; the relay keeps every line that
\* parses.  The sidecar's client yields rows at most once, in order, and all that
\* no chunk boundary falls into.  (Others it may lose; that it yields every row is
\* not claimed.)  The reader is released when the stream is over.
RowsOf(n) == {p \in 1 .. n - 2 : /\ Symbol(p) = "a" /\ Symbol(p + 1) = "b" /\ Symbol(p + 2) = "newline"
                                 /\ p > 1 => Symbol(p - 1) = "newline"}
InOrder(places) == SetToSortSeq(places, <)
WellFormedText == \A p \in DOMAIN subject.text : Symbol(p) \in {"a", "b"} => \E q \in RowsOf(Len(subject.text)) : p \in {q, q + 1}
LinesSound ==
   subject.part = "invoke lines" =>
      /\ state.locked = (state.pc \in {"open", "read", "lines", "yield"})
      /\ CASE subject.reader = "generated" ->
                 /\ IsPrefix(state.rows, InOrder(RowsOf(state.read)))
                 /\ state.pc = "ended" => WellFormedText /\ state.rows = InOrder(RowsOf(Len(subject.text)))
                 /\ state.hook = "onSuccess" => state.pc = "ended" \/ state.aborted
            [] subject.reader = "relay" -> state.pc = "read" => state.rows = InOrder(RowsOf(state.read))
            [] OTHER -> WellFormedText /\ state.pc = "read" =>
                           LET begun == {p \in 1 .. state.read - 1 : Symbol(p) = "a"}
                               got == Range(state.rows)
                           IN state.rows = InOrder(got) /\ got \subseteq begun /\ begun \ state.chunks \subseteq got
\* (withForstTestScope) A call inside a scope is answered by the innermost of
\* its task's scopes that replaces the raw call, and otherwise by the innermost
\* that has a handler for it: without AsyncLocalStorage as long as scopes of
\* two tasks never overlapped, and then nothing is left of a scope that ended.
Answering(scopes, kind) == Max({0} \cup {n \in Range(scopes) : subject.kinds[n] = kind})
ScopesSound ==
   subject.part = "test scope" /\ (subject.storage \/ ~state.mixed) =>
      /\ \A t \in Tasks :
            (subject.storage \/ state.open[t] # <<>>) =>
               InvokeInScope(GetActiveScope(t)) =
                  IF Answering(state.open[t], "client") # 0 THEN Answering(state.open[t], "client")
                  ELSE Answering(state.open[t], "handler")
      /\ (\A t \in Tasks : state.open[t] = <<>>) => state.fallback = NoStore
\* (resolveAuthState) Both clients choose the same credentials, but for the
\* values of FORST_INVOKE_AUTH the sidecar does not know and for the relay; a
\* token found in the environment or in a file is never used with a server
\* that hands its token over, and the environment's is used with one that
\* leaves it there.
CredentialsSound ==
   subject.part = "invoke credentials" /\ Computed =>
      LET g == GeneratedAuth(subject)
          s == SidecarAuth(subject)
      IN /\ subject.disabled # "0" /\ ~subject.relay => s = g \/ (s = "throws" /\ g = "none")
         /\ subject.server = "handoff" => {g, s} \cap {"env", "file"} = {}
         /\ subject.server \in {"handoff", "env", "off"} => "file" \notin {g, s}
         /\ /\ subject.server = "env" /\ subject.ready /\ subject.envToken /\ subject.disabled = ""
            /\ subject.callback = "absent"
            => s = "env" /\ (~subject.relay => g = "env")
\* (shouldConnect, mergeForstSidecarEnv, resolveConnectionMode) Nothing is
\* spawned when the configuration or FORST_SKIP_SPAWN says to connect, nor by a
\* ForstClient that was told where to connect; a transport "http" spawns only
\* when there is nothing to connect to; the generated client does not leave
\* http in production.
ConnectionSound ==
   subject.part = "client connection" /\ Computed =>
      LET c == subject
          f == ForstClientConnection(c)
      IN /\ c.runtime = "connect" \/ (c.skip /\ c.runtime = "") => CreateInvokeClient(c) # "spawn"
         /\ c.transport = "http" /\ CreateInvokeClient(c) = "spawn" => ResolverUrl(c) = "default" /\ c.ready = "none"
         /\ ExplicitConnect(c) /\ c.runtime # "spawn" /\ c.transport # "dev" =>
               f.calls = "http" /\ f.managed \in {"connect", "custom"}
         /\ c.production => ResolveConnectionMode(c) # "dev"
ClientSound == CallSound /\ LinesSound /\ ScopesSound /\ CredentialsSound /\ ConnectionSound
=============================================================================
