---------------------------- MODULE InvokeServer ----------------------------
(***************************************************************************)
(* The invoke server and the executor behind it: challenge and proof of a  *)
(* request, admission, the compile cache and temporary modules of the dev  *)
(* backend, streamed results, and what becomes of a function's result in   *)
(* the dev backend and in the embedded registry.                           *)
(***************************************************************************)
EXTENDS Naturals, FiniteSets, Sequences, SequencesExt, Subject

CONSTANTS MaxInvokes      \* bound: requests, and calls of the executor
MaxSecrets == 2           \* bound: tokens, installed or of a new process
MaxOutstandingNonces == 2 \* 1024 in the code
MaxConcurrentInvoke == 1  \* 64 by default
FailureThreshold == 2     \* defaultAuthFailureThreshold is 5
Invokes == 1..MaxInvokes
(* Requests.  The nonce of a request is the request that asked for it; a   *)
(* secret is the pair of its number and the generation it is known by.     *)
NewRequest == [pc |-> "new", nonce |-> 0, secret |-> [id |-> 1, gen |-> 1]]
InvokeStart ==
   [secret |-> [id |-> 1, gen |-> 1], nonces |-> {}, failures |-> 0, blocked |-> FALSE, reloading |-> FALSE, sem |-> 0,
    req |-> [r \in Invokes |-> NewRequest], passed |-> [r \in Invokes |-> 0], disturbed |-> FALSE]
InInvoke == subject.part = "invoke server" /\ UNCHANGED subject
RequestAt(r, pc) == InInvoke /\ state.req[r].pc = pc
GoTo(s, r, pc) == [s EXCEPT !.req[r].pc = pc]
RecordAuthFailure(s) == [s EXCEPT !.failures = @ + 1, !.blocked = @ \/ s.failures + 1 >= FailureThreshold]
Refuse(s, r) == GoTo(RecordAuthFailure(s), r, "rejected")
LearnSecret(r) == \* the client reads the ready file and the handed-over token
   RequestAt(r, "new") /\ state' = [state EXCEPT !.req[r] = [@ EXCEPT !.pc = "challenge", !.secret = state.secret]]
HandleChallenge(r) ==
   /\ RequestAt(r, "challenge")
   /\ state' = IF state.blocked \/ Cardinality(state.nonces) >= MaxOutstandingNonces THEN GoTo(state, r, "rejected")
               ELSE GoTo([state EXCEPT !.nonces = @ \cup {r}, !.req[r].nonce = r], r, "allow")
Resend(r, q) == \* the client's connection was lost and the request sent again
   /\ RequestAt(q, "new") /\ state.req[r].nonce # 0
   /\ state' = [state EXCEPT !.req[q] = [state.req[r] EXCEPT !.pc = "allow"], !.disturbed = TRUE]
Expire(n) == InInvoke /\ n \in state.nonces /\ state' = [state EXCEPT !.nonces = @ \ {n}, !.disturbed = TRUE]
Allow(r) == RequestAt(r, "allow") /\ state' = GoTo(state, r, IF state.blocked THEN "rejected" ELSE "nonce")
ConsumeKeepsNonce(r) == \* mutant: the nonce is looked up and not deleted
   /\ RequestAt(r, "nonce")
   /\ state' = IF state.req[r].nonce \in state.nonces THEN GoTo(state, r, "generation") ELSE Refuse(state, r)
ConsumeNonce(r) ==
   /\ RequestAt(r, "nonce")
   /\ LET n == state.req[r].nonce
      IN state' = IF n \in state.nonces THEN GoTo([state EXCEPT !.nonces = @ \ {n}], r, "generation") ELSE Refuse(state, r)
CheckGeneration(r) ==
   /\ RequestAt(r, "generation")
   /\ state' = IF state.req[r].secret.gen = state.secret.gen THEN GoTo(state, r, "token") ELSE Refuse(state, r)
VerifyInvokeProof(r) == \* with the token of this moment: it may have been replaced
   /\ RequestAt(r, "token")
   /\ state' = IF state.req[r].secret.id = state.secret.id
               THEN GoTo([state EXCEPT !.failures = 0, !.blocked = FALSE, !.passed[state.req[r].nonce] = @ + 1], r, "invoke")
               ELSE Refuse(state, r)
HandleInvoke(r) ==
   /\ RequestAt(r, "invoke")
   /\ \/ state' = GoTo(state, r, "rejected")      \* method, host or content type
      \/ state' = GoTo(state, r, IF state.reloading THEN "rejected" ELSE "acquire")
Acquire(r) ==
   /\ RequestAt(r, "acquire")
   /\ \/ state.sem < MaxConcurrentInvoke /\ state' = GoTo([state EXCEPT !.sem = @ + 1], r, "running")
      \/ state' = GoTo(state, r, "rejected")      \* the request is cancelled
Release(r) == \* after a result, or any of the errors of handleInvoke
   RequestAt(r, "running") /\ state' = GoTo([state EXCEPT !.sem = @ - 1], r, "done")
InstallAuth == \* with a generation of its own, or pinned to the present one
   /\ InInvoke /\ state.secret.id < MaxSecrets
   /\ \E g \in {0, 1} : state' = [state EXCEPT !.secret = [id |-> @.id + 1, gen |-> @.gen + g], !.disturbed = TRUE]
InsideServer == {"nonce", "generation", "token", "invoke", "acquire", "running"}
Restart == \* a new process: the first generation again, of a new token
   /\ InInvoke /\ state.secret.id < MaxSecrets
   /\ state' = [state EXCEPT !.secret = [id |-> @.id + 1, gen |-> 1], !.nonces = {}, !.failures = 0, !.blocked = FALSE,
                             !.sem = 0, !.disturbed = TRUE,
                             !.req = [r \in Invokes |-> IF @[r].pc \in InsideServer THEN [@[r] EXCEPT !.pc = "rejected"] ELSE @[r]]]
ReloadMarker == InInvoke /\ state' = [state EXCEPT !.reloading = ~@]
BackoffEnds == InInvoke /\ state.blocked /\ state' = [state EXCEPT !.blocked = FALSE]
InvokeNext ==
   \/ InstallAuth \/ Restart \/ ReloadMarker \/ BackoffEnds
   \/ \E r \in Invokes : \/ LearnSecret(r) \/ HandleChallenge(r) \/ Allow(r) \/ ConsumeNonce(r) \/ CheckGeneration(r)
                         \/ VerifyInvokeProof(r) \/ HandleInvoke(r) \/ Acquire(r) \/ Release(r) \/ Expire(r)
                         \/ \E q \in Invokes \ {r} : Resend(r, q)
(* The executor: one function, its sources edited while calls run.         *)
MaxEdits == 2
ExecutorStart == [source |-> 1, cache |-> 0, temp |-> {}, pc |-> [c \in Invokes |-> "lookup"],
                  code |-> [c \in Invokes |-> 0]]
InExecutor == subject.part = "executor" /\ UNCHANGED subject
ExecAt(c, pc) == InExecutor /\ state.pc[c] = pc
Streams(c) == c \in subject.streams
EditSource == InExecutor /\ state.source < MaxEdits /\ state' = [state EXCEPT !.source = @ + 1]
GetOrCompileFunction(c) ==
   /\ ExecAt(c, "lookup")
   /\ state' = IF state.cache # 0 THEN [state EXCEPT !.code[c] = state.cache, !.pc[c] = "module"]
               ELSE [state EXCEPT !.pc[c] = "compile"]
CompileFunction(c) ==
   /\ ExecAt(c, "compile")
   /\ \/ state' = [state EXCEPT !.code[c] = state.source, !.pc[c] = "store"]
      \/ state' = [state EXCEPT !.pc[c] = "failed"]
StoreCompiled(c) ==
   /\ ExecAt(c, "store")
   /\ state' = [state EXCEPT !.cache = state.code[c], !.pc[c] = "module"]
CreateModule(c) == \* a module that cannot be written is removed again
   /\ ExecAt(c, "module")
   /\ \/ state' = [state EXCEPT !.temp = @ \cup {c}, !.pc[c] = "run"]
      \/ state' = [state EXCEPT !.pc[c] = "failed"]
ExecuteGoCode(c) == \* and the deferred removal
   /\ ExecAt(c, "run") /\ ~Streams(c)
   /\ \E o \in {"done", "failed"} : state' = [state EXCEPT !.temp = @ \ {c}, !.pc[c] = o]
ExecuteStreamingGoCode(c) ==
   /\ ExecAt(c, "run") /\ Streams(c)
   /\ \E o \in {"done", "failed"} : state' = [state EXCEPT !.pc[c] = o]
ExecutorNext ==
   \/ EditSource
   \/ \E c \in Invokes : \/ GetOrCompileFunction(c) \/ CompileFunction(c) \/ StoreCompiled(c)
                         \/ CreateModule(c) \/ ExecuteGoCode(c) \/ ExecuteStreamingGoCode(c)
(* A streamed result: the scanner's goroutine, the adapter's and the       *)
(* handler.  subject.lines is what the program prints.                     *)
StreamBuffer == 1      \* 100 in the code
StreamStart == [read |-> 0, scan |-> "reading", results |-> <<>>, closed |-> FALSE, held |-> <<>>, out |-> "open",
                sent |-> <<>>, handler |-> "reading"]
InStream == subject.part = "invoke stream" /\ UNCHANGED subject
Chunk(l) == IF l = "junk" THEN "error" ELSE l
ScanLine ==
   /\ InStream /\ state.scan = "reading" /\ Len(state.results) < StreamBuffer
   /\ state' = IF state.read = Len(subject.lines) \/ subject.lines[state.read + 1] = "long"
               THEN [state EXCEPT !.scan = "waiting"]   \* the end, or a line the scanner does not take
               ELSE [state EXCEPT !.read = @ + 1, !.results = Append(@, Chunk(subject.lines[state.read + 1]))]
WaitAndClose == \* cmd.Wait, then close(results); a program that still prints may never exit
   /\ InStream /\ state.scan = "waiting"
   /\ state' = [state EXCEPT !.scan = "ended", !.closed = TRUE]
AdaptExecutorStream ==
   /\ InStream /\ state.held = <<>> /\ state.out = "open"
   /\ \/ state.results # <<>> /\ state' = [state EXCEPT !.held = <<Head(state.results)>>, !.results = Tail(@)]
      \/ state.results = <<>> /\ state.closed /\ state' = [state EXCEPT !.out = "closed"]
EncodeResult ==
   /\ InStream /\ state.handler = "reading" /\ state.held # <<>>
   /\ \/ state' = [state EXCEPT !.sent = @ \o state.held, !.held = <<>>]
      \/ state' = [state EXCEPT !.held = <<>>, !.handler = "gone"]     \* the client is gone
StreamEnds ==
   /\ InStream /\ state.handler = "reading" /\ state.out = "closed" /\ state' = [state EXCEPT !.handler = "ended"]
StreamNext == ScanLine \/ WaitAndClose \/ AdaptExecutorStream \/ EncodeResult \/ StreamEnds
(* A function's result, as the generated main program prints it and the    *)
(* executor reads it, and as the embedded registry returns it.             *)
Values == {"text", "control text", "small int", "large int", "fraction", "not a number", "bool", "null", "record"}
ResultCases == [part : {"invoke result"}, returns : {"value", "tagged error", "plain error"}, value : Values,
                noise : BOOLEAN]
GenerateStandardMainGo(c) == \* the exit status, and the kind of JSON printed
   CASE c.returns = "value" -> [exit |-> 0, json |-> IF c.value = "not a number" THEN "broken" ELSE "result"]
     [] c.returns = "tagged error" -> [exit |-> 0, json |-> "failure"]
     [] OTHER -> [exit |-> 1, json |-> "none"]
ExecutionResultFromValue(v) == \* decoded into any and formatted again
   CASE v = "large int" -> "rounded int" [] v = "control text" -> "invalid json" [] OTHER -> v
Answer(status, success, tag, result) == [status |-> status, success |-> success, tag |-> tag, result |-> result]
\* A backend that returns an error is answered with HTTP 500.
SendError == Answer(500, FALSE, FALSE, "none")
ParseIgnoresEnvelope(o, c) == \* mutant: a failure envelope is taken for a result
   Answer(200, TRUE, FALSE, ExecutionResultFromValue(c.value))
ParseExecutionOutput(o, c) ==
   CASE c.noise \/ o.json = "broken" -> Answer(200, TRUE, FALSE, "none")
     [] ~c.noise /\ o.json = "failure" -> Answer(200, FALSE, TRUE, "none")
     [] OTHER -> Answer(200, TRUE, FALSE, ExecutionResultFromValue(c.value))
\* A program that ends with another status than 0 is an error of executeGoCode; its output is not parsed.
DevInvoke(c) ==
   LET o == GenerateStandardMainGo(c) IN IF o.exit # 0 THEN SendError ELSE ParseExecutionOutput(o, c)
RegistryInvoke(c) ==
   CASE c.returns # "value" -> Answer(200, FALSE, c.returns = "tagged error", "none")
     [] c.returns = "value" /\ c.value = "not a number" -> SendError
     [] OTHER -> Answer(200, TRUE, FALSE, c.value)
(* Parameters, decoded by the dev program and by the embedded handler.  A  *)
(* program that declares paramBytes twice is refused by the Go compiler.   *)
ParamTypes == {"string", "int", "float64", "bool", "struct"}
ParamArgs == {"text", "small int", "fraction", "bool", "null", "record"}
UpTo2(S) == UNION {[1..n -> S] : n \in 0..2}
ParameterCases == [part : {"invoke parameter"}, types : UpTo2(ParamTypes), args : UpTo2(ParamArgs)]
Assertable == [string |-> {"text"}, int |-> {"small int", "fraction"}, float64 |-> {"small int", "fraction"},
               bool |-> {"bool"}, struct |-> {"null", "record"}]
Stored(t, a) ==
   CASE t = "int" /\ a = "fraction" -> "whole part" [] t = "struct" /\ a = "null" -> "zero value" [] OTHER -> a
Structs(c) == {i \in DOMAIN c.types : c.types[i] = "struct"}
BuildParameterExtraction(c) == \* the stored values, or an error of the program
   IF Cardinality(Structs(c)) <= 1 /\ Len(c.args) >= Len(c.types)
      /\ \A i \in DOMAIN c.types : c.args[i] \in Assertable[c.types[i]]
   THEN [i \in DOMAIN c.types |-> Stored(c.types[i], c.args[i])] ELSE <<"error">>
RECURSIVE DecodeFrom(_, _, _)
DecodeFrom(c, i, got) == \* one parameter after the other; a missing one is a panic
   CASE i > Len(c.types) -> got
     [] i <= Len(c.types) /\ i > Len(c.args) -> <<"error">>
     [] i <= Len(c.types) /\ i <= Len(c.args) ->
           IF c.args[i] \in Assertable[c.types[i]] THEN DecodeFrom(c, i + 1, Append(got, Stored(c.types[i], c.args[i])))
           ELSE <<"error">>
DecodeArgsFromJSON(c) == IF Cardinality(Structs(c)) > 1 THEN <<"error">> ELSE DecodeFrom(c, 1, <<>>)
InvokeServerInit ==
   \/ subject = [part |-> "invoke server"] /\ state = InvokeStart
   \/ subject \in [part : {"executor"}, streams : SUBSET Invokes] /\ state = ExecutorStart
   \/ subject \in [part : {"invoke stream"}, lines : UNION {[1..n -> {"a", "b", "junk", "long"}] : n \in 0..3}]
      /\ state = StreamStart
   \/ subject \in ResultCases \cup ParameterCases /\ Stateless
InvokeServerNext == InvokeNext \/ ExecutorNext \/ StreamNext
-----------------------------------------------------------------------------
\* (nonce_store, rate_limit) One request at most passes with a nonce, however
\* often it is sent; slots are counted exactly and never exceeded; and a client
\* that proves every request is not blocked unless a secret was replaced, a
\* nonce expired or a request was sent twice.
AdmissionSound ==
   subject.part = "invoke server" =>
      /\ \A r \in Invokes : state.passed[r] <= 1
      /\ state.sem = Cardinality({r \in Invokes : state.req[r].pc = "running"}) /\ state.sem <= MaxConcurrentInvoke
      /\ Cardinality(state.nonces) <= MaxOutstandingNonces
      /\ state.blocked => state.disturbed
\* (executor) Every temporary module belongs to a call under way or to a
\* stream, also when calls fail at any step.  What a call runs is the code of
\* a compile that succeeded, of the present sources unless they were edited
\* since the first call (NewDevBackend's "recompiles ... on each invoke" does
\* not hold once they were, and is not claimed).
ExecutorSound ==
   subject.part = "executor" =>
      /\ \A c \in state.temp : state.pc[c] = "run" \/ Streams(c)
      /\ \A c \in Invokes : state.pc[c] \in {"module", "run", "done"} =>
            state.code[c] = state.source \/ (state.source > 1 /\ state.code[c] # 0)
\* (AdaptExecutorStream) Chunks arrive in the order they were printed, and a
\* stream that ends has brought all of them, up to a line that is too long.
StreamComplete ==
   subject.part = "invoke stream" =>
      LET taken == SelectInSeq(subject.lines, LAMBDA l : l = "long")
          all == IF taken = 0 THEN subject.lines ELSE SubSeq(subject.lines, 1, taken - 1)
          chunks == [i \in DOMAIN all |-> Chunk(all[i])]
      IN /\ IsPrefix(state.sent, chunks)
         /\ state.handler = "ended" => state.sent = chunks
\* (DevBackend, RegistryBackend) A result that can be marshalled and survives
\* decoding and formatting, and a tagged error, are answered alike by both
\* backends as long as the function prints nothing; an untagged error is a
\* failure of both.  (The dev backend answers it with status 500, the registry
\* with 200.)  Both store the same values in the parameters, or fail on the
\* same ones.
Survives(c) == ~c.noise /\ c.value \notin {"large int", "control text", "not a number"}
BackendsAgree ==
   /\ subject.part = "invoke result" =>
         LET dev == DevInvoke(subject)
             emb == RegistryInvoke(subject)
         IN /\ subject.returns = "value" /\ Survives(subject) => dev = emb
            /\ subject.returns = "tagged error" /\ ~subject.noise => dev = emb
            /\ subject.returns = "plain error" => ~dev.success /\ ~emb.success
   /\ subject.part = "invoke parameter" => BuildParameterExtraction(subject) = DecodeArgsFromJSON(subject)
InvokeServerSound == AdmissionSound /\ ExecutorSound /\ StreamComplete /\ BackendsAgree
=============================================================================
