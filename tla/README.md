# Forst: a TLA+ verification project

Forst is a language that compiles to Go and calls TypeScript through a Node
process. This directory models its compiler, its development tools, its
language server and the clients of the programs it builds. TLC checks the
models on small instances; TLAPS proves the most important properties of the
concurrent parts for every instance. `PROJECT.json` lists components, runs,
mutants, the map from definitions to source lines, findings, hazards and
theorems.

Run a model with `tlc -config X.cfg M` and a proof with `tlapm M.tla`.

## The system and its parts

| Part | Source (`src/`) | Modules |
|---|---|---|
| Save-to-reload path of `forst dev` | `forst/internal/devserver/{watch,reload_coalescer,runtime}.go` | `ReloadQueue` (its promise), `ReloadCoalescer` |
| Reload, shutdown, crash recovery of `forst dev` | `devserver/{runtime,child_pid,reload_gate}.go`, `compiler/run_background.go` | `DevReload` |
| Incremental compile session | `internal/devcompile/session.go`, `internal/compiler` | `DevSession` |
| Sandbox directory of a dev session | `internal/compiler`, `internal/gowork` | `DevSandbox`, `Linking` |
| Reload coordinator and gate in front of invokes | `internal/reload`, `invokeserver/middleware.go` | `ReloadGate` |
| RPC client of the Node bridge | `bridgert/{client,frame}.go` | `BridgeClient` |
| Node host and its owners | `bridgert`, `devserver/host_orchestrator.go`, `packages/runtime` | `BridgeHost` |
| TypeScript generators over the bridge | transformer, `bridgert/generator.go`, `packages/runtime` | `Generators` |
| Invoke server and function executor | `internal/{invokeserver,executor,invokedispatch}` | `InvokeServer` |
| Invoke clients (generated, sidecar, `@forst/client`) | `internal/generators`, `packages/{sidecar,client}` | `InvokeClient` |
| Sidecar | `packages/sidecar` | `Sidecar` |
| Command line wrapper | `packages/cli` | `CliCache` |
| Language server | `cmd/forst/lsp` | `LspWire`, `LspServer`, `LspSystem` |
| VS Code extension | `packages/vscode-forst/src` | `LspWire`, `LspEditor`, `LspSystem` |
| Parser, printer, formatter | `internal/{parser,printer}` | `Parser`, `Printer`, `Syntax` |
| Type checker: jumps, types, calls, selectors, scopes, hashes | `internal/{typechecker,hasher}` | `Labels`, `Types`, `Calls`, `Fields`, `Hashes`, `Scopes`, `Checker` |
| Refinement facts | `internal/typechecker` | `Refinement` |
| Providers | `internal/{typechecker,modulecheck,transformer}` | `Providers` |
| Lowering of fallible bindings to Go | `internal/transformer/go` | `Lowering` |
| Packages, imports, overlays, `forst test` modules | `internal/{modulecheck,forstpkg,forstdep,depoverlay,testrunner}` | `Packages` |
| Linking to the runtime module | `internal/{goload,gowork}` | `Linking` |
| Everything else | see `PROJECT.json` | not modelled, with the reason |

How they meet: a save reaches `ReloadCoalescer`, which starts the reloads that
`DevReload` describes step by step; a reload compiles through `DevSession`,
writes into the directory of `DevSandbox`, stops and starts the Go child, and
`ReloadGate` keeps requests out of the embedded server meanwhile. The running
program calls Node through `BridgeClient`, whose host `BridgeHost` starts and
finds; `Generators` is built on the contract that client keeps. `DevReload`
takes from `ReloadCoalescer` that reloads come one at a time. `LspSystem`
composes an editor and a server that share only the requests in flight.

Three umbrella modules give the smaller components one run each. A behaviour
is about one `subject` (module `Subject`), whose `part` says which component it
belongs to: `Compiler` (`DevSession`, `DevSandbox`, `Fields`, `Lowering`,
`Packages`, `Linking`), `Language` (`Providers`, `Refinement`, `Syntax`,
`Checker`) and `Tooling` (`BridgeHost`, `Sidecar`, `InvokeServer`,
`InvokeClient`, `CliCache`). A component that only computes an answer does so
in the one step `Compute` of `Subject`, and its property is about that answer.

## The modules

**ReloadCoalescer.** `event`, `armed` and `firing` are fsnotify, the debounce
timer and its callbacks; `running`, `pending` are the fields of the Go struct;
`gor` says where each goroutine is. A critical section of `mu` is a step, and
so are the entry and the return of `fn`. `version` and `built` say which save
is on disk and which one a started reload can have read. `EarlyChange` allows
a callback to reach `schedule()` before `runSync`, as the code does; when it is
FALSE the module implements `ReloadQueue` (`dirty` is `built < version`, `busy`
is "someone is in `fn`").

**BridgeClient.** A caller is one `Client.Call`, from the initialize gate
through id, registration in `pending`, write, the `select` over answer and
timer, and return. `readLoop` takes an entry out of `pending` in one section
and sends on its channel in another; `failAllPending` runs when the connection
dies. The host is external: it answers in any order, late, or never.

**BridgeHost.** `forst dev` (HostOrchestrator) or the Go program (Supervisor)
looks for a host through the socket and the ready marker in `.forst`, spawns
one, connects, and stops it; `subject.mode` says who owns the host. Owners and
hosts may die between any two steps.

**DevReload.** The three marker files and the child processes outlive a crash;
the memory of `forst dev` does not. `rl` walks `performDevReload`, with each
file write, kill and start as a step; `sd` is the shutdown goroutine. `raced`
records what the code does not recover from: a Ctrl-C that overlaps a reload, a
crash that leaves a child whose pid is not in `go-child.pid`, and an orphan that
could not be terminated.

**DevSession, DevSandbox.** A text is the tick it was written at, which also is
its fingerprint. Stat, read, store, and taking the module fingerprint are
separate steps, with edits, creation and removal of files between any two. A text of `Unparsable` has a syntax error: it is reported or, in a sibling
file, left out. The sandbox directory is never emptied: a reload finds what earlier ones left.
The go command is external.

**ReloadGate.** Every critical section of the coordinator's mutex, the drain
goroutine on the condition variable, cancellation, and requests of both kinds.
A backend may panic: net/http recovers and the count is never taken back.

**Generators.** The emitted loop with its batch buffer, `Seq.Next`,
`NextBatch`, `Close`, and the stream table of the runtime, which answers
requests in order, may die, and numbers its streams from 1 again when replaced.
The table is a function from the ids of open streams. A generator ends by
returning or by throwing, an Error or something else (`ending`).

**InvokeServer.** Challenge, proof and nonce, admission, the compile cache and
the temporary modules of the executor, streamed results (from what the child
prints to the wait for its exit and the close of the channel), and what becomes
of a result, an error and a failed program in the dev backend and in the
embedded registry, HTTP status included.

**InvokeClient.** A call with its timeout and retries, a body of `null` and
arguments that cannot be written as JSON included, a streamed answer cut
into chunks anywhere, the scopes of the generated test module, and the choice
of credentials and of a connection.

**Sidecar.** `start`, `stop` and `restart` are flows that interleave at every
await; the reload-aware transport parks requests, probes the server's health
and replays them; a start is also judged by what it returns for every answer of
the health and version checks.

**CliCache.** Processes that share the compiler cache and its lock file, each
with its own verification mode; the test server and a `stop` that returns in
steps; the hand-off of the invoke secret; versions and arguments.

**LspEditor, LspServer, LspSystem.** A request is a record that moves from
"ensure" (waiting for the server process) to "posted", through its handler, to
"answered". The editor side has the debounce timers, generations, restart token
and re-open loops; texts of `Broken` do not parse and texts of `Empty` are
empty. The server side has the open documents behind a Go RWMutex
in which a waiting writer keeps readers out, and the reading of the package
group. `apart` is a history variable: it records that requests or answers
overtook each other, that one failed, or that a server came up empty, and is
reset by a restart that really stops the server. Left out of this model: the
caches (keyed by the texts they were computed from), the query features, and
the time a killed server needs to go away.

**Parser, Printer, Syntax.** The recursive-descent parser with precedence
climbing over token streams, the pretty-printer, and `FormatDocument` on top of
both. Spans, indentation and the 80-column rule are left out.

**Labels, Types, Calls, Fields, Hashes, Scopes.** Algorithms of the type
checker as operators, each next to a reference definition: Go's rules for
jumps, the sets of values types have, the fields Go selects, lexical scoping. A
digest is ideal: two are equal when the same bytes were written.

**Refinement.** The facts a checker holds beside the storage of the running
program: a behaviour executes statements on both and compares.

**Providers.** Inference and checking of the contracts functions use, over
packages, exports, tests and main, the lowering of calls, and the execution of
the lowered program.

**Lowering.** The checker's narrowing, the walks that decide which Go variables
are bound, the emitted Go body, Go's rules, and both meanings.

**Packages, Linking.** Which packages a project has and how they are reached;
which go.mod and go.work a sandbox gets, read back as the go command does.

## What the runs check

A pass is exhaustive for its bounds. Sizes are distinct states.

| Run | Bounds | States | Shows |
|---|---|---|---|
| `reload_coalescer` | 2 loop goroutines, 4 saves, no early change | 1,050 | reloads are serial, no save is lost, the last save is reloaded, `ReloadQueue` is implemented |
| `bridge_client` | 2 callers, socket of 1 frame | 70,614 | own answers, a sound pending table, every call returns |
| `dev_reload` | 3 pids, 2 saves, 1 crash | 249,719 | children accounted for, clean exits, true markers, Ctrl-C ends the session |
| `dev_session` | 3 files, 4 ticks (the text of tick 2 does not parse), 3 reloads of the sandbox, all inputs of the other parts | 965,893 | fresh parses and results; selectors, lowering, packages, linking, sandbox |
| `reload_gate` | 2 invokes, 1 stream, 2 reloads | 31,142 | exact count, no lost wake-up, one reload at a time, drains end |
| `generators` | 2 handles (one pulls single items), 3 items, batches of 2, 1 timeout, 1 death; both generators end alike, in each of the three ways | 488,122 | own items, in order, complete, streams released, loops end |
| `lsp_sync` | 2 documents (one edited; the second edit does not parse, the third empties it), 3 requests, 2 in flight, 3 edits, restarts and failures together, of these 1 restart and 1 failure | 1,589,180 | a settled editor and server agree, the newest diagnostics are shown, only the known wedge hangs |
| `language` | programs of up to 3 statements | 373,329 | providers, refinement facts, parser, formatter, type checker |
| `tooling` | 2 hosts, 3 bridge clients, 3 children, 3 flows, 2 requests with 1 retry, 3 invokes, 2 installers, 3 test scopes, streams of up to 6 characters | 1,400,179 | bridge host, sidecar, invoke server, command line, clients |

What the composite properties are made of is stated where they are defined;
each part has a comment of its own.

The bounds are the smallest at which the cases meet: two of each actor that can
race, one more item than a batch, one crash in every place it can fall, an edit
while the answer to another is on its way. `lsp_sync` was also run to the end
without the joint bound on edits, restarts and failures (4,248,200 states), and
`generators` with endings that differ (1,458,128 states). The umbrella runs
take every input of their parts' input sets (`FieldInputs`, `LoweringInputs`,
`ScopeInputs` ...): all programs of a given small shape rather than samples.

Three runs expect a violation, where a comment or a specification says one
thing and the code does another. `PROJECT.json` quotes the lines.

| Run | What happens |
|---|---|
| `reload_gate_invoke` | a request admitted before a drain and counted after it runs during regeneration |
| `providers_spec` | an exported function is accepted although it requires a provider: the merge adds the requirement after the export check |
| `refinement_stability` | the checker keeps a refinement of a variable whose address was passed to a Go call |

`CHECK_DEADLOCK FALSE` is used where the system may stop: all calls returned,
`forst dev` exited, all loops left, an answer computed, or a bound reached.
`LspSystem` keeps the check, with `Idle` for the end of a behaviour.

## Fairness

Weak fairness of a goroutine's next step is the Go scheduler's. Timers fire.
In `ReloadCoalescer` and `DevReload`, a reload returns because each of its waits
has a deadline. In `BridgeClient` the lock of the client is taken with strong
fairness, as Go's mutex hands itself over to waiters that starve; a host that is
up reads its socket (a host that stops reading blocks `Call` before its timer
starts), but owes no answer. In `ReloadGate` a request inside the backend ends;
new requests may arrive for ever. In `Generators` each loop and the runtime go
on; a lost answer is ended by the timeout. No user event, crash, or failure is
assumed to happen. `LspSystem` has no liveness property: `OnlyWedgedHangs` says
that a state with calls under way always offers one of them a step.

## What is proved

Every listed theorem is of the form `Spec => []P` and rests on an inductive
invariant, proved initially true and preserved by one step per action. Liveness,
`ENABLED` (so `OnlyWedgedHangs`), and what recursive definitions compute are
model-checked only, and so are the language server and the umbrella components.

**ReloadCoalescerProofs** (any loops, any number of saves). `Owned` and
`Carried`: while `running` or `pending` is set some goroutine is on its way into
`fn` or inside it, and will look at `pending` when it leaves. (`pending =>
running` is not inductive: with two goroutines in `fn` the first to leave clears
`running`.) From these: nothing is lost, also with early changes; without them
`OneAtATime` is inductive too, reloads are serial, and every step implements
`ReloadQueue`.

**BridgeClientProofs** (any callers, any socket capacity). Ids are not reused
and frames carry the id of their caller; an entry of `pending`, a channel the
reader holds and a filled channel exclude each other, so that a send never finds
a channel full. `LateSound` is about a call that registers after the read loop
ended: nobody will answer it, and it returns only by its write error or timeout.

**DevSessionProofs** (any files, texts, edits). A fingerprint grows with every
edit, so an entry whose text was replaced between stat and read is a later miss
and never a stale hit; what a compile merged is at least as new as its begin. The
module result is stated for results whose fingerprint is that of the checked
texts. `NothingUnparsed` is an invariant of its own.

**ReloadGateProofs** (any finite sets of requests, any drains; finiteness is
needed to count). The count is the cardinality of the requests in the backend
and of those that panicked there. A sleeper implies a positive count, as each
decrement that reaches zero broadcasts in its own critical section.

**DevReloadProofs** (any bounds). For each place of `performDevReload` the
invariant says which children can be alive, which one the program holds and
which one `go-child.pid` names; all that as long as not `raced`.

**GeneratorsCalls, GeneratorsProofs** (any handles and yields, batches of two or more).
`Sound`: a waiting call has one request in the socket or one reply. `InStep`:
the position of the runtime's generator is what the body has seen plus what is
in the batch or in a reply. The items are claimed while the first runtime lives
and for handles that pull in batches.

Assumptions on constants are the named `ASSUME`s of the component modules; the
runs evaluate them.

## Known disagreements and gaps

Where the code does not do what a property would like to say, the model does
what the code does, and the property says for which inputs or behaviours it
holds. A named operator or a history variable (`raced`, `apart`, `holes`,
`orphaned`, `overlap`, `Misled`, `SeesLater`, `Lenient`, `Stricter` ...) marks the
rest. So a pass shows that there is no other way for the property to fail; it
does not show that the marked cases are harmless. These are the marked cases,
and other disagreements met on the way.

**forst dev.** A crash between the start of a child and `recordStartedChild`
leaves a child nobody reaps; an orphan that cannot be terminated has its pid
file cleared anyway; a Ctrl-C during a reload may leave the child the reload
starts. A change before `runSync` can make two reloads run at once. A save during
a module check is fingerprinted as if checked, and a file created after the check
is not in the fingerprint, so that a new sibling with a syntax error is silently
left out. The sandbox keeps companions of earlier reloads, and the key of a
skipped tidy does not cover all imports.

**Reload gate.** An invoke may run during a regeneration (`reload_gate_invoke`).
A stream is not counted while it is being written. A panicking backend is counted
for ever and later drains end only by their context.

**Bridge.** A bootstrap host whose connection is reset stays up with a live
marker, and later bootstraps are refused. An owner that dies before its host is
announced can leave two hosts. Stream ids start at 1 again in a new runtime, so
an old handle may pull from another generator. A single pull after a timed-out
batch may skip an item; the items of a batch that ends with an Error are lost.

**Invoke server and executor.** A plain error is HTTP 500 from the dev backend
and 200 from the embedded one. Integers beyond 2^53 are rounded. The module of a
stream is never removed; after a line that is too long the wait for the child may
not return. Compiled code is cached although `backend.go:39` speaks of
recompiling. `InstallAuth` has no caller in the tree; its effect is modelled.

**Clients.** The guide (`call-forst.mdx:421`) promises a retry of a timeout, which
the sidecar does and the generated client does not; the generated client does not
hear a timeout over a socket (`:420`). A failed challenge is retried as
unreachable; a body of `null` and unwritable arguments give untagged errors. An
aborted stream ends as a success, a stream left early is not cancelled, a last
row without a newline is an error, and the sidecar drops rows cut by a chunk.
Overlapping test scopes disturb each other without AsyncLocalStorage.

**Sidecar.** A spawned server that cannot be reached is taken for running
(`server.ts:151` promises a throw). Overlapping restarts run two children for a
time. A start in connect mode waits for an unreachable server instead of failing.
A late auth hand-off of a child that exited is stored. `stop` leaves the debounce
timer.

**Command line.** `FORST_DEV_URL` alone is overruled by the default address. A
strict process accepts what a lax one installed. Stale locks are removed by name,
so two processes may download. A crash between rename and chmod leaves a binary
that cannot be executed. A second `stop()` returns while the child runs. A start
may return another server of the same root.

**Language server.** `loadPackageGroupContents` takes a read lock twice and can
wedge the server (`Wedged`). Re-opening after a restart opens documents closed
meanwhile. A buffer that left its package is still merged through its file on
disk, and an emptied buffer is analysed as that file. Deleted names stay known
until they are saved, since buffers are checked on top of the files on disk.
Caches and query features are not modelled.

**Packages and loading.** An external test package claims the import path of the
package it tests, and a file with its package's name may claim that of another
one; map order decides. Functions of test files are registered and not compiled.
Calls into a package elsewhere are charged to a local one of the same name.
Packages that have tests get no library shim in other packages' test modules; a
file that does not parse makes package main the one tested; without Forst tests
no Go tests run. The default globs match absolute paths, so a project below a
directory called `build` has no sources for the dev server. `replace ( ... )`
blocks are not recognised, and a replacement with a module version is taken for
a path.

**Type checker and lowering.** The merge of provider slots walks calls between
packages only, so some modules the specification accepts are rejected, and some
exports it forbids are accepted (`providers_spec`). Refinements survive some writes
through aliases, calls and addresses (`holes`, `refinement_stability`). Promoted
fields are searched at all depths at once, and what follows a value field in a
path is ignored. `Lenient` and `Stricter` are the jumps that are judged unlike
Go, although `ROADMAP.md:112` and `infer_goto.go:65` speak of Go's rules. Equal
blocks share a scope (`Misled`), an ensure in a function literal finds none
(`Unscoped`), and a mention before a narrowing may be lowered as if after it
(`SeesLater`).

**Formatter.** Parentheses and some types are not printed as they were read;
`Syntax` names the trees that survive. `forst fmt` may panic although
`whitespace.go:86` says otherwise.

Not modelled at all: interop with TypeScript packages, diagnostics and helpers,
the dispatch of command `forst`, and the wire format. `PROJECT.json` gives the
reasons, and for each part that is modelled in part, what is left out.
