------------------------------ MODULE CliCache ------------------------------
(***************************************************************************)
(* @forst/cli: processes that share the compiler cache (its lock file, the *)
(* installed binary and the extracted module), the choice of a compiler    *)
(* version, the test server a caller starts or attaches to, the hand-off   *)
(* of the invoke secret over a pipe, and when plugins are downloaded.      *)
(***************************************************************************)
EXTENDS Naturals, FiniteSets, Sequences, SequencesExt, FiniteSetsExt, Subject

CONSTANTS MaxInstallers      \* bound: processes that resolve the compiler
Installers == 1..MaxInstallers
(* The cache of one version.  dest is the binary's file: "plain" is not    *)
(* yet executable.  lock is 0 or the process that created the lock file.   *)
CacheStart ==
   [dest |-> "none", content |-> "none", lock |-> 0, old |-> FALSE, module |-> "none", stolen |-> FALSE, interrupted |-> FALSE,
    pc |-> [p \in Installers |-> "obtain"], buf |-> [p \in Installers |-> "none"], digest |-> [p \in Installers |-> FALSE]]
InCache == subject.part = "cli cache" /\ UNCHANGED subject
InstallerAt(p, pc) == InCache /\ state.pc[p] = pc
Jump(s, p, pc) == [s EXCEPT !.pc[p] = pc]
ObtainCachedCompilerBinary(p) ==
   InstallerAt(p, "obtain") /\ state' = Jump(state, p, IF state.dest # "none" THEN "module" ELSE "poll")
AcquireLockOrWait(p) ==
   /\ InstallerAt(p, "poll") /\ state' = Jump(state, p, IF state.dest # "none" THEN "module" ELSE "peek")
PeekLock(p) == \* an old lock file is removed; a fresh one is waited for, until the deadline
   /\ InstallerAt(p, "peek")
   /\ \/ state.lock = 0 /\ state' = Jump(state, p, "create")
      \/ state.lock # 0 /\ state.old /\ state' = Jump(state, p, "unlink")
      \/ state.lock # 0 /\ \E pc \in {"poll", "late"} : state' = Jump(state, p, pc)
LockWaitExpires(p) ==
   InstallerAt(p, "late") /\ state' = Jump(state, p, IF state.dest # "none" THEN "module" ELSE "failed")
UnlinkStaleLock(p) == \* whichever lock file is there by now
   /\ InstallerAt(p, "unlink")
   /\ state' = [Jump(state, p, "poll") EXCEPT !.lock = 0, !.old = FALSE, !.stolen = TRUE]
CreateLockShared(p) == \* mutant: an existing lock file is opened as well
   InstallerAt(p, "create") /\ state' = [Jump(state, p, "recheck") EXCEPT !.lock = p, !.old = FALSE]
CreateLock(p) ==
   /\ InstallerAt(p, "create")
   /\ \/ state.lock = 0 /\ state' = [Jump(state, p, "recheck") EXCEPT !.lock = p, !.old = FALSE]
      \/ state.lock # 0 /\ state' = Jump(state, p, "poll")
      \/ state' = Jump(state, p, "failed")   \* the directory cannot be written
DownloadCompilerBinaryForVersion(p) ==
   /\ InstallerAt(p, "recheck") /\ state' = Jump(state, p, IF state.dest # "none" THEN "release" ELSE "digest")
FetchReleaseAssetSha256Hex(p) ==
   /\ InstallerAt(p, "digest")
   /\ \/ subject.verify[p] # "off" /\ state' = [Jump(state, p, "fetch") EXCEPT !.digest[p] = TRUE]
      \/ subject.verify[p] # "strict" /\ state' = Jump(state, p, "fetch")
      \/ subject.verify[p] # "off" /\ state' = Jump(state, p, "release failed")
FetchBinary(p) ==
   /\ InstallerAt(p, "fetch")
   /\ \/ \E b \in {"intact", "damaged"} : state' = [Jump(state, p, "verify") EXCEPT !.buf[p] = b]
      \/ state' = Jump(state, p, "release failed")
VerifySha256(p) == \* without a digest nothing is compared
   /\ InstallerAt(p, "verify")
   /\ state' = Jump(state, p, IF state.digest[p] /\ state.buf[p] = "damaged" THEN "release failed" ELSE "rename")
WriteBinaryAtomically(p) == \* the part file, then the rename
   /\ InstallerAt(p, "rename")
   /\ \/ state' = [Jump(state, p, "chmod") EXCEPT !.dest = "plain", !.content = state.buf[p]]
      \/ state' = Jump(state, p, "release failed")
ChmodBinary(p) ==
   /\ InstallerAt(p, "chmod")
   /\ \/ state' = [Jump(state, p, "release") EXCEPT !.dest = "executable"]
      \/ state' = [Jump(state, p, "release failed") EXCEPT !.interrupted = TRUE]   \* the file stays
ReleaseLock(p) == \* unlinks the lock file, whoever created it
   /\ InCache /\ state.pc[p] \in {"release", "release failed"}
   /\ state' = [Jump(state, p, IF state.pc[p] = "release" THEN "module" ELSE "failed") EXCEPT !.lock = 0, !.old = FALSE]
EnsureCompilerModule(p) == \* no lock; ready means that cmd/forst exists
   InstallerAt(p, "module") /\ state' = Jump(state, p, IF state.module # "none" THEN "done" ELSE "fetch module")
FetchModule(p) ==
   /\ InstallerAt(p, "fetch module")
   /\ \/ state' = [Jump(state, p, "extract") EXCEPT !.module = "partial"]
      \/ state' = Jump(state, p, "failed")
ExtractModuleTarball(p) == \* straight into the directory others look at
   /\ InstallerAt(p, "extract")
   /\ \/ state' = [Jump(state, p, "done") EXCEPT !.module = "full"]
      \/ state' = [Jump(state, p, "failed") EXCEPT !.interrupted = TRUE]
InstallerCrashes(p) ==
   /\ InCache /\ ~state.interrupted /\ state.pc[p] \notin {"done", "failed", "dead"}
   /\ state' = [Jump(state, p, "dead") EXCEPT !.interrupted = TRUE]
LockAges == InCache /\ state.lock # 0 /\ ~state.old /\ state' = [state EXCEPT !.old = TRUE]
CacheNext ==
   \/ LockAges
   \/ \E p \in Installers :
         \/ ObtainCachedCompilerBinary(p) \/ AcquireLockOrWait(p) \/ PeekLock(p) \/ LockWaitExpires(p) \/ UnlinkStaleLock(p)
         \/ CreateLock(p) \/ FetchReleaseAssetSha256Hex(p) \/ FetchModule(p)
         \/ DownloadCompilerBinaryForVersion(p) \/ FetchBinary(p) \/ VerifySha256(p) \/ WriteBinaryAtomically(p)
         \/ ChmodBinary(p) \/ ReleaseLock(p) \/ EnsureCompilerModule(p) \/ ExtractModuleTarball(p) \/ InstallerCrashes(p)
(* The version.  A release is a number and whether it is a prerelease; the *)
(* list of releases coerces that away.  0 stands for an error.             *)
Versions == 1..3
VersionCases ==
   [part : {"cli version"}, explicit : {0, 2}, prefer : BOOLEAN, allow : BOOLEAN, bundled : Versions,
    disk : {0, 1, 3}, releases : SUBSET (Versions \X BOOLEAN), installed : SUBSET {1}]
FetchCompilerReleaseVersions(c) == SetToSortSeq({r[1] : r \in c.releases}, LAMBDA a, b : a > b)
FetchLatestWithDiskCache(c) == \* disk is a cache entry young enough
   CASE c.disk # 0 -> c.disk
     [] c.disk = 0 /\ c.releases # {} -> FetchCompilerReleaseVersions(c)[1]
     [] OTHER -> 0
MaxSemver(a, b) == IF a > b THEN a ELSE b
ResolveEffectiveCompilerVersion(c) ==
   CASE c.explicit # 0 -> c.explicit
     [] c.explicit = 0 /\ c.prefer /\ c.allow -> MaxSemver(c.bundled, FetchLatestWithDiskCache(c))
     [] OTHER -> c.bundled
Published(c, v) == <<v, FALSE>> \in c.releases
ResolveFallbackCompilerVersion(c, failed) ==
   LET vs == FetchCompilerReleaseVersions(c)
   IN CASE vs = <<>> -> 0
        [] vs # <<>> /\ failed > vs[1] -> vs[1]
        [] vs # <<>> /\ failed = vs[1] /\ Len(vs) >= 2 -> vs[2]
        [] OTHER -> 0
ResolveForstBinaryDetailed(c) ==
   LET v == ResolveEffectiveCompilerVersion(c)
       f == ResolveFallbackCompilerVersion(c, v)
   IN CASE v \in c.installed -> v
        [] v \notin c.installed /\ ~c.allow -> 0
        [] v \notin c.installed /\ c.allow /\ Published(c, v) -> v
        [] OTHER -> IF c.explicit = 0 /\ f # 0 /\ f # v /\ (f \in c.installed \/ Published(c, f)) THEN f ELSE 0
(* What the processes that start a server or connect to one do with the    *)
(* environment and the ready file ("none", with a URL, with a socket only).*)
AttachTarget(baseUrl, skip, ready, env) ==
   CASE baseUrl \/ ready = "url" \/ env -> "attach"
     [] ~baseUrl /\ ready # "url" /\ ~env /\ skip -> "failed"
     [] OTHER -> "spawn"
ReadyKinds == {"none", "url", "socket"}
ConnectCases == [part : {"cli connect"}, ready : ReadyKinds, base : BOOLEAN, invokeUrl : BOOLEAN, devUrl : BOOLEAN]
\* FORST_INVOKE_URL, FORST_BASE_URL and FORST_DEV_URL afterwards; spawning is off from here on.
Set(given, url) == IF given THEN url ELSE "none"
PrepareInvokeConnect(c) ==
   CASE c.ready = "url" -> <<Set(c.invokeUrl, "invoke"), "ready", Set(c.devUrl, "dev")>>
     [] c.ready = "socket" -> <<"none", "none", "none">>
     [] OTHER -> <<Set(c.invokeUrl, "invoke"), IF c.base THEN "base" ELSE "default", Set(c.devUrl, "dev")>>
AttachUrl(ready, env) == \* the ready file, then the first of the three that is set
   LET named == SelectSeq(env, LAMBDA u : u # "none")
   IN CASE ready = "url" -> "ready"
        [] ready # "url" /\ named # <<>> -> Head(named)
        [] OTHER -> "none"
SpawnEnvCases == [part : {"cli spawn"}, override : BOOLEAN, gomod : BOOLEAN, module : BOOLEAN, allow : BOOLEAN,
                  wants : BOOLEAN, plugins : BOOLEAN, answer : {"archive", "missing", "error", "empty archive"}]
EnsurePluginsForVersion(c) == \* required: anything but an archive with a plugin is an error
   IF c.plugins THEN TRUE ELSE c.answer = "archive"
BuildForstSpawnEnv(c) ==
   LET downloads == ~c.override /\ c.allow /\ c.wants
   IN [error |-> downloads /\ ~EnsurePluginsForVersion(c),
       gomod |-> c.gomod \/ (~c.override /\ c.module),
       path |-> c.plugins \/ (downloads /\ EnsurePluginsForVersion(c))]
(* The test server.  other is another server of the same root: it may run  *)
(* already or start at any time, and writes the same ready file.           *)
TestServerStart ==
   [pc |-> "resolve", other |-> subject.other, ready |-> IF subject.ready = "none" THEN "none" ELSE "other",
    rival |-> subject.ready # "none", child |-> "none", attempts |-> 0, served |-> "none", auth |-> FALSE,
    again |-> FALSE]
InTest == subject.part = "test server" /\ UNCHANGED subject
TestAt(pc) == InTest /\ state.pc = pc
ResolveAttachTarget ==
   /\ TestAt("resolve")
   /\ state' = [state EXCEPT !.pc = AttachTarget(subject.baseUrl, subject.skip,
                                                 IF state.ready = "other" THEN subject.kind ELSE "none", subject.env)]
WaitForHealth ==
   /\ TestAt("attach")
   /\ \/ state.other /\ state' = [state EXCEPT !.pc = "attached", !.served = "other"]
      \/ state' = [state EXCEPT !.pc = "failed"]
SpawnServer ==
   TestAt("spawn") /\ state' = [state EXCEPT !.pc = "wait", !.child = "starting", !.attempts = @ + 1]
ChildBinds == InTest /\ state.child = "starting" /\ state' = [state EXCEPT !.child = "serving", !.ready = "own"]
ChildBindFails == InTest /\ state.child = "starting" /\ state' = [state EXCEPT !.child = "bind failure"]
ChildFails == InTest /\ state.child \in {"starting", "serving"} /\ state' = [state EXCEPT !.child = "exited"]
OtherStarts ==
   InTest /\ ~state.other /\ ~state.rival /\ state' = [state EXCEPT !.other = TRUE, !.rival = TRUE, !.ready = "other"]
OtherStops == InTest /\ state.other /\ state' = [state EXCEPT !.other = FALSE]
Running(c) == c \in {"starting", "serving"}
WaitForInvokeReady == \* any server the ready file names will do, as long as the child has not exited
   /\ TestAt("wait")
   /\ \/ ~Running(state.child) /\ state' = [state EXCEPT !.pc = "stop failed"]
      \/ state.child = "serving" /\ state.ready = "own" /\ state' = [state EXCEPT !.pc = "handoff", !.served = "own"]
      \/ /\ Running(state.child) /\ state.ready = "other" /\ state.other
         /\ state' = [state EXCEPT !.pc = "handoff", !.served = "other"]
      \/ Running(state.child) /\ state' = [state EXCEPT !.pc = "stop failed"]   \* timed out
AwaitAuthHandoff == \* of the child; a pipe that closes means no secret
   /\ TestAt("handoff") /\ state.child # "starting"
   /\ \E auth \in BOOLEAN : state' = [state EXCEPT !.pc = "ready", !.auth = auth]
StopChild(c) == IF Running(c) THEN "exited" ELSE c
StopOnlyForRetry == \* mutant: the child of an attempt that ends the start is not stopped
   /\ TestAt("stop failed")
   /\ state' = [state EXCEPT !.pc = IF state.child = "bind failure" /\ state.attempts = 1 /\ ~subject.port THEN "spawn"
                                    ELSE "failed"]
StopFailedChild == \* one more attempt after a bind failure, unless the caller chose the port
   /\ TestAt("stop failed")
   /\ state' = [state EXCEPT !.child = StopChild(@),
                             !.pc = IF state.child = "bind failure" /\ state.attempts = 1 /\ ~subject.port THEN "spawn"
                                    ELSE "failed"]
StopHandle == \* stop() forgets the secret and signals the child; that of an attached server does nothing
   TestAt("ready") /\ state' = [state EXCEPT !.auth = FALSE, !.pc = "stopping"]
StopHandleReturns == \* the child has exited by itself, or after SIGTERM or SIGKILL
   TestAt("stopping") /\ state' = [state EXCEPT !.child = StopChild(@), !.pc = "stopped"]
StopAgain == \* any further stop() returns at once, also while the first one waits
   InTest /\ state.pc \in {"stopping", "stopped"} /\ state' = [state EXCEPT !.again = TRUE]
StartForstInvokeServer ==
   \/ ResolveAttachTarget \/ WaitForHealth \/ SpawnServer \/ WaitForInvokeReady \/ AwaitAuthHandoff
   \/ StopFailedChild \/ StopHandle \/ StopHandleReturns \/ StopAgain
TestServerNext ==
   StartForstInvokeServer \/ ChildBinds \/ ChildBindFails \/ ChildFails \/ OtherStarts \/ OtherStops
TestServerCases == [part : {"test server"}, other : BOOLEAN, ready : {"none", "left"}, kind : {"url", "socket"},
                    baseUrl : BOOLEAN, env : BOOLEAN, skip : BOOLEAN, port : BOOLEAN]
(* The hand-off pipe.  "g" and "h" are lines with a secret, "x" one        *)
(* without, each of one character; cuts are the chunks' ends.              *)
HandoffCases ==
   UNION {[part : {"cli handoff"}, text : [1..n -> {"g", "h", "x", "nl"}], cuts : SUBSET (1..n)] : n \in 1..4}
ChunksOf(c) ==
   LET ends == SetToSortSeq(c.cuts \cup {Len(c.text)}, LAMBDA a, b : a < b)
   IN [i \in DOMAIN ends |-> SubSeq(c.text, IF i = 1 THEN 1 ELSE ends[i - 1] + 1, ends[i])]
ParseHandoffLine(line) == IF Len(line) = 1 /\ line[1] \in {"g", "h"} THEN line[1] ELSE "none"
Newline(s) == SelectInSeq(s, LAMBDA ch : ch = "nl")
RECURSIVE DrainLines(_, _)
DrainLines(buffer, auth) ==
   IF Newline(buffer) = 0 THEN [buffer |-> buffer, auth |-> auth]
   ELSE LET got == ParseHandoffLine(SubSeq(buffer, 1, Newline(buffer) - 1))
        IN DrainLines(SubSeq(buffer, Newline(buffer) + 1, Len(buffer)), IF got = "none" THEN auth ELSE got)
ConsumeEachChunk(chunks) == \* mutant: what is left of a chunk is dropped
   FoldLeft(LAMBDA s, chunk : DrainLines(chunk, s.auth), [buffer |-> <<>>, auth |-> "none"], chunks).auth
ConsumeHostInvokeAuthStream(chunks) ==
   FoldLeft(LAMBDA s, chunk : DrainLines(s.buffer \o chunk, s.auth), [buffer |-> <<>>, auth |-> "none"], chunks).auth
ReadFirstLine(chunks) ==
   LET buffered == [i \in DOMAIN chunks |-> FlattenSeq(SubSeq(chunks, 1, i))]
       hit == SelectInSeq(buffered, LAMBDA b : Newline(b) # 0)
   IN IF hit # 0 THEN SubSeq(buffered[hit], 1, Newline(buffered[hit]) - 1) ELSE buffered[Len(chunks)]
(* The arguments that make spawn download plugins.                         *)
ArgWords == {"generate", "--config", "--config=", "--list", "--dump-semantic", "-flag", "word"}
ArgvCases == UNION {[part : {"cli argv"}, argv : [1..n -> ArgWords]] : n \in 0..4}
RECURSIVE ParseGenerateFrom(_, _, _)
ParseGenerateFrom(argv, i, r) ==
   IF i > Len(argv) THEN r
   ELSE CASE argv[i] = "--dump-semantic" -> ParseGenerateFrom(argv, i + 1, [r EXCEPT !.dump = TRUE])
          [] argv[i] = "--list" -> ParseGenerateFrom(argv, i + 1, [r EXCEPT !.list = TRUE])
          [] argv[i] = "--config" -> ParseGenerateFrom(argv, i + 2, [r EXCEPT !.config = @ \/ i < Len(argv)])
          [] argv[i] = "--config=" -> ParseGenerateFrom(argv, i + 1, [r EXCEPT !.config = TRUE])
          [] argv[i] = "-flag" -> ParseGenerateFrom(argv, i + 1, r)
          [] OTHER -> ParseGenerateFrom(argv, i + 1, [r EXCEPT !.target = @ + 1])
NotGenerate == [dump |-> FALSE, list |-> FALSE, config |-> FALSE, target |-> 0]
ParseGenerateArgv(argv) ==
   IF argv = <<>> \/ Head(argv) # "generate" THEN NotGenerate ELSE ParseGenerateFrom(argv, 2, NotGenerate)
ShouldDownloadPlugins(argv) == \* with an official plugin in the configuration found
   LET g == ParseGenerateArgv(argv) IN g.target > 0 /\ ~g.dump /\ ~g.list
CliInit ==
   \/ subject \in [part : {"cli cache"}, verify : [Installers -> {"off", "soft", "strict"}]] /\ state = CacheStart
   \/ subject \in TestServerCases /\ state = TestServerStart
   \/ subject \in VersionCases \cup HandoffCases \cup ArgvCases \cup ConnectCases \cup SpawnEnvCases /\ Stateless
CliNext == CacheNext \/ TestServerNext
-----------------------------------------------------------------------------
Downloading == {"recheck", "digest", "fetch", "verify", "rename", "chmod", "release", "release failed"}
\* (resolve.ts) As long as no lock file was removed as stale one process at a
\* time downloads.  Also when two do, or one dies, a process with strict
\* verification installs only what matches the digest, and if all processes are
\* strict nothing else is ever installed (a strict process takes a binary that
\* another installed without comparing it).
\* A process that is done leaves a binary and a module; and unless a process
\* died or a step failed half way, an installed binary can be executed whenever
\* nobody is between the rename and the chmod, and the module is complete
\* whenever nobody is extracting.
InstallSound ==
   subject.part = "cli cache" =>
      /\ ~state.stolen => Cardinality({p \in Installers : state.pc[p] \in Downloading}) <= 1
      /\ \A p \in Installers :
            subject.verify[p] = "strict" /\ state.pc[p] \in {"rename", "chmod"} => state.buf[p] # "damaged"
      /\ (\A p \in Installers : subject.verify[p] = "strict") => state.content # "damaged"
      /\ \A p \in Installers : state.pc[p] = "done" => state.dest # "none" /\ state.module # "none"
      /\ ~state.interrupted /\ (\A p \in Installers : state.pc[p] # "chmod") => state.dest # "plain"
      /\ ~state.interrupted /\ (\A p \in Installers : state.pc[p] # "extract") => state.module # "partial"
\* (resolve.ts) A version asked for is the one used or an error; without the
\* network only an installed one is; a version below the bundled one is used
\* only if the bundled one was not released; and a fallback is a lower version.
VersionSound ==
   subject.part = "cli version" =>
      LET got == ResolveForstBinaryDetailed(subject)
      IN got # 0 => /\ got \in subject.installed \/ (subject.allow /\ Published(subject, got))
                    /\ subject.explicit # 0 => got = subject.explicit
                    /\ subject.explicit = 0 /\ got < subject.bundled => ~Published(subject, subject.bundled)
                    /\ got <= ResolveEffectiveCompilerVersion(subject)
\* (test-server.ts) A start that fails and the stop() that was called first leave
\* no child running when they return; the secret is gone as soon as stop() is
\* called; the child is spawned again only once; attaching spawns none; and the server
\* behind a handle is not the child spawned only if another server wrote the
\* ready file or its address was given.
TestServerSound ==
   subject.part = "test server" =>
      /\ state.pc \in {"failed", "stopped"} => ~Running(state.child)
      /\ state.pc \in {"failed", "stopping", "stopped"} \/ state.again => ~state.auth
      /\ state.attempts <= IF subject.port THEN 1 ELSE 2
      /\ state.pc = "attached" => state.child = "none"
      /\ state.served = "other" => state.rival \/ subject.baseUrl \/ subject.env
      /\ state.pc = "ready" /\ ~state.rival => state.served = "own"
\* (host-invoke-auth.ts) The secret kept is that of the last whole line that
\* has one, and the first line is the same, wherever the chunks end.
HandoffSound ==
   subject.part = "cli handoff" =>
      /\ ConsumeHostInvokeAuthStream(ChunksOf(subject)) = ConsumeHostInvokeAuthStream(<<subject.text>>)
      /\ ReadFirstLine(ChunksOf(subject)) = ReadFirstLine(<<subject.text>>)
\* (ftconfig-plugins.ts) The loop over the arguments means: a word is the value
\* of --config iff an odd number of --config stand right in front of it, and
\* every other word counts wherever it stands.
ArgvSound ==
   subject.part = "cli argv" =>
      LET argv == subject.argv
          Taken(i) == \E k \in 2..(i - 1) : /\ (i - k) % 2 = 1 /\ (k = 2 \/ argv[k - 1] # "--config")
                                           /\ \A j \in k..(i - 1) : argv[j] = "--config"
          Given(w) == \E i \in 2..Len(argv) : argv[i] = w /\ ~Taken(i)
      IN ShouldDownloadPlugins(argv) <=>
            /\ argv # <<>> /\ argv[1] = "generate"
            /\ Given("word") \/ Given("generate")
            /\ ~Given("--list") /\ ~Given("--dump-semantic")
\* (host-invoke-auth.ts, spawn-env.ts) After prepareInvokeConnect a start never
\* spawns, and fails only if the ready file has a socket and no URL; it attaches
\* to what the ready file names, if it does, and without FORST_DEV_URL to the
\* default address iff nothing names another.  (FORST_DEV_URL alone is overruled
\* by the default address, although the README lists it; that is not claimed.)
\* And forst is spawned for a generator that needs plugins with them on its PATH.
ConnectSound ==
   /\ subject.part = "cli connect" =>
         LET env == PrepareInvokeConnect(subject)
             url == AttachUrl(subject.ready, env)
         IN /\ AttachTarget(FALSE, TRUE, subject.ready, url # "none")
                  = IF subject.ready = "socket" THEN "failed" ELSE "attach"
            /\ ~subject.devUrl => (url = "default" <=> subject.ready = "none" /\ ~subject.base /\ ~subject.invokeUrl)
            /\ url \in {"ready", "none"} \/ subject.ready = "none"
   /\ subject.part = "cli spawn" =>
         LET r == BuildForstSpawnEnv(subject)
         IN subject.wants /\ subject.allow /\ ~subject.override /\ ~r.error => r.path
=============================================================================
