------------------------------ MODULE Linking ------------------------------
(***************************************************************************)
(* How a generated program is linked to the forst runtime module: where a  *)
(* project's Go module is (goload), what its go.mod says about forst, and  *)
(* the go.mod and go.work that a sandbox gets (gowork).  A directory is    *)
(* the sequence of the names on its path.  A project t is the record of    *)
(*   gomod       the directories that hold a go.mod                        *)
(*   config      the directories that hold a ftconfig.json                 *)
(*   compilers   the directories of a forst compiler module                *)
(*   text        the lines of the user's go.mod, each the sequence of its  *)
(*               words                                                     *)
(*   env, exe, wd  FORST_GOMOD_ROOT, the compiler binary's directory and   *)
(*               the working directory.                                    *)
(***************************************************************************)
EXTENDS Naturals, Sequences, FiniteSets
LOCAL INSTANCE SequencesExt

NoDir == <<"">>
ForstGoModDir == ".forst-gomod"
Boundary == <<"w", "app">>
Sandbox == Boundary \o <<".forst", "run", "dev">>
WorkDir == Boundary \o <<".forst">>
OverlayDir(m) == WorkDir \o <<"overlay", m>>

Upwards(d) == {SubSeq(d, 1, n) : n \in 0 .. Len(d)}
Nearest(dirs) == CHOOSE d \in dirs : \A e \in dirs : Len(e) <= Len(d)
Parent(d) == SubSeq(d, 1, Len(d) - 1)
Under(d, root) == IsPrefix(root, d)

(***************************** the Go module ******************************)
DirHasGoMod(t, d) == d \in t.gomod
moduleRootInDir(t, d) ==
    CASE d \in t.gomod -> d
      [] d \notin t.gomod /\ Append(d, ForstGoModDir) \in t.gomod -> Append(d, ForstGoModDir)
      [] OTHER -> NoDir
FindModuleRoot(t, start) ==
    LET found == {d \in Upwards(start) : moduleRootInDir(t, d) # NoDir}
    IN  IF found = {} THEN start ELSE moduleRootInDir(t, Nearest(found))
IsForstGoModShim(d) == d # <<>> /\ Last(d) = ForstGoModDir
ModuleRootHasGoMod(t, start) == DirHasGoMod(t, FindModuleRoot(t, start))
GoModReplaceBase(d) == IF IsForstGoModShim(d) THEN Parent(d) ELSE d
ScanRootForPackageRoot(t, root) ==
    LET mod == FindModuleRoot(t, root) IN IF mod # root /\ Under(root, mod) THEN mod ELSE root
ForstImportPathRoot(root, mod) == IF mod = Append(root, ForstGoModDir) THEN root ELSE mod
ResolveProjectLayout(t, root) ==
    LET mod == FindModuleRoot(t, root)
    IN  [Boundary |-> root, ScanRoot |-> ScanRootForPackageRoot(t, root), GoModRoot |-> mod,
         ReplaceBase |-> GoModReplaceBase(mod), ImportPathRoot |-> ForstImportPathRoot(root, mod)]
\* ModulePath: the module's name, nothing without a go.mod.
ModulePath(t, d) ==
    CASE d \notin t.gomod -> "" [] d \in t.gomod /\ d \in t.compilers -> "forst" [] OTHER -> "example.com/user"

(************************* forst in the user's go.mod *********************)
\* filepath.Join and filepath.Abs of a replace target.
Target(base, word) ==
    CASE word = "../rt" -> Append(Parent(base), "rt")
      [] word = "./rt" -> Append(base, "rt")
      [] word = "/opt/rt" -> <<"opt", "rt">>
      [] OTHER -> Append(base, word)
Index(words, w) == IF \E i \in DOMAIN words : words[i] = w
                   THEN CHOOSE i \in DOMAIN words : words[i] = w /\ \A j \in 1 .. i - 1 : words[j] # w ELSE 0
parseRequireForst(words) ==
    CASE Len(words) >= 2 /\ words[1] = "forst" -> words[2]
      [] Len(words) >= 3 /\ words[1] = "require" /\ words[2] = "forst" -> words[3]
      [] OTHER -> ""
parseReplaceForst(words, base) ==
    LET arrow == Index(words, "=>")
        named == Len(words) >= 2 /\ words[1] = "replace" /\ arrow >= 3 /\ words[2] = "forst"
    IN  IF named /\ arrow < Len(words) THEN Target(base, words[arrow + 1]) ELSE NoDir
IsComment(words) == words = <<>> \/ words[1] = "//"
\* Mutant: nothing closes a require block.
NeverCloses(link, words, base) ==
    IF words = <<"require", "(">> THEN [link EXCEPT !.inRequire = TRUE]
    ELSE IF parseRequireForst(words) # "" /\ ~IsComment(words) THEN [link EXCEPT !.version = parseRequireForst(words)]
    ELSE IF ~link.inRequire /\ parseReplaceForst(words, base) # NoDir
    THEN [link EXCEPT !.dir = parseReplaceForst(words, base)] ELSE link
ReadLine(link, words, base) ==
    LET version == parseRequireForst(words)
        dir == parseReplaceForst(words, base)
    IN  CASE IsComment(words) -> link
          [] ~IsComment(words) /\ words = <<"require", "(">> -> [link EXCEPT !.inRequire = TRUE]
          [] link.inRequire /\ words = <<")">> -> [link EXCEPT !.inRequire = FALSE]
          [] version # "" -> [link EXCEPT !.version = version]
          [] ~link.inRequire /\ version = "" /\ dir # NoDir -> [link EXCEPT !.dir = dir]
          [] OTHER -> link
NoLink == [version |-> "", dir |-> NoDir]
ForstModuleLinkFromGoMod(t, mod) ==
    LET start == [version |-> "", dir |-> NoDir, inRequire |-> FALSE]
        read == FoldLeft(LAMBDA link, words : ReadLine(link, words, GoModReplaceBase(mod)), start, t.text)
    IN  IF mod \in t.gomod THEN [version |-> read.version, dir |-> read.dir] ELSE NoLink

(************************** the forst compiler module *********************)
IsForstCompilerModule(t, d) == d \in t.compilers
findForstCompilerModuleFrom(t, start) ==
    LET here(d) == IF IsForstCompilerModule(t, d) THEN d ELSE Append(d, "forst")
        found == {d \in Upwards(start) : IsForstCompilerModule(t, here(d))}
    IN  IF found = {} THEN NoDir ELSE here(Nearest(found))
forstCompilerModuleAdjacentToExecutable(t, exe) ==
    LET own == Append(exe, "module")
        above == Append(Parent(exe), "module")
    IN  CASE IsForstCompilerModule(t, own) -> own
          [] ~IsForstCompilerModule(t, own) /\ IsForstCompilerModule(t, above) -> above
          [] OTHER -> NoDir
ForstCompilerModuleRoot(t) ==
    LET named == IF t.env # NoDir /\ IsForstCompilerModule(t, t.env) THEN t.env ELSE NoDir
        tried == <<named, findForstCompilerModuleFrom(t, t.exe),
                   forstCompilerModuleAdjacentToExecutable(t, t.exe), findForstCompilerModuleFrom(t, t.wd)>>
        found == SelectSeq(tried, LAMBDA d : d # NoDir)
    IN  IF found = <<>> THEN NoDir ELSE Head(found)

(***************************** the link plan ******************************)
validForstRuntimeReplaceDir(t, d) == IsForstCompilerModule(t, d) \/ DirHasGoMod(t, d)
\* The directory or the version a sandbox takes forst from; NoLink is the error.
ResolveForstRuntimeLink(t, root) ==
    LET user == ForstModuleLinkFromGoMod(t, FindModuleRoot(t, root))
        own == ForstCompilerModuleRoot(t)
    IN  CASE user.dir # NoDir /\ validForstRuntimeReplaceDir(t, user.dir) -> [version |-> "", dir |-> user.dir]
          [] user.dir = NoDir /\ user.version # "" -> [version |-> user.version, dir |-> NoDir]
          [] OTHER -> [version |-> "", dir |-> own]
\* A sandbox is under .forst/run/, so isRunSandboxSession holds of it.
isRunSandboxSession(session) == \E i \in 1 .. Len(session) - 2 : session[i] = ".forst" /\ session[i + 1] = "run"
shouldUseWorkspaceMode(t, root, session, user, link) ==
    /\ link.dir # NoDir
    /\ ~IsForstGoModShim(user)
    /\ isRunSandboxSession(session)
    /\ root \notin t.config
    /\ ModuleRootHasGoMod(t, root) \/ DirHasGoMod(t, user)
PlanForRun(t, root, session, needsCompiler) ==
    LET user == FindModuleRoot(t, root)
        link == ResolveForstRuntimeLink(t, root)
    IN  CASE ~needsCompiler -> [mode |-> "none", linked |-> FALSE]
          [] needsCompiler /\ link = NoLink -> [mode |-> "error", linked |-> FALSE]
          [] needsCompiler /\ link # NoLink /\ link.dir = user -> [mode |-> "none", linked |-> TRUE]
          [] OTHER -> [mode |-> IF shouldUseWorkspaceMode(t, root, session, user, link)
                                THEN "workspace" ELSE "replace", linked |-> TRUE]
WorkspaceUseDirs(session, link) == {session, link.dir}
\* GOWORK of a child go command; a plan that failed is the zero plan, whose mode is LinkNone.
\* Mutant: the child always runs without a workspace.
NoWorkspace(plan) == "off"
ChildEnv(plan) == IF plan.mode = "workspace" THEN "go.work" ELSE "off"

(*********************** paths in go.mod and go.work **********************)
\* goModReplacePath: absolute, or up levels and then down; Dotted is the "./" that only AppendGoModReplaces adds.
Common(a, b) == Cardinality({k \in 1 .. Len(a) : k <= Len(b) /\ SubSeq(a, 1, k) = SubSeq(b, 1, k)})
goModReplaceNeedsAbsolute(modDir, target) ==
    \/ Len(modDir) > 1 /\ modDir[1] = "private" /\ ~(Len(target) > 1 /\ target[1] = "private")
    \/ modDir # <<>> /\ target # <<>> /\ modDir[1] # target[1]
goModReplacePath(modDir, target) ==
    LET k == Common(modDir, target)
    IN  IF Len(modDir) > k /\ goModReplaceNeedsAbsolute(modDir, target)
        THEN [abs |-> TRUE, up |-> 0, down |-> target, dotted |-> FALSE]
        ELSE [abs |-> FALSE, up |-> Len(modDir) - k, down |-> SubSeq(target, k + 1, Len(target)), dotted |-> FALSE]
Dotted(p) == IF ~p.abs /\ p.up = 0 /\ p.down # <<>> THEN [p EXCEPT !.dotted = TRUE] ELSE p
\* What Go takes a written path to be, and whether a replace directive may hold it.
Resolves(modDir, p) == IF p.abs THEN p.down ELSE SubSeq(modDir, 1, Len(modDir) - p.up) \o p.down
IsDirectoryPath(p) == p.abs \/ p.up > 0 \/ p.dotted \/ p.down = <<>>

NoMod == [replaces |-> {}, requires |-> {}, absent |-> TRUE]
WriteRunGoMod(link, userPath, userDir, workspace) ==
    [replaces |-> (IF link.dir # NoDir /\ ~workspace
                   THEN {<<"forst", goModReplacePath(Sandbox, link.dir)>>} ELSE {})
                  \cup (IF userPath # "" THEN {<<userPath, goModReplacePath(Sandbox, userDir)>>} ELSE {}),
     requires |-> {<<"forst", IF link.dir = NoDir THEN link.version ELSE "v0.0.0">>}
                  \cup (IF userPath # "" THEN {<<userPath, "v0.0.0">>} ELSE {}),
     absent |-> FALSE]
writeMinimalRunGoMod == [replaces |-> {}, requires |-> {}, absent |-> FALSE]
AppendGoModReplaces(mod, overlays) ==
    LET had == {r[1] : r \in mod.replaces}
    IN  [mod EXCEPT !.replaces = @ \cup {<<m, Dotted(goModReplacePath(Sandbox, OverlayDir(m)))>> : m \in overlays \ had}]
NoWork == [uses |-> {}, replaces |-> {}]
WriteGoWork(dirs, overlays) ==
    [uses |-> {goModReplacePath(WorkDir, d) : d \in dirs},
     replaces |-> {<<m, goModReplacePath(WorkDir, OverlayDir(m))>> : m \in overlays}]

(***************************** what is checked ****************************)
\* Go's own reading of the lines about forst: a block belongs to the directive that opens it.
GoLine(link, words) ==
    LET inBlock == link.block # "" /\ words # <<")">>
        full == IF inBlock THEN <<link.block>> \o words ELSE words
    IN  CASE IsComment(words) -> link
          [] words = <<")">> -> [link EXCEPT !.block = ""]
          [] Len(words) = 2 /\ words[2] = "(" -> [link EXCEPT !.block = words[1]]
          [] full[1] = "require" /\ full[2] = "forst" -> [link EXCEPT !.version = full[3]]
          [] full[1] = "replace" /\ full[2] = "forst" -> [link EXCEPT !.target = SubSeq(full, Index(full, "=>") + 1, Len(full))]
          [] OTHER -> link
GoReading(text) == FoldLeft(GoLine, [version |-> "", target |-> <<>>, block |-> ""], text)
ReplaceBlock(t) ==
    \E i, j \in DOMAIN t.text : i < j /\ t.text[i] = <<"replace", "(">> /\ t.text[j][1] = "forst" /\ Index(t.text[j], "=>") > 0
ReplacedByModule(t) == Len(GoReading(t.text).target) > 1
\* A .forst-gomod above the boundary: its module's import paths start in the shim itself.
ShimAbove(t) == LET mod == FindModuleRoot(t, Boundary) IN IsForstGoModShim(mod) /\ Parent(mod) # Boundary

\* goload's reading of a go.mod is Go's, except that a replace block is not seen as one and a replacement by
\* another module is taken for a directory (ForstModuleLinkFromGoMod).
LinkAsGoReadsIt(t) ==
    LET mod == FindModuleRoot(t, Boundary)
        go == GoReading(t.text)
    IN  mod \in t.gomod /\ ~ReplaceBlock(t) /\ ~ReplacedByModule(t) =>
            ForstModuleLinkFromGoMod(t, mod) =
                [version |-> go.version, dir |-> IF go.target = <<>> THEN NoDir ELSE Target(GoModReplaceBase(mod), go.target[1])]

\* The module found is found again from itself, as LocatePackageDirs, Discover and the checker's workspace do,
\* and every directory that is walked for sources has an import path below the module's.
LayoutStable(t) ==
    LET mod == FindModuleRoot(t, Boundary)
        l == ResolveProjectLayout(t, Boundary)
    IN  /\ FindModuleRoot(t, mod) = mod
        /\ ~ShimAbove(t) => Under(l.ScanRoot, l.ImportPathRoot) /\ Under(Boundary, l.ScanRoot)

\* The module forst comes from, as Go resolves what a sandbox's go.mod and go.work say.
Providers(mod, work, gowork) ==
    {Resolves(Sandbox, r[2]) : r \in {r \in mod.replaces : r[1] = "forst"}}
    \cup IF gowork = "go.work" THEN {Resolves(WorkDir, u) : u \in work.uses} \ {Sandbox} ELSE {}
\* What a project says a sandbox with companions is linked to, and the files it gets (createTempOutputFiles).
Says(t) ==
    LET user == FindModuleRoot(t, Boundary)
    IN  [link |-> ResolveForstRuntimeLink(t, Boundary), mode |-> PlanForRun(t, Boundary, Sandbox, TRUE).mode,
         userDir |-> user, userPath |-> IF IsForstGoModShim(user) THEN "" ELSE ModulePath(t, user)]
SandboxMod(says, overlays) ==
    AppendGoModReplaces(WriteRunGoMod(says.link, says.userPath, says.userDir, says.mode = "workspace"), overlays)
SandboxWork(says, overlays) == WriteGoWork(WorkspaceUseDirs(Sandbox, says.link), overlays)

\* A sandbox that could be planned takes forst from one place, the directory the project's go.mod or the
\* compiler's installation names or else a required version, and every path written for it leads where it
\* should.  Only in go.work are overlays written as paths that a replace may not hold.
LinkedOnce(t) ==
    \A says \in {Says(t)} : says.mode # "error" =>
        LET mod == SandboxMod(says, {"dep"})
            work == IF says.mode = "workspace" THEN SandboxWork(says, {"dep"}) ELSE NoWork
            dirs == Providers(mod, work, ChildEnv(says))
            link == says.link
        IN  /\ IF link.dir # NoDir THEN dirs = {link.dir} ELSE dirs = {} /\ <<"forst", link.version>> \in mod.requires
            /\ \A r \in mod.replaces : IsDirectoryPath(r[2])
            /\ \A r \in mod.replaces \cup work.replaces : r[1] = "dep" =>
                   Resolves(IF r \in mod.replaces THEN Sandbox ELSE WorkDir, r[2]) = OverlayDir("dep")

LinkingSound(t) == LinkAsGoReadsIt(t) /\ LayoutStable(t) /\ LinkedOnce(t)

(******************************** projects ********************************)
Requires == {<<>>, <<<<"require", "forst", "v1">>>>, <<<<"require", "(">>, <<"other", "v2">>, <<"forst", "v1">>, <<")">>>>,
             <<<<"//", "require", "forst", "v1">>>>}
Replaces == {<<>>, <<<<"replace", "forst", "=>", "../rt">>>>, <<<<"replace", "forst", "v1", "=>", "/opt/rt">>>>,
             <<<<"replace", "forst", "=>", "./rt">>>>, <<<<"replace", "forst", "=>", "fork", "v3">>>>,
             <<<<"replace", "other", "=>", "../rt">>>>,
             <<<<"replace", "(">>, <<"forst", "=>", "../rt">>, <<")">>>>}
Modules == {{}, {Boundary}, {Append(Boundary, ForstGoModDir)}, {Parent(Boundary)}, {Append(Parent(Boundary), ForstGoModDir)},
            {Boundary, Parent(Boundary)}, {Boundary, Append(Boundary, ForstGoModDir)}}
Runtimes == {{}, {<<"w", "rt">>}, {<<"opt", "rt">>}, {<<"opt", "bin", "module">>}, {<<"w", "forst">>}, {Boundary}}
\* A module does not depend on itself: the compiler's own go.mod says nothing about forst.
LinkingInputs ==
    {[gomod |-> m \cup IF Boundary \in c THEN {Boundary} ELSE {}, config |-> k, compilers |-> c,
      text |-> IF Boundary \in c THEN <<>> ELSE a \o b, env |-> e, exe |-> <<"opt", "bin">>, wd |-> Boundary] :
        m \in Modules, k \in {{}, {Boundary}}, c \in Runtimes, a \in Requires, b \in Replaces, e \in {NoDir, <<"w", "rt">>}}
=============================================================================
