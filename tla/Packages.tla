------------------------------ MODULE Packages ------------------------------
(***************************************************************************)
(* Which Forst packages a project has and how they are reached: the walks  *)
(* that find sources, the layout check and the import paths (modulecheck,  *)
(* forstpkg), the files of one compile, the Forst packages of other        *)
(* modules and their overlays (forstdep, depoverlay), and the modules that *)
(* `forst test` builds.  A directory and an import path are sequences of   *)
(* names.  A project p is the record of                                    *)
(*   ft       its .ft files: directory, package, whether the file has the  *)
(*            package's name, is a *_test.ft, parses, what it imports and  *)
(*            whether it declares a public function                        *)
(*   go       its .go files: directory and whether it is a *_test.go       *)
(*   gomod, config  nested directories with a go.mod or a ftconfig.json    *)
(*   root, entry    -root and the entry file                               *)
(*   modules  path and directory of the modules `go list -m all` names     *)
(*   listed   whether the go tool answers                                  *)
(*   only     the directories given to `forst test`, none for all of them  *)
(*   above    the names of the directories the project lies in.            *)
(***************************************************************************)
EXTENDS Naturals, Sequences, FiniteSets
LOCAL INSTANCE SequencesExt

Module == <<"w">>
OwnPath == <<"m">>
Own == [path |-> OwnPath, dir |-> Module]
DirsOf(files) == {f.dir : f \in files}
PkgsOf(files) == {f.pkg : f \in files}
Rest(d, root) == SubSeq(d, Len(root) + 1, Len(d))

(********************************* walks **********************************)
\* A walk from root that does not enter directories of these names nor, where it looks, a nested project.
Walked(p, root, names, nested, d) ==
    /\ IsPrefix(root, d)
    /\ \A k \in Len(root) + 1 .. Len(d) :
           d[k] \notin names /\ ~(nested /\ SubSeq(d, 1, k) \in p.gomod \cup p.config)
\* Mutant: a nested project is walked into.
IntoNested(p, root) == {f \in p.ft : Walked(p, root, {".git", "vendor", "node_modules"}, FALSE, f.dir)}
findForstFiles(p, root) ==
    {f \in p.ft : Walked(p, root, {".git", "vendor", "node_modules"}, TRUE, f.dir)}
\* ftconfig's FindForstFiles with the default globs, which are matched against absolute paths: a directory
\* of one of these names hides what is below it also when the project itself lies in it.
ExcludedNames == {"node_modules", ".git", "build", ".forst"}
FindForstFiles(p) ==
    {f \in p.ft : Walked(p, Module, ExcludedNames, FALSE, f.dir) /\ p.above \cap ExcludedNames = {}}
GoDirs(p) == {d \in DirsOf(p.go) : Walked(p, Module, {"vendor", "node_modules", ".git", ".forst"}, FALSE, d)}
HiddenNames == {".git", ".forst", ".cache"}
TestDirs(p) ==
    IF p.only # {} THEN p.only
    ELSE {f.dir : f \in {g \in p.ft : g.test /\ Walked(p, Module, HiddenNames, TRUE, g.dir)}}
\* A named directory without tests, and a project without any, is an error that ends `forst test`.
NoTestsFound(p) == TestDirs(p) = {} \/ \E d \in TestDirs(p) : ~\E f \in p.ft : f.dir = d /\ f.test
DiscoverPackages(p) == IF NoTestsFound(p) THEN {} ELSE TestDirs(p)

(******************************** layout **********************************)
validateOneDirectoryPerPackage(files) == \A f, g \in files : f.pkg = g.pkg => f.dir = g.dir
TestOf == [a_test |-> "a"]
allowedExternalTestPackages(pkgs) == \E t \in DOMAIN TestOf : pkgs = {t, TestOf[t]}
validateOnePackagePerDirectory(files) ==
    \A d \in DirsOf(files) :
        LET pkgs == PkgsOf({f \in files : f.dir = d})
        IN  Cardinality(pkgs) <= 1 \/ allowedExternalTestPackages(pkgs)
ValidateGoPackageLayout(files) ==
    validateOneDirectoryPerPackage(files) /\ validateOnePackagePerDirectory(files)

(***************************** import paths *******************************)
ImportPathForDir(d) == OwnPath \o Rest(d, Module)
packageNamedFileImportPath(pkg, files) ==
    LET d == (CHOOSE f \in files : TRUE).dir
    IN  IF Last(d) # pkg /\ \E f \in files : f.named THEN {Append(ImportPathForDir(d), pkg)} ELSE {}
Keys(files, pkg) ==
    LET own == {f \in files : f.pkg = pkg}
    IN  {ImportPathForDir(f.dir) : f \in own} \cup packageNamedFileImportPath(pkg, own)
\* The map's writes in the order the packages are met: a later one replaces an earlier one.
BuildForstPackageImportPaths(files, order) ==
    [path \in UNION {Keys(files, pkg) : pkg \in PkgsOf(files)} |->
        order[CHOOSE i \in DOMAIN order :
                  /\ path \in Keys(files, order[i])
                  /\ \A j \in i + 1 .. Len(order) : path \notin Keys(files, order[j])]]
ImportPathMaps(files) == {BuildForstPackageImportPaths(files, order) : order \in SetToSeqs(PkgsOf(files))}
\* ImportPathForForstPackage: the first path the map's iteration meets, so any of them.
ImportPathForForstPackage(map, pkg) == {path \in DOMAIN map : map[path] = pkg}
canonicalForstPackageImportPath(map, pkg) ==
    {path \in ImportPathForForstPackage(map, pkg) :
        \A q \in ImportPathForForstPackage(map, pkg) : Len(q) <= Len(path)}

(**************************** one compilation *****************************)
ScanModule(p) == {f \in findForstFiles(p, Module) : f.ok}
entryContainedInRoot(p) == IsPrefix(p.root, p.entry.dir)
\* Mutant: test files are compiled too.
TestsToo(p) == {f \in findForstFiles(p, p.root) : f.ok /\ f.pkg = p.entry.pkg}
collectSamePackageFtPaths(p) ==
    {f \in findForstFiles(p, p.root) : ~f.test /\ f.ok /\ f.pkg = p.entry.pkg}
loadMergedPackageAST(p) ==
    /\ entryContainedInRoot(p) /\ p.entry.ok
    /\ collectSamePackageFtPaths(p) # {}
    /\ ValidateGoPackageLayout(collectSamePackageFtPaths(p))
packageFilesUnderRoot(p) == \E f \in ScanModule(p) : f.pkg = p.entry.pkg /\ IsPrefix(p.root, f.dir)
\* typecheckPackageRootWithModuleProviders: the module's checker of the package, or one of its own.
UsesModuleChecker(p) == packageFilesUnderRoot(p)
\* CollectInvokeFunctionsFromModuleResult: the public functions of every package the module check merged.
CollectInvokeFunctions(p) == {f \in ScanModule(p) : f.exports}
compileExtraInvokePackages(p) == PkgsOf(CollectInvokeFunctions(p)) \ {p.entry.pkg}
CompiledFiles(p) ==
    collectSamePackageFtPaths(p) \cup {f \in ScanModule(p) : f.pkg \in compileExtraInvokePackages(p)}

(*************************** packages elsewhere ***************************)
\* ResolveImportDir: the module with the longest path that the import path is under.
Owners(p, path) == {m \in p.modules : IsPrefix(m.path, path)}
ResolveImportDir(p, path) ==
    LET best == CHOOSE m \in Owners(p, path) : \A n \in Owners(p, path) : Len(n.path) <= Len(m.path)
    IN  [path |-> path, module |-> best, dir |-> best.dir \o Rest(path, best.path)]
ForstFilesInDir(p, d) == {f \in p.ft : f.dir = d /\ ~f.test}
Located(p, paths) == IF p.listed THEN {path \in paths : Owners(p, path) # {}} ELSE {}
\* A file that does not parse counts as one of package main, with no imports.
Seen(f) == IF f.ok THEN f ELSE [f EXCEPT !.pkg = "main", !.imports = {}]
ForstAt(p, path) == {Seen(f) : f \in ForstFilesInDir(p, ResolveImportDir(p, path).dir)}
ImportsOf(files) == UNION {f.imports : f \in files}
\* Mutant: what the packages found import is not looked for.
DirectOnly(p, queue, seen, out) ==
    [ok |-> TRUE, paths |-> {path \in Located(p, queue \ seen) : ForstAt(p, path) # {}}]
RECURSIVE Discover(_, _, _, _)
Discover(p, queue, seen, out) ==
    LET pending == queue \ seen
        found == {path \in Located(p, pending) : ForstAt(p, path) # {}}
    IN  IF pending = {} \/ (pending # {} /\ ~p.listed) THEN [ok |-> TRUE, paths |-> out]
        ELSE IF \E path \in found : ~ValidateGoPackageLayout(ForstAt(p, path)) THEN [ok |-> FALSE, paths |-> out]
        ELSE Discover(p, UNION {ImportsOf(ForstAt(p, path)) : path \in found}, seen \cup pending, out \cup found)
Known(p) == UNION {Keys(ScanModule(p), pkg) : pkg \in PkgsOf(ScanModule(p))}
DiscoverExternalForstPackages(p) == Discover(p, ImportsOf(ScanModule(p)), Known(p), {})
External(p) == DiscoverExternalForstPackages(p).paths
ForstPkg(p, path) == (CHOOSE f \in ForstAt(p, path) : TRUE).pkg
\* Mutant: a package elsewhere is known by its name alone.
NameAlone(p, path) == <<ForstPkg(p, path)>>
externalProviderKey(p, path) ==
    IF ForstPkg(p, path) \in PkgsOf(ScanModule(p)) THEN path ELSE <<ForstPkg(p, path)>>
\* BuildModuleCrossCalls: the package a call through this import is charged to.
CrossCallTarget(p, path) == <<ForstPkg(p, path)>>

OverlayModules(p) == {ResolveImportDir(p, path).module : path \in External(p)}
BuildOverlayRoots(p) == [m \in OverlayModules(p) |-> <<"overlay">> \o m.path]
OverlayPkgDir(p, path) ==
    LET loc == ResolveImportDir(p, path) IN BuildOverlayRoots(p)[loc.module] \o Rest(loc.dir, loc.module.dir)
OverlayReplaces(p) == {<<m.path, BuildOverlayRoots(p)[m]>> : m \in OverlayModules(p)}
EmittedInOverlay(p) == {OverlayPkgDir(p, path) : path \in External(p)}

(****************************** forst test ********************************)
\* The map after the packages of other modules joined it, and the path each lookup by name may give.
ModuleMap(p, map) ==
    [path \in DOMAIN map \cup External(p) |-> IF path \in DOMAIN map THEN map[path] ELSE ForstPkg(p, path)]
PathOf(map, pkg) ==
    LET paths == ImportPathForForstPackage(map, pkg) IN IF paths = {} THEN {Append(OwnPath, pkg)} ELSE paths
Picks(map, pkgs) == {pick \in [pkgs -> UNION {PathOf(map, pkg) : pkg \in pkgs}] :
                        \A pkg \in pkgs : pick[pkg] \in PathOf(map, pkg)}
LibPackages(p) ==
    {pkg \in PkgsOf(ScanModule(p)) :
        LET own == {f \in ScanModule(p) : f.pkg = pkg}
        IN  DirsOf(own) \cap DiscoverPackages(p) = {} /\ \E f \in own : ~f.test}
\* The import path each library package is replaced under, and the directory its sources come from.
emitLibShimsSession(p, pick) ==
    {<<pick[pkg], (CHOOSE f \in ScanModule(p) : f.pkg = pkg).dir>> : pkg \in DOMAIN pick}
collectGoOnlyPackageReplaces(p) ==
    {<<ImportPathForDir(d), d>> :
        d \in {e \in GoDirs(p) : e # Module /\ e \notin DiscoverPackages(p) /\ ~\E f \in p.ft : f.dir = e}}
\* Mutant: packages with Go sources only are left out.
NoGoPackages(p, pick) ==
    LET shims == emitLibShimsSession(p, pick)
    IN  shims \cup {r \in OverlayReplaces(p) : ~\E s \in shims : s[1] = r[1]}
LibReplaces(p, pick) ==
    LET shims == emitLibShimsSession(p, pick)
        over == {r \in OverlayReplaces(p) : ~\E s \in shims : s[1] = r[1]}
    IN  shims \cup over \cup {g \in collectGoOnlyPackageReplaces(p) : ~\E s \in shims \cup over : s[1] = g[1]}
\* runPackageTestsSession: the package whose code is tested in directory d.
TestedPackages(p, d) ==
    IF \E f \in p.ft : f.dir = d /\ ~f.ok THEN {"main"} ELSE PkgsOf({f \in p.ft : f.dir = d})
testImportPath(p, map, d) ==
    UNION {LET paths == ImportPathForForstPackage(map, pkg) IN IF paths = {} THEN {ImportPathForDir(d)} ELSE paths :
              pkg \in TestedPackages(p, d)}
buildTestReplaces(libs, path, d) == {<<path, d>>} \cup {r \in libs : r[1] # path}
DiscoverGoTestPackages(p) ==
    IF p.only # {} \/ NoTestsFound(p) THEN {}
    ELSE {d \in GoDirs(p) : /\ d \notin DiscoverPackages(p)
                            /\ \E g \in p.go : g.dir = d /\ g.test
                            /\ ~\E f \in p.ft : f.dir = d /\ f.test}

(****************************** properties ********************************)
Apart(d, names) == \A k \in DOMAIN d : d[k] \notin names
InNested(p, d) == \E k \in DOMAIN d : SubSeq(d, 1, k) \in p.gomod \cup p.config

\* The walks agree on what the project is: the module check and the development server's discovery see the
\* same sources outside nested projects, vendor and build directories (the project's own place included:
\* below a directory called build the server finds nothing); a test the runner finds is one the
\* module check has and the other way round, outside vendored and hidden directories.
WalkersAgree(p) ==
    \A f \in p.ft :
        /\ ~InNested(p, f.dir) /\ Apart(f.dir, {"vendor", "build", ".forst"}) /\ p.above \cap ExcludedNames = {}
               => (f \in findForstFiles(p, Module) <=> f \in FindForstFiles(p))
        /\ f.test /\ p.only = {} /\ Apart(f.dir, {"vendor", "node_modules", ".forst", ".cache"})
               => (f \in findForstFiles(p, Module) <=> f.dir \in DiscoverPackages(p))

LayoutOk(p) == ValidateGoPackageLayout(ScanModule(p))
\* A package's directory also holds the external test package, or another package has a file of its own name
\* whose import path is this directory's.
SharedPath(p, f) == \E g \in ScanModule(p) : g.pkg # f.pkg /\ ImportPathForDir(f.dir) \in Keys(ScanModule(p), g.pkg)

\* An accepted layout gives every package the import path of its directory, whatever order the maps are
\* iterated in, unless another package claims the same path; and a directory's production files are of one
\* package unless one of them is called a test package.
ImportsResolve(p) ==
    LayoutOk(p) =>
        \A f \in ScanModule(p) :
            /\ ~SharedPath(p, f) => \A map \in ImportPathMaps(ScanModule(p)) : map[ImportPathForDir(f.dir)] = f.pkg
            /\ \A g \in ScanModule(p) :
                   f.dir = g.dir /\ ~f.test /\ ~g.test /\ {f.pkg, g.pkg} \cap DOMAIN TestOf = {} => f.pkg = g.pkg

\* A compile that takes the module's checker compiles exactly the production files that checker saw, the
\* entry file among them unless it is a test; and the functions its invoke server registers are all compiled,
\* except those of test files beside the entry (the module check reads them, the compile does not) and those
\* of a package elsewhere with the entry's package name.
SameProgram(p) ==
    loadMergedPackageAST(p) /\ LayoutOk(p) =>
        /\ UsesModuleChecker(p) =>
               collectSamePackageFtPaths(p) = {f \in ScanModule(p) : f.pkg = p.entry.pkg /\ ~f.test}
        /\ p.entry \in collectSamePackageFtPaths(p) \/ p.entry.test \/ p.entry \notin findForstFiles(p, p.root)
        /\ \A f \in CollectInvokeFunctions(p) :
               \/ f \in CompiledFiles(p)
               \/ f.pkg = p.entry.pkg /\ (f.test \/ ~UsesModuleChecker(p))

\* The Forst packages found elsewhere are the least set closed under imports: nothing reachable is missed,
\* nothing else is pulled in, import cycles included.
Closed(p, paths) ==
    \A path \in Located(p, ImportsOf(ScanModule(p)) \cup UNION {ImportsOf(ForstAt(p, q)) : q \in paths}) :
        ForstAt(p, path) # {} => path \in paths \cup Known(p)
ClosureExact(p) ==
    DiscoverExternalForstPackages(p).ok =>
        Closed(p, External(p)) /\ \A some \in SUBSET External(p) : some # External(p) => ~Closed(p, some)

\* Packages found elsewhere keep their providers apart, and calls are charged to them, unless they share a
\* name with a package of the project or with each other.
SharedName(p, path) ==
    \/ ForstPkg(p, path) \in PkgsOf(ScanModule(p))
    \/ \E q \in External(p) : q # path /\ ForstPkg(p, q) = ForstPkg(p, path)
KeysDistinct(p) ==
    DiscoverExternalForstPackages(p).ok =>
        \A path \in External(p) :
            /\ externalProviderKey(p, path) \notin {<<pkg>> : pkg \in PkgsOf(ScanModule(p))}
            /\ ~SharedName(p, path) =>
                   /\ CrossCallTarget(p, path) = externalProviderKey(p, path)
                   /\ \A q \in External(p) : q # path => externalProviderKey(p, q) # externalProviderKey(p, path)

\* The go tool, following the overlay replaces, finds each of these packages where its Go code was emitted,
\* in an overlay of another module than the project's, unless the project imports a directory of its own
\* that the module check does not enter.
OverlaysComplete(p) ==
    DiscoverExternalForstPackages(p).ok =>
        \A path \in External(p) :
            LET owner == ResolveImportDir(p, path).module
            IN  /\ \E r \in OverlayReplaces(p) : r[1] = owner.path /\ r[2] \o Rest(path, owner.path) \in EmittedInOverlay(p)
                /\ owner.path = OwnPath => InNested(p, ResolveImportDir(p, path).dir)
                                           \/ ~Apart(path, {"vendor", "node_modules", ".git"})
                                           \/ \A f \in ForstAt(p, path) : ~f.ok

\* What a package under test imports from its own module is replaced in the test module, by the directory
\* the import path names, except a package that has tests itself (it gets no library shim), and so is every
\* Go package whose own tests run, except the module's root.  (Where a file of the package under test does
\* not parse, the code of package main is tested in its place.)
Plain(p, f) == ~SharedPath(p, f) /\ Keys(ScanModule(p), f.pkg) = {ImportPathForDir(f.dir)}
               /\ ~\E q \in External(p) : ForstPkg(p, q) = f.pkg
Library(p, e) == \E f \in ScanModule(p) : f.dir = e /\ ~f.test
TestsLinked(p) ==
    ~NoTestsFound(p) /\ LayoutOk(p) /\ DiscoverExternalForstPackages(p).ok /\ (\A f \in ScanModule(p) : Plain(p, f)) =>
        \A map \in {ModuleMap(p, m) : m \in ImportPathMaps(ScanModule(p))} :
            \A pick \in Picks(map, LibPackages(p)) :
                /\ \A g \in DiscoverGoTestPackages(p) \ {Module} :
                      Library(p, g) \/ g \notin DirsOf(p.ft) => <<ImportPathForDir(g), g>> \in LibReplaces(p, pick)
                /\ \A d \in DiscoverPackages(p) :
                      d \in DirsOf(ScanModule(p)) /\ (\A f \in p.ft : f.dir = d => f.ok) =>
                      \A path \in testImportPath(p, map, d) :
                          LET replaces == buildTestReplaces(LibReplaces(p, pick), path, d)
                          IN  /\ path = ImportPathForDir(d)
                              /\ \A r, s \in replaces : r[1] = s[1] => r = s
                              /\ \A f \in p.ft : f.dir = d =>
                                    \A e \in DirsOf(p.ft \cup p.go) :
                                        /\ ImportPathForDir(e) \in f.imports /\ e \notin DiscoverPackages(p)
                                        /\ Library(p, e) \/ e \in GoDirs(p) \ (DirsOf(p.ft) \cup {Module})
                                        => <<ImportPathForDir(e), e>> \in replaces

PackagesSound(p) ==
    /\ WalkersAgree(p) /\ ImportsResolve(p) /\ SameProgram(p)
    /\ ClosureExact(p) /\ KeysDistinct(p) /\ OverlaysComplete(p) /\ TestsLinked(p)

(******************************** inputs **********************************)
DirA == <<"w", "a">>
DirB == <<"w", "a", "b">>
Source(d, pkg) == [dir |-> d, pkg |-> pkg, named |-> FALSE, test |-> FALSE, ok |-> TRUE, imports |-> {}, exports |-> TRUE]
GoFile(d, test) == [dir |-> d, test |-> test]
NoProject ==
    [ft |-> {}, go |-> {}, gomod |-> {}, config |-> {}, root |-> Module, entry |-> Source(Module, "main"),
     modules |-> {Own}, listed |-> TRUE, only |-> {}, above |-> {}]
\* One source in an odd place beside an entry.
Places == {<<"w", "vendor", "v">>, <<"w", "node_modules">>, <<"w", ".git">>, <<"w", "build">>, <<"w", ".cache">>, DirA, DirB}
WalkInputs ==
    {[NoProject EXCEPT !.ft = {Source(Module, "main"), [Source(d, "a") EXCEPT !.test = t]},
                       !.gomod = g, !.config = c, !.above = u] :
        d \in Places, t \in BOOLEAN, g \in {{}, {DirA}}, c \in {{}, {DirA}}, u \in {{}, {"home"}, {"home", "build"}}}
\* Packages in three directories.
Beside == {{}, {[Source(DirA, "a") EXCEPT !.test = TRUE]}, {[Source(DirA, "a_test") EXCEPT !.test = TRUE]},
           {[Source(DirA, "a") EXCEPT !.ok = FALSE, !.test = TRUE]}}
LayoutInputs ==
    {[NoProject EXCEPT !.ft = {e} \cup {[Source(DirA, pa) EXCEPT !.named = n, !.exports = x]} \cup t \cup b,
                       !.config = c, !.root = r, !.entry = e] :
        e \in {Source(Module, "main"), Source(DirA, "main"), [Source(DirA, "main") EXCEPT !.test = TRUE]},
        pa \in {"main", "a", "b"}, n \in BOOLEAN, x \in BOOLEAN, t \in Beside,
        b \in {{}, {Source(DirB, "b")}, {Source(DirB, "main")}, {Source(DirB, "c")}},
        c \in {{}, {DirA}}, r \in {Module, DirA}}
\* Two other modules, one inside the other's path, whose packages import each other.
X == <<"x.io">>
XY == <<"x.io", "y">>
ModX == [path |-> X, dir |-> <<"mod", "x">>]
ModXY == [path |-> XY, dir |-> <<"mod", "y">>]
ExternalInputs ==
    {[NoProject EXCEPT !.ft = {[Source(Module, "main") EXCEPT !.imports = i]} \cup local
                              \cup {[Source(<<"mod", "x">>, n) EXCEPT !.imports = ix, !.ok = k]}
                              \cup {[Source(d, m) EXCEPT !.imports = iy] : d \in {<<"mod", "y">>, <<"mod", "x", "y">>}},
                       !.entry = [Source(Module, "main") EXCEPT !.imports = i], !.config = c,
                       !.modules = {Own, ModX} \cup my, !.listed = w] :
        i \in {{X}, {XY}, {X, XY}, {X, ImportPathForDir(DirA)}}, ix \in {{}, {XY}, {XY, ImportPathForDir(DirA)}}, iy \in {{}, {X}},
        n \in {"x", "a"}, m \in {"y", "x"}, k \in BOOLEAN, local \in {{Source(DirA, "a")}}, c \in {{}, {DirA}},
        my \in {{}, {ModXY}}, w \in {TRUE}}
    \cup {[NoProject EXCEPT !.ft = {[Source(Module, "main") EXCEPT !.imports = {X}], Source(<<"mod", "x">>, "x")},
                            !.modules = {Own, ModX}, !.listed = FALSE]}
\* A package under test that imports a Forst package, a Go package and one elsewhere.
TestInputs ==
    {[NoProject EXCEPT !.ft = {Source(Module, "main"), [Source(DirA, "a") EXCEPT !.imports = i, !.test = t, !.ok = k]}
                              \cup lib \cup {Source(<<"mod", "x">>, n)},
                       !.go = g, !.only = o, !.modules = {Own, ModX}] :
        i \in {{}, {ImportPathForDir(DirB), ImportPathForDir(<<"w", "g">>)}, {ImportPathForDir(DirB), X}, {OwnPath}}, t \in BOOLEAN, k \in BOOLEAN,
        lib \in {{}, {Source(DirB, "b")}, {[Source(DirB, "b") EXCEPT !.test = TRUE]},
                 {Source(DirB, "b"), [Source(DirB, "b") EXCEPT !.test = TRUE]}},
        g \in {{}, {GoFile(<<"w", "g">>, FALSE)}, {GoFile(<<"w", "g">>, FALSE), GoFile(<<"w", "g">>, TRUE)},
               {GoFile(DirB, FALSE), GoFile(Module, TRUE)}},
        n \in {"x", "b"}, o \in {{}, {DirA}, {DirA, DirB}}}
PackagesInputs == WalkInputs \cup LayoutInputs \cup ExternalInputs \cup TestInputs
=============================================================================
