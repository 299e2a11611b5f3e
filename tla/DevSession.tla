----------------------------- MODULE DevSession -----------------------------
(***************************************************************************)
(* The incremental compile cache of `forst dev`                            *)
(* (forst/internal/devcompile/session.go) and the two places of a compile  *)
(* that use it: loadMergedPackageAST (compiler/package.go) and             *)
(* checkModuleProvidersWithSession (compiler/ftconfig_cache.go).           *)
(*                                                                         *)
(* A source text is the tick at which it was written; 0 is an absent file. *)
(* The AST of a text is identified with the text, and so is its            *)
(* fingerprint (path, mtime in ns, size): two saves never share one.       *)
(* A stat, a read and a save are each one step.  moduleFingerprint stats   *)
(* its files under s.mu in one step: files are independent of each other.  *)
(***************************************************************************)
EXTENDS Naturals

CONSTANTS
    Files,     \* the .ft paths of the module
    Package,   \* those of the entry's package under -root
    Entry,     \* the entry file
    NoFile,    \* no path
    Unparsable,\* texts with a syntax error
    MaxTick    \* bound: last tick a file is written at

ASSUME FilesAssumption == Entry \in Package /\ Package \subseteq Files /\ NoFile \notin Files
ASSUME MaxTickAssumption == MaxTick \in Nat

VARIABLES
    tick,      \* time of the last write
    disk,      \* text of each file
    changed,   \* pendingPath of the watcher: a change not yet noted
    due,       \* a reload is due
    last,      \* devReloadState.lastChanged
    cache,     \* Session.fileCache; fp = 0 is no entry
    modResult, \* Session.modResult: the texts it was computed from; nil is Nothing
    modPrint,  \* Session.modPrint
    pc,        \* the compile: idle, merge (ParseAndMerge), cached, module
               \* (ParsedFilesForModuleCheck), check, done, failed
    todo,      \* paths still to parse in this phase
    cur,       \* the path ParseFile is between stat and read of, and
    curFp,     \* its fingerprint
    merged,    \* texts of the merged package AST
    parsed,    \* texts handed to the module check
    atStart    \* disk when the compile began

diskVars == <<tick, disk, changed>>
sessionVars == <<cache, modResult, modPrint>>
compileVars == <<pc, todo, cur, curFp, merged, parsed>>
watchVars == <<due, last>>
vars == <<diskVars, watchVars, sessionVars, compileVars, atStart>>

Texts == [Files -> Nat]
Nothing == [f \in Files |-> 0]
NoEntry == [fp |-> 0, nodes |-> 0]
OnDisk == {f \in Files : disk[f] # 0}
Parses(f) == disk[f] \notin Unparsable

TypeOK ==
    /\ tick \in Nat
    /\ disk \in Texts
    /\ changed \in Files \cup {NoFile}
    /\ due \in BOOLEAN
    /\ last \in Files \cup {NoFile}
    /\ cache \in [Files -> [fp : Nat, nodes : Nat]]
    /\ modResult \in Texts
    /\ modPrint \in Texts
    /\ pc \in {"idle", "merge", "cached", "module", "check", "done", "failed"}
    /\ todo \in SUBSET Files
    /\ cur \in Files \cup {NoFile}
    /\ curFp \in Nat
    /\ merged \in Texts
    /\ parsed \in Texts
    /\ atStart \in Texts

\* NewSession; WatchRuntimeDev's runSync makes the first reload due.
Init ==
    /\ tick = 1
    /\ disk \in {d \in [Files -> {0, 1}] : d[Entry] = 1}
    /\ changed = NoFile
    /\ due = TRUE
    /\ last = NoFile
    /\ cache = [f \in Files |-> NoEntry]
    /\ modResult = Nothing
    /\ modPrint = Nothing
    /\ pc = "idle"
    /\ todo = {}
    /\ cur = NoFile
    /\ curFp = 0
    /\ merged = Nothing
    /\ parsed = Nothing
    /\ atStart = Nothing

-----------------------------------------------------------------------------
(* The user and the watcher                                                *)

\* The editor writes f; the watcher will report it, or a later path.
Save(f) ==
    /\ tick < MaxTick
    /\ tick' = tick + 1
    /\ disk' = [disk EXCEPT ![f] = tick + 1]
    /\ changed' = f
    /\ UNCHANGED <<watchVars, sessionVars, compileVars, atStart>>

\* The user removes f, which isRelevantWatchOp ignores, or renames it away,
\* which it reports.
Remove(f) ==
    /\ tick < MaxTick
    /\ disk[f] # 0
    /\ tick' = tick + 1
    /\ disk' = [disk EXCEPT ![f] = 0]
    /\ changed' \in {changed, f}
    /\ UNCHANGED <<watchVars, sessionVars, compileVars, atStart>>

\* NoteChange(path): the AST of path is dropped; no path is a no-op.
Without(path) ==
    [f \in Files |-> IF f = path THEN NoEntry ELSE cache[f]]

\* The watch callback: setLastChanged, NoteChange, then schedule() makes a
\* reload due.
NoteChange ==
    /\ changed # NoFile
    /\ last' = changed
    /\ cache' = Without(changed)
    /\ changed' = NoFile
    /\ due' = TRUE
    /\ UNCHANGED <<tick, disk, modResult, modPrint, compileVars, atStart>>

-----------------------------------------------------------------------------
(* The compile                                                             *)

\* The hash of the fingerprints of the files of a result ("err" is 0).
moduleFingerprint(texts) ==
    [f \in Files |-> IF texts[f] # 0 THEN disk[f] ELSE 0]

\* runReload notes the last change once more; then loadMergedPackageAST lists
\* the entry's package and starts ParseAndMerge.  collectSamePackageFtPaths
\* silently leaves out a sibling it cannot parse.
loadMergedPackageAST ==
    /\ pc = "idle"
    /\ due
    /\ due' = FALSE
    /\ cache' = Without(last)
    /\ pc' = IF Entry \in OnDisk /\ Parses(Entry) THEN "merge" ELSE "failed"
    /\ todo' = {f \in Package \cap OnDisk : Parses(f)}
    /\ merged' = Nothing
    /\ parsed' = Nothing
    /\ atStart' = disk
    /\ UNCHANGED <<diskVars, last, modResult, modPrint, cur, curFp>>

\* ParseFile hands the nodes of f to the phase that asked for them.
Return(f, nodes) ==
    /\ todo' = todo \ {f}
    /\ IF pc = "merge"
       THEN merged' = [merged EXCEPT ![f] = nodes] /\ UNCHANGED parsed
       ELSE parsed' = [parsed EXCEPT ![f] = nodes] /\ UNCHANGED merged

\* ParseFile, up to the cache lookup, when the entry matches the stat.
ParseHit(f) ==
    /\ pc \in {"merge", "module"}
    /\ cur = NoFile
    /\ f \in todo \cap OnDisk
    /\ cache[f].fp = disk[f]
    /\ Return(f, cache[f].nodes)
    /\ UNCHANGED <<diskVars, watchVars, sessionVars, pc, cur, curFp, atStart>>

\* ParseFile, up to the cache lookup, otherwise.
ParseMiss(f) ==
    /\ pc \in {"merge", "module"}
    /\ cur = NoFile
    /\ f \in todo \cap OnDisk
    /\ cache[f].fp # disk[f]
    /\ cur' = f
    /\ curFp' = disk[f]
    /\ UNCHANGED <<diskVars, watchVars, sessionVars, pc, todo, merged, parsed, atStart>>

\* A mutant: the entry is stamped with a stat made after the read (here the
\* last write the read raced with), not the one before it.
StampAfterRead ==
    /\ cur # NoFile
    /\ cur \in OnDisk
    /\ cache' = [cache EXCEPT ![cur] = [fp |-> disk[cur], nodes |-> curFp]]
    /\ Return(cur, curFp)
    /\ cur' = NoFile
    /\ curFp' = 0
    /\ UNCHANGED <<diskVars, watchVars, modResult, modPrint, pc, atStart>>

\* ParseFile after a miss: read, parse, store under the earlier fingerprint.
ParseRead ==
    /\ cur # NoFile
    /\ cur \in OnDisk
    /\ Parses(cur)
    /\ cache' = [cache EXCEPT ![cur] = [fp |-> curFp, nodes |-> disk[cur]]]
    /\ Return(cur, disk[cur])
    /\ cur' = NoFile
    /\ curFp' = 0
    /\ UNCHANGED <<diskVars, watchVars, modResult, modPrint, pc, atStart>>

\* A stat, a read, a parse or the check returns an error: the compile fails.
CompileFails ==
    /\ \/ pc \in {"merge", "module"} /\ (cur # NoFile \/ todo \ OnDisk # {})
       \/ pc = "check"
    /\ pc' = "failed"
    /\ cur' = NoFile
    /\ curFp' = 0
    /\ UNCHANGED <<diskVars, watchVars, sessionVars, todo, merged, parsed, atStart>>

\* ParseAndMerge returns.
MergePackageASTs ==
    /\ pc = "merge"
    /\ cur = NoFile
    /\ todo = {}
    /\ pc' = "cached"
    /\ UNCHANGED <<diskVars, watchVars, sessionVars, todo, cur, curFp, merged, parsed, atStart>>

\* A mutant: any stored result is a hit.
HitWithoutPrint ==
    /\ pc = "cached"
    /\ modResult # Nothing
    /\ parsed' = modResult
    /\ pc' = "done"
    /\ UNCHANGED <<diskVars, watchVars, sessionVars, todo, cur, curFp, merged, atStart>>

\* CachedModuleResult hits: the check is skipped and the old result is used.
CachedModuleResult ==
    /\ pc = "cached"
    /\ modResult # Nothing
    /\ moduleFingerprint(modResult) = modPrint
    /\ parsed' = modResult
    /\ pc' = "done"
    /\ UNCHANGED <<diskVars, watchVars, sessionVars, todo, cur, curFp, merged, atStart>>

\* It misses: ParsedFilesForModuleCheck lists all .ft files of the module.
ParsedFilesForModuleCheck ==
    /\ pc = "cached"
    /\ modResult = Nothing \/ moduleFingerprint(modResult) # modPrint
    /\ todo' = OnDisk
    /\ pc' = "module"
    /\ UNCHANGED <<diskVars, watchVars, sessionVars, cur, curFp, merged, parsed, atStart>>

\* All files parsed: CheckModuleProviders runs.
CheckModuleProviders ==
    /\ pc = "module"
    /\ cur = NoFile
    /\ todo = {}
    /\ pc' = "check"
    /\ UNCHANGED <<diskVars, watchVars, sessionVars, todo, cur, curFp, merged, parsed, atStart>>

\* It succeeded: StoreModuleResult fingerprints the files as they are now.
StoreModuleResult ==
    /\ pc = "check"
    /\ modResult' = parsed
    /\ modPrint' = moduleFingerprint(parsed)
    /\ pc' = "done"
    /\ UNCHANGED <<diskVars, watchVars, cache, todo, cur, curFp, merged, parsed, atStart>>

\* The compile ends; generation and the restart are DevReload's concern.
EndCompile ==
    /\ pc \in {"done", "failed"}
    /\ pc' = "idle"
    /\ todo' = {}
    /\ merged' = Nothing
    /\ parsed' = Nothing
    /\ atStart' = Nothing
    /\ UNCHANGED <<diskVars, watchVars, sessionVars, cur, curFp>>

Next ==
    \/ \E f \in Files : Save(f) \/ Remove(f) \/ ParseHit(f) \/ ParseMiss(f)
    \/ NoteChange
    \/ loadMergedPackageAST
    \/ ParseRead
    \/ CompileFails
    \/ MergePackageASTs
    \/ CachedModuleResult
    \/ ParsedFilesForModuleCheck
    \/ CheckModuleProviders
    \/ StoreModuleResult
    \/ EndCompile

Spec == Init /\ [][Next]_vars

-----------------------------------------------------------------------------
(* Properties                                                              *)

\* ParseFile never serves an AST of another text: an entry whose fingerprint
\* matches the file on disk holds the AST of what is on disk, even when the
\* file was saved between the stat and the read that made the entry.
FileHitFresh ==
    \A f \in OnDisk : cache[f].fp = disk[f] => cache[f].nodes = disk[f]

\* The merged package has every file of the package that parsed when the
\* compile began (collectSamePackageFtPaths), and none of its texts had been
\* replaced before that.
MergeIsCurrent ==
    pc \in {"cached", "module", "check", "done"} =>
        \A f \in Package :
            atStart[f] \notin Unparsable \cup {0} => merged[f] >= atStart[f]

\* No AST of a text with a syntax error is ever served or merged (ParseFile).
OnlyParsed ==
    \A f \in Files :
        /\ cache[f].fp # 0 => cache[f].nodes \notin Unparsable
        /\ {merged[f], parsed[f], modResult[f]} \cap Unparsable \subseteq {0}

\* Neither a parse served from the cache nor the merged package is stale, and
\* neither holds what does not parse.
ParsesCurrent == FileHitFresh /\ MergeIsCurrent /\ OnlyParsed

\* The result of a compile is no older than the files were when the compile
\* began, as far as the result knows the file, unless a save slipped between
\* the check and the fingerprint stored with its result.
ResultIsCurrent ==
    pc = "done" /\ modPrint = modResult =>
        \A f \in Files : atStart[f] # 0 /\ parsed[f] # 0 => parsed[f] >= atStart[f]
=============================================================================
