-------------------------- MODULE DevSessionProofs --------------------------
(***************************************************************************)
(* The per-file cache of the dev session is never stale, for any set of    *)
(* files and any sequence of saves, removals and compiles.                 *)
(***************************************************************************)
EXTENDS DevSession, TLAPS

\* The part of TypeOK the argument needs.
Types ==
    /\ tick \in Nat
    /\ disk \in Texts
    /\ changed \in Files \cup {NoFile}
    /\ cache \in [Files -> [fp : Nat, nodes : Nat]]
    /\ todo \in SUBSET Files
    /\ cur \in Files \cup {NoFile}
    /\ curFp \in Nat
    /\ merged \in Texts
    /\ parsed \in Texts
    /\ atStart \in Texts

\* Time only grows: nothing was written after the last tick, and a file that
\* is there is no older than it was when the compile began.
DiskSound ==
    \A f \in Files :
        /\ disk[f] <= tick
        /\ atStart[f] <= tick
        /\ disk[f] # 0 => atStart[f] <= disk[f]

\* An entry's nodes are at least as new as its fingerprint, which was taken
\* first, and no newer than the file.
CacheSound ==
    \A f \in Files : cache[f].fp # 0 =>
        /\ cache[f].fp <= cache[f].nodes
        /\ cache[f].nodes <= tick
        /\ disk[f] # 0 => cache[f].nodes <= disk[f]

\* The same for the fingerprint ParseFile holds between stat and read.
StatSound ==
    cur # NoFile =>
        /\ pc \in {"merge", "module"}
        /\ curFp # 0
        /\ curFp <= tick
        /\ disk[cur] # 0 => curFp <= disk[cur]

\* What ParseAndMerge has yet to parse is in todo; the rest is current.
MergeSound ==
    pc \in {"merge", "cached", "module", "check", "done"} =>
        \A f \in Package : atStart[f] \notin Unparsable \cup {0} =>
            merged[f] >= atStart[f] \/ (pc = "merge" /\ f \in todo)

\* What the module check is given is current; a reused result is, if it was
\* fingerprinted as it was checked.
ParsedSound ==
    /\ pc \in {"merge", "cached"} => parsed = Nothing
    /\ pc \in {"module", "check"} \/ (pc = "done" /\ modPrint = modResult) =>
          \A f \in Files : atStart[f] # 0 /\ parsed[f] # 0 => parsed[f] >= atStart[f]

\* The module result is a text per file.
ResultTyped ==
    modResult \in Texts

IInv ==
    /\ Types
    /\ DiskSound
    /\ CacheSound
    /\ StatSound
    /\ MergeSound
    /\ ParsedSound

\* A matching fingerprint means a matching text.
LEMMA HitIsFresh == IInv => FileHitFresh
<1> SUFFICES ASSUME IInv, NEW f \in Files, disk[f] # 0, cache[f].fp = disk[f]
             PROVE  cache[f].nodes = disk[f]
  BY DEF FileHitFresh, OnDisk
<1>1. disk[f] \in Nat /\ cache[f].nodes \in Nat
  BY DEF IInv, Types, Texts
<1>2. cache[f].fp <= cache[f].nodes /\ cache[f].nodes <= disk[f]
  BY DEF IInv, CacheSound
<1>3. QED BY <1>1, <1>2

LEMMA Initially == Init => IInv
<1> SUFFICES ASSUME Init PROVE IInv
  OBVIOUS
<1>1. disk \in [Files -> {0, 1}]
  BY Zenon DEF Init
<1>2. /\ tick = 1 /\ changed = NoFile /\ cache = [f \in Files |-> NoEntry] /\ pc = "idle"
      /\ todo = {} /\ cur = NoFile /\ curFp = 0
      /\ merged = Nothing /\ parsed = Nothing /\ atStart = Nothing
  BY Zenon DEF Init
<1>3. Types /\ DiskSound
  BY <1>1, <1>2 DEF Types, Texts, DiskSound, Nothing, NoEntry
<1>4. CacheSound /\ StatSound /\ MergeSound
  BY <1>2 DEF CacheSound, StatSound, MergeSound, NoEntry
<1>6. ParsedSound
  BY <1>2 DEF ParsedSound, Nothing
<1>5. QED BY <1>3, <1>4, <1>6 DEF IInv

\* The user's and the watcher's steps.
LEMMA OutsideSteps ==
    ASSUME IInv, (\E f \in Files : Save(f) \/ Remove(f)) \/ NoteChange
    PROVE  IInv'
<1> USE FilesAssumption DEF IInv, Types, Texts
<1>1. ASSUME NEW f \in Files, Save(f) PROVE IInv'
  <2>1. Types'
    BY <1>1 DEF Save, sessionVars, compileVars
  <2>2. DiskSound'
    BY <1>1 DEF Save, DiskSound
  <2>3. CacheSound'
    BY <1>1 DEF Save, CacheSound, sessionVars
  <2>4. StatSound'
    BY <1>1 DEF Save, StatSound, compileVars
  <2>5. MergeSound'
    BY <1>1 DEF Save, MergeSound, compileVars
  <2>6. ParsedSound'
    BY <1>1 DEF Save, ParsedSound, compileVars, sessionVars
  <2>7. QED BY <2>1, <2>2, <2>3, <2>4, <2>5, <2>6
<1>2. ASSUME NEW f \in Files, Remove(f) PROVE IInv'
  <2>1. Types'
    BY <1>2 DEF Remove, sessionVars, compileVars
  <2>2. DiskSound'
    BY <1>2 DEF Remove, DiskSound
  <2>3. CacheSound'
    BY <1>2 DEF Remove, CacheSound, sessionVars
  <2>4. StatSound'
    BY <1>2 DEF Remove, StatSound, compileVars
  <2>5. MergeSound'
    BY <1>2 DEF Remove, MergeSound, compileVars
  <2>6. ParsedSound'
    BY <1>2 DEF Remove, ParsedSound, compileVars, sessionVars
  <2>7. QED BY <2>1, <2>2, <2>3, <2>4, <2>5, <2>6
<1>3. ASSUME NoteChange PROVE IInv'
  <2>1. Types'
    BY <1>3 DEF NoteChange, Without, NoEntry, compileVars
  <2>2. CacheSound'
    BY <1>3 DEF NoteChange, Without, NoEntry, CacheSound
  <2>3. DiskSound' /\ StatSound' /\ MergeSound'
    BY <1>3 DEF NoteChange, DiskSound, StatSound, MergeSound, compileVars
  <2>4. ParsedSound'
    BY <1>3 DEF NoteChange, ParsedSound, compileVars
  <2>5. QED BY <2>1, <2>2, <2>3, <2>4
<1>4. QED BY <1>1, <1>2, <1>3

\* ParseFile's steps.
LEMMA ParseSteps ==
    ASSUME IInv, (\E f \in Files : ParseHit(f) \/ ParseMiss(f)) \/ ParseRead
    PROVE  IInv'
<1> USE FilesAssumption DEF IInv, Types, Texts
<1>1. ASSUME NEW f \in Files, ParseHit(f) PROVE IInv'
  <2>1. cache[f].nodes = disk[f] /\ disk[f] # 0
    BY <1>1, HitIsFresh DEF ParseHit, FileHitFresh, OnDisk
  <2>2. Types'
    BY <1>1, ZenonT(30) DEF ParseHit, Return, diskVars, sessionVars
  <2>3. DiskSound' /\ CacheSound' /\ StatSound'
    BY <1>1 DEF ParseHit, DiskSound, CacheSound, StatSound, diskVars, sessionVars
  <2>4. MergeSound'
    BY <1>1, <2>1 DEF ParseHit, Return, MergeSound, DiskSound
  <2>5. ParsedSound'
    BY <1>1, <2>1 DEF ParseHit, Return, ParsedSound, DiskSound
  <2>6. QED BY <2>2, <2>3, <2>4, <2>5
<1>2. ASSUME NEW f \in Files, ParseMiss(f) PROVE IInv'
  <2>1. Types'
    BY <1>2 DEF ParseMiss, diskVars, sessionVars
  <2>2. DiskSound' /\ CacheSound' /\ MergeSound'
    BY <1>2 DEF ParseMiss, DiskSound, CacheSound, MergeSound, diskVars, sessionVars
  <2>3. StatSound'
    BY <1>2 DEF ParseMiss, StatSound, DiskSound, OnDisk, diskVars
  <2>4. ParsedSound'
    BY <1>2 DEF ParseMiss, ParsedSound
  <2>5. QED BY <2>1, <2>2, <2>3, <2>4
<1>3. ASSUME ParseRead PROVE IInv'
  <2>1. cur \in Files /\ disk[cur] # 0 /\ curFp <= disk[cur]
    BY <1>3 DEF ParseRead, StatSound, OnDisk
  <2>2. Types'
    BY <1>3, <2>1 DEF ParseRead, Return, diskVars
  <2>3. CacheSound'
    BY <1>3, <2>1 DEF ParseRead, CacheSound, DiskSound, diskVars
  <2>4. DiskSound' /\ StatSound'
    BY <1>3 DEF ParseRead, DiskSound, StatSound, diskVars
  <2>5. MergeSound'
    BY <1>3, <2>1 DEF ParseRead, Return, MergeSound, DiskSound
  <2>6. ParsedSound'
    BY <1>3, <2>1 DEF ParseRead, Return, ParsedSound, StatSound, DiskSound
  <2>7. QED BY <2>2, <2>3, <2>4, <2>5, <2>6
<1>4. QED BY <1>1, <1>2, <1>3

\* The remaining steps of a compile change no file and add no entry.
LEMMA CompileSteps ==
    ASSUME IInv,
           \/ loadMergedPackageAST \/ CompileFails \/ MergePackageASTs \/ CachedModuleResult
           \/ ParsedFilesForModuleCheck \/ CheckModuleProviders \/ StoreModuleResult \/ EndCompile,
           ResultTyped
    PROVE  IInv'
<1> USE FilesAssumption DEF IInv, Types, ResultTyped, Texts, diskVars, sessionVars
<1>1. CASE loadMergedPackageAST
  <2>1. Types' /\ DiskSound' /\ CacheSound'
    BY <1>1 DEF loadMergedPackageAST, Without, NoEntry, Nothing, DiskSound, CacheSound, OnDisk
  <2>2. cur = NoFile
    BY <1>1 DEF loadMergedPackageAST, StatSound
  <2>3. StatSound' /\ MergeSound'
    BY <1>1, <2>2 DEF loadMergedPackageAST, StatSound, MergeSound, OnDisk, Parses
  <2>4. ParsedSound'
    BY <1>1 DEF loadMergedPackageAST, ParsedSound
  <2>5. QED BY <2>1, <2>3, <2>4
<1>2. CASE CompileFails
  BY <1>2 DEF CompileFails, DiskSound, CacheSound, StatSound, MergeSound, ParsedSound
<1>3. CASE MergePackageASTs
  BY <1>3 DEF MergePackageASTs, DiskSound, CacheSound, StatSound, MergeSound, ParsedSound
<1>4. CASE CachedModuleResult
  <2>1. cur = NoFile
    BY <1>4 DEF CachedModuleResult, StatSound
  <2>2. Types' /\ DiskSound' /\ CacheSound' /\ StatSound' /\ MergeSound'
    BY <1>4, <2>1 DEF CachedModuleResult, DiskSound, CacheSound, StatSound, MergeSound
  <2>3. ASSUME NEW f \in Files, modPrint = modResult, modResult[f] # 0
        PROVE  disk[f] = modResult[f]
    BY <1>4, <2>3 DEF CachedModuleResult, moduleFingerprint
  <2>4. ParsedSound'
    BY <1>4, <2>3 DEF CachedModuleResult, ParsedSound, DiskSound
  <2>5. QED BY <2>2, <2>4
<1>5. CASE ParsedFilesForModuleCheck
  BY <1>5 DEF ParsedFilesForModuleCheck, DiskSound, CacheSound, StatSound, MergeSound, ParsedSound, OnDisk, Nothing
<1>6. CASE CheckModuleProviders
  BY <1>6 DEF CheckModuleProviders, DiskSound, CacheSound, StatSound, MergeSound, ParsedSound
<1>7. CASE StoreModuleResult
  <2>1. cur = NoFile
    BY <1>7 DEF StoreModuleResult, StatSound
  <2>2. QED BY <1>7, <2>1 DEF StoreModuleResult, DiskSound, CacheSound, StatSound, MergeSound, ParsedSound
<1>8. CASE EndCompile
  <2>1. cur = NoFile
    BY <1>8 DEF EndCompile, StatSound
  <2>2. QED BY <1>8, <2>1 DEF EndCompile, Nothing, DiskSound, CacheSound, StatSound, MergeSound, ParsedSound
<1>9. QED BY <1>1, <1>2, <1>3, <1>4, <1>5, <1>6, <1>7, <1>8, ZenonT(30)

LEMMA ResultStaysTyped == Types /\ ResultTyped /\ [Next]_vars => ResultTyped'
BY ZenonT(30) DEF ResultTyped, Next, vars, diskVars, sessionVars, compileVars, Types, Save, Remove, NoteChange, loadMergedPackageAST,
   ParseHit, ParseMiss, ParseRead, CompileFails, MergePackageASTs, CachedModuleResult,
   ParsedFilesForModuleCheck, CheckModuleProviders, StoreModuleResult, EndCompile

LEMMA Inductive == IInv /\ ResultTyped /\ [Next]_vars => IInv'
<1> SUFFICES ASSUME IInv, ResultTyped, [Next]_vars PROVE IInv'
  OBVIOUS
<1>1. CASE UNCHANGED vars
  BY <1>1 DEF vars, diskVars, sessionVars, compileVars, IInv, Types, DiskSound, CacheSound, StatSound, MergeSound,
              ParsedSound
<1>2. CASE Next
  BY <1>2, OutsideSteps, ParseSteps, CompileSteps DEF Next
<1>3. QED BY <1>1, <1>2

\* A text that does not parse enters neither the cache nor what is merged.
LEMMA ParsedOnly == IInv /\ ResultTyped /\ OnlyParsed /\ [Next]_vars => OnlyParsed'
<1> SUFFICES ASSUME IInv, ResultTyped, OnlyParsed, [Next]_vars PROVE OnlyParsed'
  OBVIOUS
<1> USE FilesAssumption DEF IInv, Types, ResultTyped, Texts, OnlyParsed, diskVars, watchVars,
        sessionVars, compileVars
<1>1. ASSUME NEW f \in Files, ParseHit(f) PROVE OnlyParsed'
  BY <1>1 DEF ParseHit, Return, OnDisk
<1>2. CASE ParseRead
  <2>1. cur \in Files /\ disk[cur] \notin Unparsable
    BY <1>2 DEF ParseRead, Parses
  <2>2. QED BY <1>2, <2>1 DEF ParseRead, Return
<1>3. CASE NoteChange \/ loadMergedPackageAST
  BY <1>3 DEF NoteChange, loadMergedPackageAST, Without, NoEntry, Nothing
<1>4. CASE CachedModuleResult \/ StoreModuleResult \/ EndCompile
  BY <1>4 DEF CachedModuleResult, StoreModuleResult, EndCompile, Nothing
<1>5. ASSUME UNCHANGED <<cache, modResult, merged, parsed>> PROVE OnlyParsed'
  BY <1>5
<1>6. QED
  BY <1>1, <1>2, <1>3, <1>4, <1>5, ZenonT(30)
  DEF Next, vars, Save, Remove, ParseMiss, CompileFails, MergePackageASTs,
      ParsedFilesForModuleCheck, CheckModuleProviders

LEMMA Invariance == Spec => [](IInv /\ ResultTyped)
<1>1. Init => ResultTyped
  <2>1. Init => modResult = Nothing
    BY Zenon DEF Init
  <2>2. QED BY <2>1 DEF Nothing, Texts, ResultTyped
<1>2. IInv /\ ResultTyped /\ [Next]_vars => ResultTyped'
  BY ResultStaysTyped DEF IInv
<1>3. QED BY <1>1, <1>2, Initially, Inductive, PTL DEF Spec

\* ParseFile never returns the AST of a text that is no longer on disk when the
\* fingerprint matches: the stat precedes the read, so a save in between makes
\* the entry a miss, not a stale hit.
THEOREM NoStaleParse == Spec => []FileHitFresh
BY Invariance, HitIsFresh, PTL

\* The AST a compile merges contains no text replaced before it began.
THEOREM MergeNeverStale == Spec => []MergeIsCurrent
<1>1. IInv => MergeIsCurrent
  BY FilesAssumption DEF IInv, Types, MergeSound, MergeIsCurrent
<1>2. QED BY <1>1, Invariance, PTL

\* A compile that reuses a module result uses none older than the sources it
\* started from, if no save fell between the check and its fingerprint.
THEOREM ResultNeverStale == Spec => []ResultIsCurrent
<1>1. IInv => ResultIsCurrent
  BY DEF IInv, ParsedSound, ResultIsCurrent
<1>2. QED BY <1>1, Invariance, PTL

\* ParseFile caches, and a compile merges and checks, only texts that parse.
THEOREM NothingUnparsed == Spec => []OnlyParsed
<1>1. Init => OnlyParsed
  <2>1. Init => /\ cache = [f \in Files |-> NoEntry] /\ modResult = Nothing
                /\ merged = Nothing /\ parsed = Nothing
    BY Zenon DEF Init
  <2>2. ASSUME Init, NEW f \in Files
        PROVE  cache[f].fp = 0 /\ merged[f] = 0 /\ parsed[f] = 0 /\ modResult[f] = 0
    BY <2>1, <2>2 DEF NoEntry, Nothing
  <2>3. QED BY <2>2, Zenon DEF OnlyParsed
<1>2. QED BY <1>1, ParsedOnly, Invariance, PTL DEF Spec

\* Neither a cached parse nor the merged package is stale or of a text with a
\* syntax error (ParseFile, collectSamePackageFtPaths).
THEOREM ParsesNeverStale == Spec => []ParsesCurrent
<1>1. FileHitFresh /\ MergeIsCurrent /\ OnlyParsed => ParsesCurrent
  BY DEF ParsesCurrent
<1>2. QED BY <1>1, NoStaleParse, MergeNeverStale, NothingUnparsed, PTL

DueTyped == due \in BOOLEAN
RestTyped == /\ last \in Files \cup {NoFile} /\ modPrint \in Texts
             /\ pc \in {"idle", "merge", "cached", "module", "check", "done", "failed"}

\* Every variable of the session and of a compile keeps its type.
THEOREM Typing == Spec => []TypeOK
<1>1. Init => DueTyped
  BY Zenon DEF Init, DueTyped
<1>2. Init => RestTyped
  <2>1. Init => last = NoFile /\ modPrint = Nothing /\ pc = "idle"
    BY Zenon DEF Init
  <2>2. QED BY <2>1 DEF RestTyped, Nothing, Texts
<1>3. DueTyped /\ [Next]_vars => DueTyped'
  BY Zenon
  DEF DueTyped, Save, Remove, NoteChange, loadMergedPackageAST, ParseHit, ParseMiss, ParseRead,
     CompileFails, MergePackageASTs, CachedModuleResult, ParsedFilesForModuleCheck,
     CheckModuleProviders, StoreModuleResult, EndCompile, vars, diskVars, sessionVars,
     compileVars, watchVars, Next
<1>4. Types /\ RestTyped /\ [Next]_vars => RestTyped'
  BY ZenonT(30) DEF Types, RestTyped, Texts, moduleFingerprint,
     Save, Remove, NoteChange, loadMergedPackageAST, ParseHit, ParseMiss, ParseRead,
     CompileFails, MergePackageASTs, CachedModuleResult, ParsedFilesForModuleCheck,
     CheckModuleProviders, StoreModuleResult, EndCompile, vars, diskVars, sessionVars,
     compileVars, watchVars, Next
<1>5. IInv /\ ResultTyped /\ DueTyped /\ RestTyped => TypeOK
  BY Zenon DEF IInv, Types, ResultTyped, DueTyped, RestTyped, TypeOK
<1>6. IInv => Types
  BY DEF IInv
<1>7. QED BY <1>1, <1>2, <1>3, <1>4, <1>5, <1>6, Invariance, PTL DEF Spec
=============================================================================
