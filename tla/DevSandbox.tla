----------------------------- MODULE DevSandbox -----------------------------
(***************************************************************************)
(* The directory .forst/run/dev that every reload of a dev session writes  *)
(* its program into and builds in (compiler.createTempOutputFiles with     *)
(* stableDir, SandboxModCache, BuildGoProgramInSandbox).  It is never      *)
(* emptied: what an earlier reload wrote and this one does not is still    *)
(* there.  The go command is external.                                     *)
(***************************************************************************)
EXTENDS Linking, Subject

CONSTANT MaxReloads

\* A compile's output: the files it emits beside main.go (an extra package only with an invoke server), the
\* external Forst modules it imports through overlays, the other modules its program imports.
CompileOutputs == [emits : {{}, {"bridge"}, {"bridge", "invoke"}, {"invoke", "extra"}},
                   overlays : {{}, {"dep"}}, imports : {{}, {"lib"}, {"user"}}]
SandboxFiles == {"main", "hand", "bridge", "invoke", "extra"}
Companions == {"bridge", "invoke"}

SandboxProject(m, x, exe) ==
    [gomod |-> m, config |-> {}, compilers |-> {<<"opt", "rt">>, <<"opt", "bin", "module">>}, text |-> x,
     env |-> NoDir, exe |-> exe, wd |-> Boundary]
SandboxProjects ==
    {SandboxProject({}, <<>>, <<"opt", "bin">>), SandboxProject({}, <<>>, <<"usr">>),
     SandboxProject({Boundary}, <<<<"replace", "forst", "=>", "/opt/rt">>>>, <<"usr">>),
     SandboxProject({Boundary}, <<>>, <<"opt", "bin">>),
     SandboxProject({Append(Boundary, ForstGoModDir)}, <<>>, <<"opt", "bin">>)}
SandboxInputs == [part : {"sandbox"}, tree : SandboxProjects]

\* says: what the project links to, read anew by every reload; it changes when the project is edited.
SandboxStart(t) ==
    [phase |-> "idle", reloads |-> 0, config |-> FALSE, hand |-> FALSE, says |-> Says(t), out |-> "none",
     files |-> [f \in SandboxFiles |-> "absent"],
     mod |-> NoMod, work |-> NoWork, lastHash |-> NoMod, tidiedFor |-> {}, skipped |-> FALSE]

InDir(s) == {f \in SandboxFiles : s.files[f] # "absent"}
Emitted(out) == {"main"} \cup out.emits
needsForstCompilerModule(out) == Companions \cap out.emits # {}
tempDirHasForstCompanionFiles(s) == Companions \cap InDir(s) # {}
\* The modules that the packages of the sandbox import.
Imported(s) ==
    s.out.overlays \cup (IF Companions \cap InDir(s) # {} THEN {"forst"} ELSE {})
    \cup {IF i = "user" THEN s.says.userPath ELSE i : i \in s.out.imports}

(********************************* a reload *******************************)
\* The project is edited: a ftconfig.json or a handwritten Go file appears or goes.
EditProject ==
    /\ state.phase = "idle" /\ state.reloads \in 1 .. MaxReloads - 1
    /\ \E config, hand \in BOOLEAN :
        state' = [state EXCEPT !.phase = "edited", !.config = config, !.hand = hand,
                               !.says = Says([subject.tree EXCEPT !.config = IF config THEN {Boundary} ELSE {}])]
CompileForReload ==
    /\ state.phase \in {"idle", "edited"} /\ state.reloads < MaxReloads
    /\ \E out \in CompileOutputs :
        /\ "user" \in out.imports => state.says.userPath # ""
        /\ state' = [state EXCEPT !.phase = "write", !.reloads = @ + 1, !.out = out,
                                  !.files = [f \in SandboxFiles |-> IF @[f] = "absent" THEN "absent" ELSE "left"],
                                  !.skipped = FALSE]

CopyHandwrittenGoSources(s) == IF s.hand THEN [s EXCEPT !.files["hand"] = "now"] ELSE s
LinkSandbox(s) ==
    LET needs == needsForstCompilerModule(s.out)
    IN  CASE needs -> [s EXCEPT !.mod = SandboxMod(s.says, s.out.overlays),
                                !.work = IF s.says.mode = "workspace" THEN SandboxWork(s.says, s.out.overlays) ELSE @]
          [] ~needs /\ s.out.overlays # {} ->
                [s EXCEPT !.mod = AppendGoModReplaces(IF @.absent THEN writeMinimalRunGoMod ELSE @, s.out.overlays)]
          [] OTHER -> s
WriteOutput(s) == [s EXCEPT !.files = [f \in SandboxFiles |-> IF f \in Emitted(s.out) THEN "now" ELSE @[f]]]
CannotLink(s) == needsForstCompilerModule(s.out) /\ s.says.mode = "error"
\* Mutant: the program is written before the link is planned.
WrittenFirst(s) ==
    IF CannotLink(s) THEN [WriteOutput(CopyHandwrittenGoSources(s)) EXCEPT !.phase = "idle"]
    ELSE [WriteOutput(LinkSandbox(CopyHandwrittenGoSources(s))) EXCEPT
            !.phase = IF needsForstCompilerModule(s.out) THEN "tidy" ELSE "build"]
createTempOutputFiles(s) ==
    IF CannotLink(s) THEN [CopyHandwrittenGoSources(s) EXCEPT !.phase = "idle"]
    ELSE [WriteOutput(LinkSandbox(CopyHandwrittenGoSources(s))) EXCEPT
            !.phase = IF needsForstCompilerModule(s.out) THEN "tidy" ELSE "build"]
WriteSandbox == state.phase = "write" /\ state' = createTempOutputFiles(state)

\* Mutant: go.mod is tidied once.
NeverTidied(s) == s.lastHash = NoMod
NeedsTidy(s) == s.mod # s.lastHash
\* go get forst and go mod tidy: go.mod requires what is imported and nothing else.
GoModTidied(s) ==
    [s.mod EXCEPT !.requires = {r \in @ : r[1] \in Imported(s)}
                               \cup {<<m, "v0.0.0">> : m \in Imported(s) \ {r[1] : r \in @}}]
TidySkipped == state.phase = "tidy" /\ ~NeedsTidy(state) /\ state' = [state EXCEPT !.phase = "build", !.skipped = TRUE]
RecordTidied(s) == [s EXCEPT !.mod = GoModTidied(s), !.lastHash = GoModTidied(s), !.tidiedFor = Imported(s), !.phase = "build"]
TidySandbox == state.phase = "tidy" /\ NeedsTidy(state) /\ state' = RecordTidied(state)
TidyFails == state.phase = "tidy" /\ NeedsTidy(state) /\ state' = [state EXCEPT !.phase = "idle"]

\* The environment of the build.
BuildEnv(s) == IF tempDirHasForstCompanionFiles(s) THEN ChildEnv(s.says) ELSE "off"
BuildSandbox == state.phase = "build" /\ state' = [state EXCEPT !.phase = "idle"]

SandboxInit == subject \in SandboxInputs /\ state = SandboxStart(subject.tree)
SandboxNext ==
    /\ subject.part = "sandbox"
    /\ \/ EditProject \/ CompileForReload \/ WriteSandbox \/ TidySkipped \/ TidySandbox \/ TidyFails \/ BuildSandbox
    /\ UNCHANGED subject

(***************************** what is checked ****************************)
OfSandbox == subject.part = "sandbox"
Building == OfSandbox /\ state.phase = "build"

\* A companion or an extra package is in the sandbox only with a go.mod: companions import forst, which only a
\* go.mod can link, and without a go.mod go is given every file by name, which it takes of one directory only.
CompanionsLinked == OfSandbox /\ InDir(state) \cap {"bridge", "invoke", "extra"} # {} => ~state.mod.absent

\* A program with companions is built with forst from the one place that the project now says, whatever the
\* go.mod and the go.work that earlier reloads left and whether or not tidy was skipped.
BuildsAgainstRuntime ==
    Building /\ needsForstCompilerModule(state.out) =>
        Providers(state.mod, state.work, BuildEnv(state)) = {state.says.link.dir}

\* A program with companions is built with a go.mod that requires what the sandbox imports, unless tidy was
\* skipped although the imports are not those of the last tidy.
RequiresImported ==
    Building /\ needsForstCompilerModule(state.out) /\ (state.skipped => Imported(state) = state.tidiedFor) =>
        {r[1] : r \in state.mod.requires} = Imported(state)

SandboxSound == CompanionsLinked /\ BuildsAgainstRuntime /\ RequiresImported
=============================================================================
