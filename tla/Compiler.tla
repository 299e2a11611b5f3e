------------------------------ MODULE Compiler ------------------------------
(***************************************************************************)
(* Parts of the compiler beside its incremental session: a behaviour is    *)
(* the session's, or about one bounded input of another part.              *)
(***************************************************************************)
EXTENDS MCDevSession, DevSandbox

Resolving == INSTANCE Fields
Emitting == INSTANCE Lowering
Loading == INSTANCE Packages

\* The parts by what they promise.
ResolutionInputs == [part : {"fields"}, case : Resolving!FieldInputs]
OfResolution == subject.part \in {"fields"}
CodegenInputs == [part : {"lowering"}, case : Emitting!LoweringInputs]
OfCodegen == subject.part \in {"lowering"}

LoadingInputs == [part : {"linking"}, case : LinkingInputs] \cup [part : {"packages"}, case : Loading!PackagesInputs]
OfLoading == subject.part \in {"linking", "packages"}

SessionIdle ==
    /\ tick = 0 /\ disk = Nothing /\ changed = NoFile /\ due = FALSE /\ last = NoFile
    /\ cache = [f \in Files |-> NoEntry] /\ modResult = Nothing /\ modPrint = Nothing
    /\ pc = "idle" /\ todo = {} /\ cur = NoFile /\ curFp = 0
    /\ merged = Nothing /\ parsed = Nothing /\ atStart = Nothing

CompilerInit ==
    \/ subject = [part |-> "session"] /\ Stateless /\ Init
    \/ subject \in ResolutionInputs /\ Stateless /\ SessionIdle
    \/ subject \in CodegenInputs /\ Stateless /\ SessionIdle
    \/ subject \in LoadingInputs /\ Stateless /\ SessionIdle
    \/ SandboxInit /\ SessionIdle
CompilerNext ==
    \/ subject.part = "session" /\ Next /\ UNCHANGED <<subject, state>>
    \/ subject.part \notin {"session", "sandbox"} /\ Compute /\ UNCHANGED vars
    \/ SandboxNext /\ UNCHANGED vars
CompilerSpec == CompilerInit /\ [][CompilerNext]_<<subject, state, vars>>

ResolvedWell(p) == CASE p.part = "fields" -> Resolving!FieldsSound(p.case)
EmittedWell(p) == CASE p.part = "lowering" -> Emitting!LoweringSound(p.case)
LoadedWell(p) ==
    CASE p.part = "linking" -> LinkingSound(p.case) [] p.part = "packages" -> Loading!PackagesSound(p.case)

\* What the checker's searches resolve is what the reference definitions resolve: FieldsSound, stated where
\* it is defined.
ResolutionSound == OfResolution /\ Computed => ResolvedWell(subject)

\* The code emitted for an accepted program means what the program means: LoweringSound, stated where it
\* is defined.
CodegenSound == OfCodegen /\ Computed => EmittedWell(subject)

\* The project is loaded and linked as its files say: LinkingSound and PackagesSound, stated where they are
\* defined, and over the reloads of a dev session SandboxSound.
LoadingSound == (OfLoading /\ Computed => LoadedWell(subject)) /\ SandboxSound
=============================================================================
