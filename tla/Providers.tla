----------------------------- MODULE Providers -----------------------------
(***************************************************************************)
(* Providers: inference of the contracts a function needs (use sites and   *)
(* transitive calls), their checking in one package and across a module,   *)
(* the lowering of every call to a struct of provider values, and the      *)
(* execution of the lowered program.  The input is a module of two         *)
(* packages: the use sites of its functions and its calls, each with the   *)
(* with-blocks that enclose it, outermost first.                           *)
(***************************************************************************)
EXTENDS Naturals, Sequences, FiniteSets, SequencesExt, Subject

VARIABLES inferred,  \* FunctionProviders after the package pass and after the merge
          frame,     \* the running function and the values in its struct
          supply,    \* history: the with-block that last wired each contract
          bypassed   \* history: a call took a value past an inner with-block
providersVars == <<inferred, frame, supply, bypassed>>

Keys == {"Logger", "Clock"}
Fns  == {<<"main", "main">>, <<"main", "Run">>, <<"main", "step">>,
         <<"auth", "Run">>, <<"auth", "Log">>, <<"auth", "TestRun">>}
IsProvidersWiringRoot(f) == f[2] \in {"main", "TestRun"}   \* TestRun(t *testing.T)
Pairs == {<<f, g>> \in Fns \X Fns :
             /\ f # g /\ ~IsProvidersWiringRoot(g)
             /\ (f[1] = "auth" => g[1] = "auth")          \* no import cycle
             /\ (f[1] # g[1] => g[2] \in {"Run", "Log"})} \* exported only
Withs == {<<>>, <<[keys |-> {"Logger"}, bundle |-> FALSE]>>,
          <<[keys |-> Keys, bundle |-> TRUE]>>,
          <<[keys |-> {"Logger"}, bundle |-> FALSE], [keys |-> {"Logger"}, bundle |-> TRUE]>>,
          <<[keys |-> {"Logger"}, bundle |-> FALSE], [keys |-> Keys, bundle |-> FALSE]>>}
Calls == {[caller |-> p[1], callee |-> p[2], withs |-> w] : p \in Pairs, w \in Withs}
\* Modules with a call from a wiring root, two further calls and two use sites.
ProvidersCases ==
   {[part |-> "providers", direct |-> [f \in Fns |-> {k \in Keys : <<f, k>> \in u}], calls |-> {a, b, c}] :
      u \in {{<<f, "Logger">>, <<g, k>>} : f \in {<<"main", "step">>, <<"auth", "Log">>},
                                        g \in {<<"main", "Run">>, <<"auth", "Log">>}, k \in Keys},
      a \in {e \in Calls : IsProvidersWiringRoot(e.caller)}, b \in {e \in Calls : ~IsProvidersWiringRoot(e.caller)},
      c \in {e \in Calls : ~IsProvidersWiringRoot(e.caller) /\ e.withs = <<>>}}

IsCross(e) == e.caller[1] # e.callee[1]
IsPublicExport(f) == f[2] \in {"Run", "Log", "TestRun"}
(***************************************************************************)
(* Scopes.  An inner with-block overlays the outer ones.                   *)
(***************************************************************************)
MergeScopeStack(withs) == UNION {withs[i].keys : i \in DOMAIN withs}
Missing(slots, e) == slots[e.callee] \ MergeScopeStack(e.withs)
(***************************************************************************)
(* The fixed points.  The intra-package one looks a callee up by its bare  *)
(* name in the caller's package, calls through an import included: their   *)
(* target package is only resolved for the module-wide one.                *)
(***************************************************************************)
IntraEdge(e) == [e EXCEPT !.callee = <<e.caller[1], e.callee[2]>>]
IntraEdgesFromCallEdges(p) ==
   {IntraEdge(e) : e \in {x \in p.calls : IntraEdge(x).callee \in Fns}}
AddSlots(slots, edges) ==
   [f \in Fns |-> slots[f] \cup UNION {Missing(slots, e) : e \in {x \in edges : x.caller = f}}]
RECURSIVE PropagateUntilStable(_, _)
PropagateUntilStable(slots, edges) ==
   LET grown == AddSlots(slots, edges)
   IN IF grown = slots THEN slots ELSE PropagateUntilStable(grown, edges)
PropagateIntraPackageFixedPoint(p) ==
   PropagateUntilStable(p.direct, IntraEdgesFromCallEdges(p))
PropagateModuleFixedPoint(p, slots) == PropagateUntilStable(slots, {e \in p.calls : IsCross(e)})
Infer(p) == LET slots == PropagateIntraPackageFixedPoint(p)
            IN [package |-> slots, module |-> PropagateModuleFixedPoint(p, slots)]
(***************************************************************************)
(* The checks: each call site, exported functions of package main (on the  *)
(* slots of the package pass only), then the wiring roots.                 *)
(***************************************************************************)
CallerForwards(slots, e) == slots[e.callee] \subseteq slots[e.caller]
ForwardAnyway(slots, e) == Missing(slots, e) = {} \/ ~IsProvidersWiringRoot(e.caller)
ValidateCallSite(slots, e) ==
   \/ Missing(slots, e) = {}
   \/ ~IsProvidersWiringRoot(e.caller) /\ CallerForwards(slots, e)
ValidateIntraCallSites(p, slots) == \A e \in p.calls : IsCross(e) \/ ValidateCallSite(slots, e)
ValidateSidecarExportable(slots) ==
   \A f \in Fns : f[1] = "main" /\ IsPublicExport(f) => slots[f] = {}
FinishProvidersChecking(p, slots) == ValidateIntraCallSites(p, slots) /\ ValidateSidecarExportable(slots)
ValidateWiringRoots(slots) == \A f \in Fns : IsProvidersWiringRoot(f) => slots[f] = {}
ValidateModuleProviders(p, slots) ==
   /\ \A e \in p.calls : IsCross(e) => ValidateCallSite(slots, e)
   /\ ValidateIntraCallSites(p, slots)
   /\ ValidateWiringRoots(slots)
Accepted == /\ FinishProvidersChecking(subject, inferred.package)
            /\ ValidateModuleProviders(subject, inferred.module)
(***************************************************************************)
(* Diagnostics: the shortest chain of calls from a function to a use site. *)
(***************************************************************************)
OutgoingCallEdges(p, fs) == {e.callee : e \in {x \in p.calls : x.caller \in fs}}
RECURSIVE WalkToDirectProviderUse(_, _, _, _)
WalkToDirectProviderUse(p, queue, visited, k) ==
   IF \E f \in queue : k \in p.direct[f] THEN {f \in queue : k \in p.direct[f]}
   ELSE LET next == OutgoingCallEdges(p, queue) \ visited
        IN IF next = {} THEN {} ELSE WalkToDirectProviderUse(p, next, visited \cup next, k)
(***************************************************************************)
(* Lowering.  A value comes from the struct parameter of the caller (level *)
(* 0) or from a with-block (its level).  The merged frame keeps explicit   *)
(* fields of every level apart from the one bundle expression, and looks   *)
(* for a field first.  A call into another package never reads the frame.  *)
(***************************************************************************)
NotWired == 99
WiringFieldExpr(withs, k) ==
   LET fields  == {i \in DOMAIN withs : ~withs[i].bundle /\ k \in withs[i].keys}
       bundles == {i \in DOMAIN withs : withs[i].bundle}
   IN IF fields # {} THEN CHOOSE i \in fields : \A j \in fields : j <= i
      ELSE IF bundles # {} THEN CHOOSE i \in bundles : \A j \in bundles : j <= i
      ELSE NotWired
BuildCrossPackageProvidersLiteral(slots, e) == [k \in slots[e.callee] |-> 0]
BuildProvidersStructLiteral(slots, e) ==
   [k \in slots[e.callee] |-> IF e.withs = <<>> THEN 0 ELSE WiringFieldExpr(e.withs, k)]
TransformFunctionCallArgs(slots, e) ==
   IF IsCross(e) THEN BuildCrossPackageProvidersLiteral(slots, e) ELSE BuildProvidersStructLiteral(slots, e)
\* The emitted Go compiles: every value selected exists where it is read.
Compiles(slots, e) ==
   LET lit == TransformFunctionCallArgs(slots, e)
   IN \A k \in DOMAIN lit : /\ lit[k] # NotWired
                            /\ lit[k] = 0 => k \in slots[e.caller]
                            /\ lit[k] \in DOMAIN e.withs => k \in e.withs[lit[k]].keys
Builds == \A e \in subject.calls : Compiles(inferred.module, e)
(***************************************************************************)
(* Running an accepted module that builds, from main or from a test.       *)
(***************************************************************************)
Idle == [fn |-> <<>>, env |-> <<>>]
ProvidersIdle == inferred = <<>> /\ frame = Idle /\ supply = <<>> /\ bypassed = FALSE
ProvidersInit == /\ subject \in ProvidersCases /\ inferred = Infer(subject)
                 /\ frame = Idle /\ supply = <<>> /\ bypassed = FALSE
StartRoot ==
   /\ subject.part = "providers" /\ frame = Idle
   /\ ~(Accepted => ~Builds)           \* accepted, and the emitted Go compiles
   /\ \E f \in Fns : IsProvidersWiringRoot(f) /\ frame' = [fn |-> f, env |-> <<>>]
   /\ supply' = [k \in Keys |-> <<>>]
   /\ UNCHANGED <<bypassed, inferred, subject>>
Innermost(e, k) == LET s == {i \in DOMAIN e.withs : k \in e.withs[i].keys}
                   IN IF s = {} THEN 0 ELSE CHOOSE i \in s : \A j \in s : j <= i
\* Two calls that do not read the innermost with-block: one into another
\* package, and one under a bundle inside an explicit field.
PastInnerWith(e, k) == /\ Innermost(e, k) # 0
                       /\ \/ IsCross(e)
                          \/ /\ e.withs[Innermost(e, k)].bundle
                             /\ \E i \in DOMAIN e.withs : ~e.withs[i].bundle /\ k \in e.withs[i].keys
CallFunction ==
   /\ subject.part = "providers" /\ frame # Idle
   /\ \E e \in {x \in subject.calls : x.caller = frame.fn} :
        LET lit == TransformFunctionCallArgs(inferred.module, e)
        IN /\ frame' = [fn |-> e.callee,
                        env |-> [k \in DOMAIN lit |-> IF lit[k] = 0 THEN frame.env[k] ELSE <<e, lit[k]>>]]
           /\ supply' = [k \in Keys |-> IF Innermost(e, k) = 0 THEN supply[k] ELSE <<e, Innermost(e, k)>>]
           /\ bypassed' = (bypassed \/ \E k \in DOMAIN lit : PastInnerWith(e, k))
   /\ UNCHANGED <<inferred, subject>>
ProvidersNext == StartRoot \/ CallFunction
-----------------------------------------------------------------------------
\* What a function needs by the language specification: the contracts used
\* on some call path from it on which no with-block supplies them.
RECURSIVE PathNeeds(_, _, _)
PathNeeds(p, f, n) ==
   p.direct[f] \cup IF n = 0 THEN {} ELSE
      UNION {PathNeeds(p, e.callee, n - 1) \ MergeScopeStack(e.withs) : e \in {x \in p.calls : x.caller = f}}
Needs(p, f) == PathNeeds(p, f, Cardinality(Fns))
SameNameInTwoPackages(p) == \E e \in p.calls : IsCross(e) /\ IntraEdge(e).callee \in Fns
\* An inner with-block that supplies only part of what a forwarded callee
\* needs, or that surrounds a call into another package.
PartialWith == \E e \in subject.calls :
                 /\ e.withs # <<>> /\ inferred.module[e.callee] # {}
                 /\ IsCross(e) \/ Missing(inferred.module, e) # {}

\* (PropagateIntraPackageFixedPoint) Within one package the inferred slots are
\* exactly what the call paths need: mutual recursion neither loses nor
\* invents a requirement, and a with-block discharges only its own keys.
IntraExact ==
   subject.part = "providers" /\ (\A e \in subject.calls : ~IsCross(e)) =>
      inferred.module = [f \in Fns |-> Needs(subject, f)]
\* (MergeAndValidate) A module that the checker accepts has no unmet need at a
\* wiring root, although the two fixed points are not iterated together:
\* what the merge fails to propagate is caught at a call site.
AcceptedIsComplete ==
   subject.part = "providers" /\ Accepted =>
      \A f \in Fns : IsProvidersWiringRoot(f) => Needs(subject, f) = {}
\* (buildProvidersStructLiteral, buildCrossPackageProvidersLiteral) The
\* transformer can lower every call of a module the checker accepts, with
\* the exception of partial with-blocks.
AcceptedBuilds == subject.part = "providers" /\ Accepted => PartialWith \/ Builds
\* (transformUseStatement, wiringFieldExpr) At run time every use site finds
\* its contract in the struct of its function, and the value there is the
\* one wired by the innermost with-block on the call path.
UsesInnermost ==
   subject.part = "providers" /\ frame # Idle =>
      /\ subject.direct[frame.fn] \subseteq DOMAIN frame.env
      /\ ~bypassed => \A k \in DOMAIN frame.env : frame.env[k] = supply[k]
\* (walkToDirectProviderUse) The obligation chain of a diagnostic ends at a
\* function that uses the contract, for every slot of every function.
ChainEndsAtUse ==
   subject.part = "providers" /\ ~SameNameInTwoPackages(subject) =>
      \A f \in Fns : \A k \in inferred.module[f] :
         WalkToDirectProviderUse(subject, {f}, {f}, k) # {}
\* Everything the checker and the lowering of providers promise: exact
\* inference, complete checking, calls that can be lowered, innermost values
\* at run time, and diagnostics that lead to a use site.
ProvidersSound == IntraExact /\ AcceptedIsComplete /\ AcceptedBuilds /\ UsesInnermost /\ ChainEndsAtUse
\* "Error when exporting function with Providers(f) # {}" (SPEC.md, the sidecar
\* export gate): in a module the checker accepts, no exported function of
\* package main has slots after the merge.
ExportsAreRunnable ==
   subject.part = "providers" /\ Accepted => ValidateSidecarExportable(inferred.module)
=============================================================================
