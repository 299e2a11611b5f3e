------------------------------- MODULE Checker -------------------------------
(***************************************************************************)
(* The type checker's algorithms on bounded inputs: the jumps of a         *)
(* function body, whether a type will do for another, calls of generic and *)
(* variadic functions, the errors functions fail with, structural hashes   *)
(* and scopes.                                                             *)
(***************************************************************************)
EXTENDS Subject

Jumps == INSTANCE Labels
Calling == INSTANCE Calls
Scoping == INSTANCE Scopes

CheckerInputs == [part : {"jumps"}, body : Jumps!Bodies]
                 \cup [part : {"compatible"}, pair : Calling!CompatInputs]
                 \cup [part : {"call"}, call : Calling!CallInputs]
                 \cup [part : {"error sets"}, program : Calling!ErrorInputs]
                 \cup [part : {"hash"}, node : Scoping!HashInputs]
                 \cup [part : {"scopes"}, program : Scoping!ScopeInputs]
CheckerInit == subject \in CheckerInputs
OfChecker == subject.part \in {"jumps", "compatible", "call", "error sets", "hash", "scopes"}
CheckerNext == OfChecker /\ Compute

CheckedWell(p) ==
    CASE p.part = "jumps" -> Jumps!JumpsSound(p.body)
      [] p.part = "compatible" -> Calling!TypesInOrder(p.pair)
      [] p.part = "call" -> Calling!CallsInOrder(p.call)
      [] p.part = "error sets" -> Calling!ErrorSetsInOrder(p.program)
      [] p.part = "hash" -> Scoping!HashesSound(p.node)
      [] p.part = "scopes" -> Scoping!ScopesSound(p.program)

\* The checker's answers are those of the reference definitions: JumpsSound, TypesInOrder,
\* CallsInOrder, ErrorSetsInOrder, HashesSound and ScopesSound, stated where they are defined.
CheckerSound == OfChecker /\ Computed => CheckedWell(subject)
=============================================================================
