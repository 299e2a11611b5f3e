------------------------------- MODULE Labels -------------------------------
(***************************************************************************)
(* Jumps in a function body: what the type checker demands of break,       *)
(* continue, fallthrough, goto and labels (inference first, then the       *)
(* labelChecker of infer_goto.go, which keeps the label scopes the editor  *)
(* asks for), against the rules of Go, which the generated program must    *)
(* satisfy.                                                                *)
(*                                                                         *)
(* A statement is a record: its kind k, a label l ("" for none) and its    *)
(* bodies bs.  "lit" is a call that is passed a function literal.  A block *)
(* is the sequence of indexes that leads to it (statement, body,           *)
(* statement, body ...), a statement the block followed by its index, so   *)
(* that the lexicographic order is the order in the file.                  *)
(***************************************************************************)
EXTENDS Integers, Sequences, FiniteSets, SequencesExt

Stmt(k, l, bs) == [k |-> k, l |-> l, bs |-> bs]
Inner(s) == s.bs[1][1]
RECURSIVE Unlabeled(_)
Unlabeled(s) == IF s.k = "labeled" THEN Unlabeled(Inner(s)) ELSE s
RECURSIVE StmtsAt(_, _)
StmtsAt(body, block) == IF block = <<>> THEN body
                        ELSE StmtsAt(Unlabeled(body[block[1]]).bs[block[2]], SubSeq(block, 3, Len(block)))
ParentOf(block) == SubSeq(block, 1, Len(block) - 2)

-----------------------------------------------------------------------------
(* Inference: which statements may stand where. *)

HasLoopLabel(env, l) == l \in env.labels
InferBreak(s, env) == IF s.l # "" THEN HasLoopLabel(env, s.l) ELSE env.loops > 0
InferContinue(s, env) == IF s.l # "" THEN HasLoopLabel(env, s.l) ELSE env.loops > 0
InferFallthrough(env) == env.switches > 0
InForBody(s, env) == [env EXCEPT !.loops = @ + 1, !.labels = IF s.l # "" THEN @ \cup {s.l} ELSE @]
InSwitch(env) == [env EXCEPT !.switches = @ + 1]
(* pushLoopLabelScope: the labels of the enclosing loops are hidden, the depths are not. *)
InFunctionLiteral(env) == [env EXCEPT !.labels = {}]
InFunction == [labels |-> {}, loops |-> 0, switches |-> 0]

(* The labels, gotos and labelled breaks and continues of a block, in order; *)
(* a function literal is checked on its own.                                 *)
LabelDecl(b, i, l, isFor) == [e |-> "label", l |-> l, block |-> b, index |-> i, isFor |-> isFor]
RECURSIVE WalkBlock(_, _), WalkStmt(_, _, _)
WalkBodies(b, i, s) == FlattenSeq([j \in DOMAIN s.bs |-> WalkBlock(b \o <<i, j>>, s.bs[j])])
WalkStmt(b, i, s) ==
    CASE s.k = "labeled" -> <<LabelDecl(b, i, s.l, Inner(s).k = "for")>> \o WalkStmt(b, i, Inner(s))
      [] s.k = "for" -> (IF s.l # "" THEN <<LabelDecl(b, i, s.l, TRUE)>> ELSE <<>>) \o WalkBodies(b, i, s)
      [] s.k \in {"goto", "break", "continue"} ->
            IF s.l # "" THEN <<[e |-> s.k, l |-> s.l, block |-> b, index |-> i, isFor |-> FALSE]>> ELSE <<>>
      [] s.k \in {"if", "switch", "ensure", "with"} -> WalkBodies(b, i, s)
      [] OTHER -> <<>>
WalkBlock(b, stmts) == FlattenSeq([i \in DOMAIN stmts |-> WalkStmt(b, i, stmts[i])])

JumpsIntoBlockBelow(from, to) == IsStrictPrefix(from, to)
JumpsIntoBlock(from, to) == /\ from # to
                            /\ IsStrictPrefix(from, to) \/ ~IsStrictPrefix(to, from)

RECURSIVE CommonBlock(_, _)
CommonBlock(from, to) == IF from = to THEN from
                         ELSE IF Len(from) > Len(to) THEN CommonBlock(ParentOf(from), to)
                         ELSE IF Len(to) > Len(from) THEN CommonBlock(from, ParentOf(to))
                         ELSE CommonBlock(ParentOf(from), ParentOf(to))

(* The index of the statement of ancestor that holds the block; 0 when the *)
(* search does not know the statement.  An ensure is a value in the tree,  *)
(* and statementContainsBlock has no case for it.                          *)
StatementContainsBlock(s) == Unlabeled(s).k \in {"for", "if", "switch", "with"}
IndexInAncestor(body, block, index, ancestor) ==
    IF block = ancestor THEN index
    ELSE LET i == block[Len(ancestor) + 1]
         IN IF StatementContainsBlock(StmtsAt(body, ancestor)[i]) THEN i ELSE 0

DeclNamesIntroduced(s) == Unlabeled(s).k = "declare"

JumpsOverDecl(body, g, target) ==
    LET common == CommonBlock(g.block, target.block)
        gIdx == IndexInAncestor(body, g.block, g.index, common)
        lIdx == IndexInAncestor(body, target.block, target.index, common)
    IN /\ gIdx > 0 /\ lIdx > 0 /\ gIdx < lIdx
       /\ \E i \in gIdx + 1 .. lIdx : DeclNamesIntroduced(StmtsAt(body, common)[i])

Declared(found, l) == {d \in Range(found) : d.e = "label" /\ d.l = l}
UsesOf(found, l) == {u \in Range(found) : u.e # "label" /\ u.l = l}

ResolveGoto(body, found, g) ==
    \E d \in Declared(found, g.l) : ~JumpsIntoBlock(g.block, d.block) /\ ~JumpsOverDecl(body, g, d)
ResolveBreak(found, b) == \E d \in Declared(found, b.l) : d.isFor

CheckFunctionLabels(body) ==
    LET found == WalkBlock(<<>>, body)
    IN /\ \A i, j \in DOMAIN found : found[i].e = "label" /\ found[j].e = "label" /\ found[i].l = found[j].l => i = j
       /\ \A x \in Range(found) : /\ x.e = "goto" => ResolveGoto(body, found, x)
                                  /\ x.e \in {"break", "continue"} => ResolveBreak(found, x)
                                  /\ x.e = "label" => UsesOf(found, x.l) # {}

RECURSIVE InferBody(_, _)
InferStmt(t, env) ==
    LET s == Unlabeled(t)
        In(inner) == \A j \in DOMAIN s.bs : InferBody(s.bs[j], inner)
    IN CASE s.k = "break" -> InferBreak(s, env)
         [] s.k = "continue" -> InferContinue(s, env)
         [] s.k = "fallthrough" -> InferFallthrough(env)
         [] s.k = "for" -> In(InForBody(s, env))
         [] s.k = "switch" -> In(InSwitch(env))
         [] s.k = "lit" -> In(InFunctionLiteral(env)) /\ CheckFunctionLabels(s.bs[1])
         [] OTHER -> In(env)
InferBody(body, env) == \A i \in DOMAIN body : InferStmt(body[i], env)

(* inferFunctionNode: the statements of the body, then its labels. *)
AcceptsJumps(body) == InferBody(body, InFunction) /\ CheckFunctionLabels(body)

-----------------------------------------------------------------------------
(* What the editor is told: the labels of every function body with their   *)
(* uses, and the lines the body is taken to span, which are those of the   *)
(* names walkLabelSpans visits.                                            *)

NotAfter(a, b) == \/ IsPrefix(a, b)
                  \/ \E i \in 1 .. Len(a) : /\ i <= Len(b) /\ a[i] < b[i]
                                            /\ \A j \in 1 .. i - 1 : a[j] = b[j]

RECURSIVE WalkLabelSpans(_, _)
WalkLabelSpans(b, stmts) ==
    UNION {LET s == Unlabeled(stmts[i])
           IN (IF s.k \in {"declare", "goto"} \/ s.l # "" \/ stmts[i].l # "" THEN {b \o <<i>>} ELSE {})
              \cup (IF s.k \in {"for", "if", "switch"}
                    THEN UNION {WalkLabelSpans(b \o <<i, j>>, s.bs[j]) : j \in DOMAIN s.bs} ELSE {})
           : i \in DOMAIN stmts}

(* The bodies of a function: its own and those of the literals in it. *)
RECURSIVE FunctionBodies(_, _)
FunctionBodies(b, stmts) ==
    UNION {LET s == Unlabeled(stmts[i])
           IN UNION {(IF s.k = "lit" THEN {b \o <<i, j>>} ELSE {}) \cup FunctionBodies(b \o <<i, j>>, s.bs[j])
                     : j \in DOMAIN s.bs}
           : i \in DOMAIN stmts}

PersistLabelScope(body, root) ==
    LET found == WalkBlock(root, StmtsAt(body, root))
    IN [lines |-> WalkLabelSpans(root, StmtsAt(body, root)),
        labels |-> {[decl |-> d, uses |-> UsesOf(found, d.l)] : d \in {x \in Range(found) : x.e = "label"}}]
LabelScopes(body) == {PersistLabelScope(body, root) : root \in {<<>>} \cup FunctionBodies(<<>>, body)}

LabelBindingAtSpan(body, x) == {b \in UNION {s.labels : s \in LabelScopes(body)} : b.decl = x \/ x \in b.uses}
LabelsInScopeAt(body, line) ==
    {b.decl.l : b \in UNION {s.labels : s \in {t \in LabelScopes(body) :
        t.lines = {} \/ \E first, last \in t.lines : NotAfter(first, line) /\ NotAfter(line, last)}}}

-----------------------------------------------------------------------------
(* The rules of Go, on the statements of a body with their places: fn is   *)
(* the function body a statement belongs to.  A labelled statement and its *)
(* label are at one place.                                                 *)

RECURSIVE SitesIn(_, _, _)
SitesIn(fn, b, stmts) ==
    UNION {LET t == stmts[i]
               s == Unlabeled(t)
           IN {[at |-> b \o <<i>>, fn |-> fn, s |-> x] : x \in {t, s}}
              \cup UNION {SitesIn(IF s.k = "lit" THEN b \o <<i, j>> ELSE fn, b \o <<i, j>>, s.bs[j]) : j \in DOMAIN s.bs}
           : i \in DOMAIN stmts}

BlockOf(x) == Front(x.at)
LabelsOf(x) == IF x.s.k \in {"labeled", "for"} THEN {x.s.l} \ {""} ELSE {}
LabelsAt(sites, x) == UNION {LabelsOf(y) : y \in {z \in sites : z.at = x.at}}
Jump(x) == x.s.k \in {"goto", "break", "continue"}
Enclosing(sites, x) == {y \in sites : y.fn = x.fn /\ y.s.k # "labeled" /\ IsStrictPrefix(y.at, x.at)}

(* A goto reaches a label of a block around it, and no declaration of that *)
(* block between the two; `use` declares too.                              *)
Passed(sites, x, d) ==
    {y \in sites : /\ y.s.k \in {"declare", "use"}
                   /\ BlockOf(y) = BlockOf(d)
                   /\ x.at[Len(d.at)] < Last(y.at) /\ Last(y.at) < Last(d.at)}
LabelSites(sites, x) == {y \in sites : y.fn = x.fn /\ x.s.l \in LabelsOf(y)}
Reaches(sites, x, d) == IsPrefix(BlockOf(d), BlockOf(x)) /\ Passed(sites, x, d) = {}

BreaksOff(sites, x, kinds) ==
    \E y \in Enclosing(sites, x) : y.s.k \in kinds /\ (x.s.l = "" \/ x.s.l \in LabelsAt(sites, y))

(* The last statement of a clause that another clause follows. *)
FallsThrough(sites, x) ==
    \E y \in Enclosing(sites, x) :
        LET n == Len(y.at)
        IN /\ y.s.k = "switch" /\ Len(x.at) = n + 2
           /\ x.at[n + 1] < Len(y.s.bs) /\ Last(x.at) = Len(y.s.bs[x.at[n + 1]])

GoBreaks(sites, x) ==
    CASE x.s.k = "goto" -> ~\E d \in LabelSites(sites, x) : Reaches(sites, x, d)
      [] x.s.k = "break" -> ~BreaksOff(sites, x, {"for", "switch"})
      [] x.s.k = "continue" -> ~BreaksOff(sites, x, {"for"})
      [] x.s.k = "fallthrough" -> ~FallsThrough(sites, x)
      [] LabelsOf(x) # {} -> \/ \A y \in sites : y.fn = x.fn /\ Jump(y) => y.s.l # x.s.l
                             \/ \E y \in sites : y.fn = x.fn /\ y.at # x.at /\ x.s.l \in LabelsOf(y)
      [] OTHER -> FALSE

(* Where the checker may be more lenient than Go, although its comment and *)
(* the roadmap promise Go's rules: a break or continue in a function       *)
(* literal that stands in a loop; a fallthrough anywhere in a switch; a    *)
(* goto over a `use`, or out of an ensure block over anything.             *)
Lenient(sites, x) ==
    CASE x.s.k \in {"break", "continue"} ->
            x.s.l = "" /\ \E y \in sites : y.s.k = "for" /\ IsStrictPrefix(y.at, x.at)
      [] x.s.k = "fallthrough" -> \E y \in sites : y.s.k = "switch" /\ IsStrictPrefix(y.at, x.at)
      [] x.s.k = "goto" ->
            \E d \in LabelSites(sites, x) :
                /\ IsPrefix(BlockOf(d), BlockOf(x))
                /\ \/ \A y \in Passed(sites, x, d) : y.s.k = "use"
                   \/ \E y \in Enclosing(sites, x) : y.s.k = "ensure" /\ BlockOf(y) = BlockOf(d)
      [] OTHER -> FALSE

(* Where it may be stricter: a break that leaves a switch, outside a loop or *)
(* by label; a forward goto to a label whose own statement is a            *)
(* declaration.                                                            *)
Stricter(sites, x) ==
    \/ /\ x.s.k = "break"
       /\ IF x.s.l # "" THEN ~BreaksOff(sites, x, {"for"})
          ELSE \A y \in sites : y.s.k = "for" => ~IsStrictPrefix(y.at, x.at)
    \/ /\ x.s.k = "goto"
       /\ \E d \in LabelSites(sites, x) :
             /\ Unlabeled(d.s).k = "declare"
             /\ IsPrefix(BlockOf(d), BlockOf(x)) /\ x.at[Len(d.at)] < Last(d.at)
             /\ ~\E y \in Enclosing(sites, x) : y.s.k = "ensure" /\ BlockOf(y) = BlockOf(d)

(* A body Go rejects is rejected, unless Go has nothing against it but     *)
(* statements of Lenient; one Go accepts is accepted, unless a statement   *)
(* of it is in Stricter.  Nothing is claimed of bodies in between.  For an *)
(* accepted body every jump is bound to one label, which is of its own     *)
(* function, and is offered it, unless it is in a block of an ensure or    *)
(* with.                                                                   *)
JumpsSound(body) ==
    LET sites == SitesIn(<<>>, <<>>, body)
    IN /\ (\E x \in sites : GoBreaks(sites, x) /\ ~Lenient(sites, x)) => ~AcceptsJumps(body)
       /\ (\A x \in sites : ~GoBreaks(sites, x) /\ ~Stricter(sites, x)) => AcceptsJumps(body)
       /\ AcceptsJumps(body) =>
             \A x \in sites : Jump(x) /\ x.s.l # "" =>
                LET use == [e |-> x.s.k, l |-> x.s.l, block |-> BlockOf(x), index |-> Last(x.at), isFor |-> FALSE]
                    found == LabelBindingAtSpan(body, use)
                IN /\ Cardinality(found) = 1
                   /\ \A b \in found : \E d \in LabelSites(sites, x) : d.at = b.decl.block \o <<b.decl.index>>
                   /\ \/ x.s.l \in LabelsInScopeAt(body, x.at)
                      \/ \E y \in Enclosing(sites, x) : y.s.k \in {"ensure", "with"}

-----------------------------------------------------------------------------
Leaf(k, l) == Stmt(k, l, <<>>)
Labelled(s) == Stmt("labeled", "l", <<<<s>>>>)
Leaves == {Leaf("call", ""), Leaf("declare", ""), Leaf("use", ""), Leaf("goto", "l"), Leaf("break", ""),
           Leaf("break", "l"), Leaf("continue", ""), Leaf("continue", "l"),
           Labelled(Leaf("call", "")), Labelled(Leaf("declare", ""))}
Around(body) == {Stmt("if", "", <<body>>), Stmt("if", "", <<<<Leaf("call", "")>>, body>>), Stmt("for", "", <<body>>),
                 Stmt("for", "l", <<body>>), Stmt("switch", "", <<body>>), Labelled(Stmt("switch", "", <<body>>)),
                 Stmt("ensure", "", <<body>>), Labelled(Stmt("ensure", "", <<body>>)), Stmt("with", "", <<body>>),
                 Stmt("lit", "", <<body>>)}
Clauses(x) == {Stmt("switch", "", <<<<x, Leaf("fallthrough", "")>>, <<Leaf("call", "")>>>>),
               Stmt("switch", "", <<<<Leaf("fallthrough", ""), x>>, <<Leaf("call", "")>>>>),
               Stmt("switch", "", <<<<Leaf("call", "")>>, <<Leaf("fallthrough", "")>>>>)}
Once == UNION {Around(<<x>>) : x \in Leaves} \cup UNION {Clauses(x) : x \in Leaves}
Twice == UNION {Around(<<x, y>>) : x, y \in Leaves}
Nested == UNION {Around(<<c>>) : c \in Once}
Ends == {Leaf("goto", "l"), Labelled(Leaf("call", "")), Labelled(Leaf("declare", ""))}
Bodies == {<<x, y, z>> : x, y, z \in Leaves} \cup {<<c>> : c \in Twice \cup Nested}
          \cup {<<c, x, y>> : c \in Once, x \in Leaves, y \in Ends}
          \cup {<<x, c>> : x \in Ends, c \in Twice \cup Nested}
          \cup {<<c, d>> : c \in Around(<<Leaf("goto", "l")>>), d \in Around(<<Labelled(Leaf("call", ""))>>)}
=============================================================================
