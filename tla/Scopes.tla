------------------------------- MODULE Scopes -------------------------------
(***************************************************************************)
(* The scopes of the type checker.  Declarations are collected in a first  *)
(* pass that pushes a scope for each block, types are inferred in a second *)
(* that pushes them again, and the Go transformer restores them in a       *)
(* third.  Scopes are kept by structural key, so equal blocks collide and  *)
(* are told apart by node identity.                                        *)
(*                                                                         *)
(* A statement declares a name (decl), reads one (use) or owns blocks:     *)
(* arms are the branches of an if (the last is its else when els), the     *)
(* body of a for, a with or a function literal, the clauses of a switch,   *)
(* or the block of an ensure.  init is the name its header declares: an    *)
(* initialiser's or a literal's parameter.  name is what its header reads. *)
(* The identity of a node is its path: function, statement, arm,           *)
(* statement and so on; an if is also the owner of its first arm.          *)
(* Types and narrowing are left out: a symbol is the path that declared    *)
(* it.                                                                     *)
(***************************************************************************)
EXTENDS Hashes, TLC

NoName == <<>>
Stmt(kind, name, init, arms, els) == [kind |-> kind, name |-> name, init |-> init, arms |-> arms, els |-> els]
Decl(x) == Stmt("decl", x, NoName, <<>>, FALSE)
Read(x) == Stmt("use", x, NoName, <<>>, FALSE)
ReadNames == {"use", "ensure"}

\* FoldLeftDomain, each step on the value of the one before it.
InSequence(Op(_, _), base, seq) ==
    LET after[i \in 0..Len(seq)] ==
            IF i = 0 THEN base ELSE CHOOSE r \in {Op(t, i) : t \in {after[i - 1]}} : TRUE
    IN after[Len(seq)]

\* The syntax tree a statement stands for.
Declares(x) == Node("Assignment", <<>>, <<>>, <<>>, <<<<Var(x)>>, <<Leaf("IntLiteral", Yes)>>>>, <<>>)
Header(s) == IF s.init = NoName THEN Absent ELSE Declares(s.init)
RECURSIVE Tree(_)
Trees(stmts) == [i \in DOMAIN stmts |-> Tree(stmts[i])]
ArmEntry(s, k) == Entry(<<>>, IF s.els /\ k = Len(s.arms) THEN <<>> ELSE <<Var(s.name)>>, <<Trees(s.arms[k])>>)
Tree(s) ==
    CASE s.kind = "decl" -> Declares(s.name)
      [] s.kind = "use" -> CallOf(b, <<Var(s.name)>>)
      [] s.kind = "if" -> Node("If", <<>>, <<>>, <<Header(s), Var(s.name)>>, <<Trees(s.arms[1])>>,
                               [i \in 1..(Len(s.arms) - 1) |-> ArmEntry(s, i + 1)])
      [] s.kind = "for" -> Node("For", <<>>, <<>>, <<Header(s), Absent, Absent, Absent>>, <<Trees(s.arms[1])>>, <<>>)
      [] s.kind = "switch" -> Node("Switch", <<>>, <<>>, <<Header(s), Absent>>, <<>>,
                                   [k \in DOMAIN s.arms |-> ArmEntry(s, k)])
      [] s.kind = "ensure" -> Node("Ensure", <<>>, Yes, <<Var(s.name), Is(<<>>, <<a>>)>>,
                                   [k \in DOMAIN s.arms |-> Trees(s.arms[k])], <<>>)
      [] s.kind = "with" -> Node("With", <<>>, <<>>, <<Var(s.name)>>, <<Trees(s.arms[1])>>, <<>>)
      [] s.kind = "lit" -> Lit(<<Of("SimpleParam", s.init, <<Named(a)>>)>>, Trees(s.arms[1]))
ArmTree(s, k) ==
    CASE s.kind = "ensure" -> Leaf("EnsureBlock", <<>>)
      [] s.kind = "if" /\ s.els /\ k = Len(s.arms) -> Node("ElseBlock", <<>>, <<>>, <<>>, <<Trees(s.arms[k])>>, <<>>)
      [] s.kind = "if" -> Node("ElseIf", <<>>, <<>>, <<Var(s.name)>>, <<Trees(s.arms[k])>>, <<>>)
FunctionTree(f) ==
    Node("Function", f.name, <<>>, <<>>,
         <<<<>>, [i \in DOMAIN f.recv |-> Of("SimpleParam", a, <<Named(f.recv[i])>>)],
           <<Of("SimpleParam", f.param, <<Named(a)>>)>>, <<>>>>, <<>>)

\* ----- The scope stack -----

\* Scopes are numbered in the order of their creation, 1 is the global one.  A key is a structural
\* key, or one mixed with an identity.
GlobalKey == [hash |-> NilHash, id |-> <<>>]
BaseKey(tree, id) == [hash |-> HashScopeKey(tree, <<"id">>), id |-> IF tree.kind = "EnsureBlock" THEN id ELSE <<>>]
Disambiguated(key, id) == [key EXCEPT !.id = id]
NewScopeStack ==
    [arena |-> <<[parent |-> 0, node |-> <<>>, symbols |-> <<>>]>>, scopes |-> GlobalKey :> 1,
     nodeScopeHash |-> <<>>, current |-> 1, owners |-> <<>>, bound |-> <<>>, seen |-> <<>>, lost |-> FALSE]

ScopeNodesMatch(scope, id) == scope.node # <<>> /\ scope.node = id
ResolveScopeHashByShape(ss, base, id) == base
ResolveScopeHash(ss, base, id) ==
    IF base \in DOMAIN ss.scopes /\ ~ScopeNodesMatch(ss.arena[ss.scopes[base]], id)
    THEN Disambiguated(base, id)
    ELSE base
CacheNodeScopeHash(ss, id, key) == [ss EXCEPT !.nodeScopeHash = id :> key @@ @]
ReusableAnywhere(ss, key, id) ==
    key \in DOMAIN ss.scopes /\ ScopeNodesMatch(ss.arena[ss.scopes[key]], id)
Reusable(ss, key, id) ==
    /\ key \in DOMAIN ss.scopes
    /\ ScopeNodesMatch(ss.arena[ss.scopes[key]], id)
    /\ ss.arena[ss.scopes[key]].parent = ss.current
PushUnder(ss, key, id) ==
    IF Reusable(ss, key, id)
    THEN CacheNodeScopeHash([ss EXCEPT !.current = ss.scopes[key]], id, key)
    ELSE CacheNodeScopeHash(
            [ss EXCEPT !.arena = Append(@, [parent |-> ss.current, node |-> id, symbols |-> <<>>]),
                       !.current = Len(ss.arena) + 1,
                       !.scopes = key :> Len(ss.arena) + 1 @@ @], id, key)
PushScope(ss, tree, id) == PushUnder(ss, ResolveScopeHash(ss, BaseKey(tree, id), id), id)
PopScope(ss) ==
    IF ss.arena[ss.current].parent = 0 THEN ss ELSE [ss EXCEPT !.current = ss.arena[@].parent]
\* Every node the transformer restores was pushed, so its key is cached; the search by key that
\* follows a miss serves nodes parsed again.
FindScope(ss, id) ==
    IF id \in DOMAIN ss.nodeScopeHash /\ ss.nodeScopeHash[id] \in DOMAIN ss.scopes
    THEN ss.scopes[ss.nodeScopeHash[id]]
    ELSE 0
RestoreScope(ss, id) ==
    IF FindScope(ss, id) = 0 THEN [ss EXCEPT !.lost = TRUE] ELSE [ss EXCEPT !.current = FindScope(ss, id)]

StoreSymbol(ss, x, id) == [ss EXCEPT !.arena[ss.current].symbols = x :> id @@ @]
\* Merging keeps the symbol a scope already has.
RegisterSymbol(ss, x, id) ==
    IF x \in DOMAIN ss.arena[ss.current].symbols THEN ss ELSE StoreSymbol(ss, x, id)
Nobody == <<0>>
RECURSIVE LookupVariable(_, _, _)
LookupVariable(ss, scope, x) ==
    CASE scope = 0 -> Nobody
      [] x \in DOMAIN ss.arena[scope].symbols -> ss.arena[scope].symbols[x]
      [] OTHER -> LookupVariable(ss, ss.arena[scope].parent, x)
Note(ss, x, id) == [ss EXCEPT !.bound = id :> LookupVariable(ss, ss.current, x) @@ @]

\* ----- First pass: collecting -----

RECURSIVE CollectExplicitTypes(_, _, _)
CollectAll(ss, stmts, id) ==
    InSequence(LAMBDA t, i : CollectExplicitTypes(t, stmts[i], Append(id, i)), ss, stmts)
CollectArm(ss, s, k, id) == PopScope(CollectAll(PushScope(ss, ArmTree(s, k), Append(id, k)), s.arms[k], Append(id, k)))
CollectArms(ss, s, from, id) ==
    InSequence(LAMBDA t, k : IF k < from THEN t ELSE CollectArm(t, s, k, id), ss, s.arms)
CollectBodies(ss, s, id) ==
    InSequence(LAMBDA t, k : CollectAll(t, s.arms[k], Append(id, k)), ss, s.arms)
\* A function literal is an expression, which this pass does not enter.
CollectExplicitTypes(ss, s, id) ==
    CASE s.kind = "if" ->
            CollectArms(PopScope(CollectAll(PushScope(ss, Tree(s), id), s.arms[1], Append(id, 1))), s, 2, id)
      [] s.kind \in {"for", "switch", "with"} -> PopScope(CollectBodies(PushScope(ss, Tree(s), id), s, id))
      [] s.kind = "ensure" -> PopScope(CollectArms(PushScope(ss, Tree(s), id), s, 1, id))
      [] OTHER -> ss
\* Functions are registered by name, methods too: the last of a name stays.
CollectFunctionNode(ss, f, id) ==
    PopScope(CollectAll(StoreSymbol([PushScope(ss, FunctionTree(f), id) EXCEPT !.owners = f.name :> id @@ @],
                                    f.param, id), f.body, id))

\* ----- Second pass: inferring -----

DeclareHeader(ss, s, id) == IF s.init = NoName THEN ss ELSE StoreSymbol(ss, s.init, id)
RECURSIVE InferNodeType(_, _, _)
InferAll(ss, stmts, id) ==
    InSequence(LAMBDA t, i : InferNodeType(t, stmts[i], Append(id, i)), ss, stmts)
InferArm(ss, s, k, id) == PopScope(InferAll(PushScope(ss, ArmTree(s, k), Append(id, k)), s.arms[k], Append(id, k)))
InferArms(ss, s, from, id) ==
    InSequence(LAMBDA t, k : IF k < from THEN t ELSE InferArm(t, s, k, id), ss, s.arms)
InferBodies(ss, s, id) == InSequence(LAMBDA t, k : InferAll(t, s.arms[k], Append(id, k)), ss, s.arms)
\* The initialiser of an if is inferred before its scope is pushed.
InferIfStatement(ss, s, id) ==
    InferArms(PopScope(InferAll(PushScope(DeclareHeader(ss, s, id), Tree(s), id), s.arms[1], Append(id, 1))), s, 2, id)
InferHeadedBlock(ss, s, id) == PopScope(InferBodies(DeclareHeader(PushScope(ss, Tree(s), id), s, id), s, id))
InferNodeType(ss, s, id) ==
    CASE s.kind = "decl" -> StoreSymbol(ss, s.name, id)
      [] s.kind = "use" -> Note(ss, s.name, id)
      [] s.kind = "if" -> InferIfStatement(ss, s, id)
      [] s.kind \in {"for", "switch", "with", "lit"} -> InferHeadedBlock(ss, s, id)
      [] s.kind = "ensure" -> InferArms(Note(ss, s.name, id), s, 1, id)
InferFunctionNode(ss, f, id) == PopScope(InferAll(RegisterSymbol(RestoreScope(ss, id), f.param, id), f.body, id))

CollectProgram(program) ==
    InSequence(LAMBDA t, i : CollectFunctionNode(t, program[i], <<i>>), NewScopeStack, program)
InferProgram(program, ss) ==
    InSequence(LAMBDA t, i : InferFunctionNode(t, program[i], <<i>>), ss, program)

\* ----- Third pass: the transformer -----

\* How nodes shown: an if without its bodies, else-ifs and elses with theirs.
Shown(s) ==
    CASE s.kind = "if" -> <<"if", s.name, s.init, <<Len(s.arms), s.els>>>>
      [] s.kind \in {"for", "lit"} -> <<s.kind>>
      [] OTHER -> <<s.kind, s.name>>
Shows(stmts) == [i \in DOMAIN stmts |-> Shown(stmts[i])]
ShownArm(s, k) == <<IF s.els /\ k = Len(s.arms) THEN <<>> ELSE s.name, Shows(s.arms[k])>>
IsElse(s, k) == s.els /\ k = Len(s.arms)
Found(id, shown) == [id |-> id, shown |-> shown]

\* The nodes a search comes across, in its order: ifs (not those in the body of another if),
\* else-ifs, and elses (not those in another else).
RECURSIVE Registered(_, _, _)
RegisteredAll(what, stmts, id) ==
    FlattenSeq([i \in DOMAIN stmts |-> Registered(what, stmts[i], Append(id, i))])
RegisteredArms(what, s, id, arms) ==
    FlattenSeq([k \in DOMAIN s.arms |-> IF k \in arms THEN RegisteredAll(what, s.arms[k], Append(id, k)) ELSE <<>>])
Arms(s, id, IsOne(_)) ==
    FlattenSeq([k \in DOMAIN s.arms |-> IF IsOne(k) THEN <<Found(Append(id, k), ShownArm(s, k))>> ELSE <<>>])
RegisteredIf(s, id) ==
    IF s.kind = "if"
    THEN <<Found(id, Shown(s))>> \o RegisteredArms("if", s, id, 2..Len(s.arms))
    ELSE RegisteredArms("if", s, id, IF s.kind \in {"for", "with", "ensure"} THEN DOMAIN s.arms ELSE {})
RegisteredElseIf(s, id) ==
    IF s.kind = "if"
    THEN Arms(s, id, LAMBDA k : k > 1 /\ ~IsElse(s, k)) \o RegisteredArms("elseif", s, id, DOMAIN s.arms)
    ELSE RegisteredArms("elseif", s, id, IF s.kind \in {"for", "with"} THEN DOMAIN s.arms ELSE {})
RegisteredElse(s, id) ==
    IF s.kind = "if"
    THEN Arms(s, id, LAMBDA k : IsElse(s, k))
            \o RegisteredArms("else", s, id, {k \in DOMAIN s.arms : ~IsElse(s, k)})
    ELSE RegisteredArms("else", s, id, IF s.kind \in {"for", "with"} THEN DOMAIN s.arms ELSE {})
Registered(what, s, id) ==
    CASE what = "if" -> RegisteredIf(s, id)
      [] what = "elseif" -> RegisteredElseIf(s, id)
      [] what = "else" -> RegisteredElse(s, id)
ResolveScopeNode(program, what, id, shown) ==
    LET all == FlattenSeq([i \in DOMAIN program |-> RegisteredAll(what, program[i].body, <<i>>)])
        same == SelectSeq(all, LAMBDA n : n.shown = shown)
    IN IF same = <<>> THEN id ELSE Head(same).id

RECURSIVE TransformStatement(_, _, _, _)
TransformAll(program, ss, stmts, id) ==
    InSequence(LAMBDA t, i : TransformStatement(program, t, stmts[i], Append(id, i)), ss, stmts)
TransformArms(program, ss, s, id) ==
    InSequence(LAMBDA t, k : TransformAll(program, t, s.arms[k], Append(id, k)), ss, s.arms)
IfScopeOf(program, s, k, id) ==
    IF k = 1
    THEN ResolveScopeNode(program, "if", id, Shown(s))
    ELSE ResolveScopeNode(program, IF IsElse(s, k) THEN "else" ELSE "elseif", Append(id, k), ShownArm(s, k))
TransformIfNode(program, ss, s, id) ==
    InSequence(LAMBDA t, k : TransformAll(program, RestoreScope(t, IfScopeOf(program, s, k, id)),
                                              s.arms[k], Append(id, k)), ss, s.arms)
See(ss, s, id) == [ss EXCEPT !.seen = id :> LookupVariable(ss, ss.current, s.name) @@ @]
TransformEnsure(program, ss, s, id) ==
    IF s.arms = <<>> THEN ss ELSE TransformArms(program, RestoreScope(ss, Append(id, 1)), s, id)
TransformStatement(program, ss, s, id) ==
    CASE s.kind = "use" -> See(ss, s, id)
      [] s.kind = "if" -> TransformIfNode(program, ss, s, id)
      [] s.kind \in {"for", "switch"} -> TransformArms(program, ss, s, id)
      [] s.kind \in {"with", "lit"} -> TransformArms(program, RestoreScope(ss, id), s, id)
      [] s.kind = "ensure" -> TransformEnsure(program, See(RestoreScope(ss, id), s, id), s, id)
      [] OTHER -> ss
TransformFunctionOnce(program, ss, f, id) ==
    TransformAll(program, RestoreScope(ss, ss.owners[f.name]), f.body, id)
TransformFunction(program, ss, f, id) ==
    InSequence(LAMBDA t, i : TransformStatement(program, RestoreScope(t, ss.owners[f.name]), f.body[i], Append(id, i)),
                   RestoreScope(ss, ss.owners[f.name]), f.body)
Transform(program, ss) ==
    InSequence(LAMBDA t, i : TransformFunction(program, t, program[i], <<i>>), ss, program)

\* ----- What the scopes should be -----

\* Lexical scoping by environments.  Two rules are the language's own: a name in the header of an if
\* lives on after it, and the clauses of a switch share one block.  A walk is an environment and what
\* the reads met so far are bound to.
RECURSIVE Walk(_, _, _)
WalkAll(w, stmts, id) == InSequence(LAMBDA t, i : Walk(t, stmts[i], Append(id, i)), w, stmts)
Extend(w, x, id) == IF x = NoName THEN w ELSE [w EXCEPT !.env = x :> id @@ @]
Bind(w, x, id) == [w EXCEPT !.bound = id :> (IF x \in DOMAIN w.env THEN w.env[x] ELSE Nobody) @@ @]
Leave(w, inner) == [inner EXCEPT !.env = w.env]
WalkArms(w, s, id) ==
    InSequence(LAMBDA t, k : Leave(t, WalkAll(t, s.arms[k], Append(id, k))), w, s.arms)
WalkShared(w, s, id) == InSequence(LAMBDA t, k : WalkAll(t, s.arms[k], Append(id, k)), w, s.arms)
Walk(w, s, id) ==
    CASE s.kind = "decl" -> Extend(w, s.name, id)
      [] s.kind = "use" -> Bind(w, s.name, id)
      [] s.kind = "if" -> WalkArms(Extend(w, s.init, id), s, id)
      [] s.kind = "ensure" -> WalkArms(Bind(w, s.name, id), s, id)
      [] OTHER -> Leave(w, WalkShared(Extend(w, s.init, id), s, id))
Lexical(f, id) == WalkAll([env |-> f.param :> id, bound |-> <<>>], f.body, id)

\* The statements of a block, by the path of the block.
RECURSIVE BlockAt(_, _)
BlockAt(stmts, path) == IF path = <<>> THEN stmts ELSE BlockAt(stmts[path[1]].arms[path[2]], SubSeq(path, 3, Len(path)))
StmtAt(program, id) == BlockAt(program[id[1]].body, SubSeq(id, 2, Len(id) - 1))[id[Len(id)]]
\* The statements that enclose id, by path; each is left through one of its arms.
Enclosing(id) == {SubSeq(id, 1, n) : n \in {m \in 2..(Len(id) - 1) : m % 2 = 0}}
Owner(program, encl, arm) ==
    IF StmtAt(program, encl).kind = "ensure" \/ (StmtAt(program, encl).kind = "if" /\ arm > 1)
    THEN Append(encl, arm)
    ELSE encl

\* The transformer is known to look names up in another scope than the checker's when the function
\* shares its name with another method; when an enclosing if or else prints like one that is searched
\* first; inside for and switch, whose scopes it does not restore; after a block that precedes in the
\* same nested block; for an ensure in the block of another; and when a block declares the name below.
Misled(program, id) ==
    \/ \E i \in DOMAIN program : i # id[1] /\ program[i].name = program[id[1]].name
    \/ \E e \in Enclosing(id) :
          \/ StmtAt(program, e).kind \in {"for", "switch"}
          \/ /\ StmtAt(program, e).kind = "if"
             /\ IfScopeOf(program, StmtAt(program, e), id[Len(e) + 1], e) # Owner(program, e, id[Len(e) + 1])
          \/ StmtAt(program, e).kind = "ensure" /\ StmtAt(program, id).kind = "ensure"
          \/ \E j \in 1..(id[Len(e) + 2] - 1) :
                StmtAt(program, SubSeq(id, 1, Len(e) + 1) \o <<j>>).kind \notin {"decl", "use"}
    \/ \E n \in {m \in 2..Len(id) : m % 2 = 0} :
          LET block == BlockAt(program[id[1]].body, SubSeq(id, 2, n - 1))
          IN \E j \in (id[n] + 1)..Len(block) : StmtAt(program, id).name \in {block[j].name, block[j].init}

Blocks(program, ss) == {id \in DOMAIN ss.nodeScopeHash : Len(id) > 1}
\* The path of the block around a scope's owner.
RECURSIVE ScopeChain(_, _)
ScopeChain(ss, scope) ==
    IF scope = 1 THEN <<>> ELSE Append(ScopeChain(ss, ss.arena[scope].parent), ss.arena[scope].node)
OwnersAbove(program, id) ==
    <<<<id[1]>>>> \o [n \in 1..((Len(id) - 1) \div 2) |-> Owner(program, SubSeq(id, 1, 2 * n), id[2 * n + 1])]

\* Reads are bound as lexical scoping binds them, though the pass that collects numbers and nests scopes
\* differently and equal blocks share a key; the scope kept for a block is nested in those of the blocks
\* around it; and the transformer restores a scope for every block and finds there what the checker
\* found, where it is not misled and no ensure stands in a function literal.
BoundAsWritten(program, ss) ==
    \A i \in DOMAIN program : LET w == Lexical(program[i], <<i>>).bound
                              IN \A id \in DOMAIN w : ss.bound[id] = w[id]
NestedAsWritten(program, ss) ==
    \A id \in DOMAIN ss.bound :
        LET owner == OwnersAbove(program, id)
        IN ScopeChain(ss, FindScope(ss, owner[Len(owner)])) = owner
\* The scope of an ensure itself is pushed by the first pass only, which does not enter literals.
Unscoped(program, id) ==
    StmtAt(program, id).kind = "ensure" /\ \E e \in Enclosing(id) : StmtAt(program, e).kind = "lit"
SeenAsBound(program, ss, t) ==
    (\A id \in DOMAIN ss.bound : ~Unscoped(program, id)) =>
        ~t.lost /\ \A id \in DOMAIN ss.bound : Misled(program, id) \/ t.seen[id] = ss.bound[id]
ScopesSound(program) ==
    \A collected \in {CollectProgram(program)} : \A ss \in {InferProgram(program, collected)} :
        \A t \in {Transform(program, ss)} :
            BoundAsWritten(program, ss) /\ NestedAsWritten(program, ss) /\ SeenAsBound(program, ss, t)

\* ----- Inputs -----

Inner == {<<Read(a)>>, <<Decl(a), Read(a)>>, <<Read(a), Decl(a)>>}
If(x, init, arms, els) == Stmt("if", x, init, arms, els)
Ensure(arms) == Stmt("ensure", a, NoName, arms, FALSE)
Plain ==
    {If(x, init, <<body>>, FALSE) : x \in {a, b}, init \in {NoName, a}, body \in Inner}
    \cup {If(b, NoName, <<<<Read(a)>>, body>>, els) : body \in Inner, els \in BOOLEAN}
    \cup {If(b, NoName, <<<<Decl(a)>>, <<Read(a)>>, <<Read(a)>>>>, TRUE)}
    \cup {Stmt(kind, b, init, <<body>>, FALSE) : kind \in {"for", "with"}, init \in {NoName}, body \in Inner}
    \cup {Stmt(kind, b, a, <<<<Read(a)>>>>, FALSE) : kind \in {"for", "lit", "switch"}}
    \cup {Stmt("switch", b, NoName, <<<<Decl(a)>>, <<Read(a)>>>>, TRUE)}
    \cup {Ensure(<<>>)} \cup {Ensure(<<body>>) : body \in Inner}
Around(s) ==
    {If(a, NoName, <<<<s, Read(a)>>>>, FALSE), If(b, NoName, <<<<Decl(a)>>, <<s>>>>, TRUE),
     Ensure(<<<<Decl(a), s>>>>), Stmt("lit", b, b, <<<<s>>>>, FALSE), Stmt("with", b, NoName, <<<<s>>>>, FALSE)}
Nested == UNION {Around(s) : s \in Plain}
Repeated == {s \in Plain : s.kind \in {"if", "ensure"} /\ s.init = NoName /\ s.arms \in {<<<<Read(a)>>>>, <<<<Read(a)>>, <<Read(a)>>>>}}
Fn(name, recv, body) == [name |-> name, recv |-> recv, param |-> a, body |-> body]
ScopeInputs ==
    {<<Fn(a, <<>>, <<s, Read(a), t>>)>> : s, t \in Plain}
    \cup {<<Fn(a, <<>>, <<s>>), Fn(b, <<>>, <<t, Read(a)>>)>> : s \in Nested, t \in Repeated}
    \cup {<<Fn(a, <<a>>, <<s>>), Fn(a, <<b>>, <<s>>)>> : s \in Plain}
=============================================================================
