------------------------------- MODULE Hashes -------------------------------
(***************************************************************************)
(* The structural hash of a syntax tree: what is written to the digest for *)
(* each kind of node, and the keys of scopes.                              *)
(*                                                                         *)
(* The digest itself is ideal: two are equal when the same bytes were      *)
(* written to them.  An element of a stream is one written value: a byte   *)
(* or an integer is a sequence of one string, a name contributes each of   *)
(* its letters (nothing marks where a name ends), and a digest is "#"      *)
(* followed by its stream.  The memo of a walk is keyed by node identity   *)
(* and so returns what hashing again would.  Nodes the switch does not     *)
(* know are an error; the parser builds none.                              *)
(*                                                                         *)
(* A node: kind, name and note (letters), kids (nodes, Absent for one that *)
(* is left out), lists (of nodes) and entries (the clauses, fields or      *)
(* specifications a node owns, written in place).                          *)
(***************************************************************************)
EXTENDS Integers, Sequences, SequencesExt

Node(kind, name, note, kids, lists, entries) ==
    [kind |-> kind, name |-> name, note |-> note, kids |-> kids, lists |-> lists, entries |-> entries]
Leaf(kind, name) == Node(kind, name, <<>>, <<>>, <<>>, <<>>)
Of(kind, name, kids) == Node(kind, name, <<>>, kids, <<>>, <<>>)
Entry(name, kids, lists) == Node("entry", name, <<>>, kids, lists, <<>>)
Absent == Leaf("absent", <<>>)

NodeKind ==
    {"BinaryExpression", "IntLiteral", "FloatLiteral", "StringLiteral", "RuneLiteral", "Variable",
     "UnaryExpression", "FunctionCall", "BoolLiteral", "Function", "Ensure", "TypeGuard",
     "TypeDefAssertion", "If", "Reference", "MapLiteral", "NilLiteral", "For", "Break", "Continue",
     "Goto", "LabeledStmt", "ElseIf", "ElseBlock", "Comment", "Defer", "GoStmt", "IndexExpression",
     "OkExpr", "ErrExpr", "TypeDefErrorExpr", "Use", "With", "MethodCall", "SliceExpression",
     "SpreadExpression", "FieldAccess", "Switch", "Fallthrough", "TypeExpression", "ConstGroup",
     "IotaLiteral", "FunctionLiteral"}

\* A kind missing from the table reads as the zero of its map.
KindByte(kind) == IF kind \in NodeKind THEN <<kind>> ELSE <<"0">>
Digest(stream) == <<"#">> \o stream
NilHash == Digest(<<>>)
HashTokenType(token) == Digest(token)

Rank(letter) == CHOOSE i \in 1..6 : <<"a", "b", "c", "x", "y", "1">>[i] = letter[1]
Before(s, t) == \E k \in DOMAIN t : /\ \A j \in 1..(k - 1) : j \in DOMAIN s /\ s[j] = t[j]
                                    /\ k \notin DOMAIN s \/ Rank(s[k]) < Rank(t[k])
ByName(m, n) == Before(m.name, n.name)
\* Map literals sort by the printed key; here a key is told by its name.
ByKey(m, n) == Before(m.kids[1].name, n.kids[1].name)
InOrder(ns) == SortSeq(ns, ByName)
InWrittenOrder(ns) == ns
InKeyOrder(ns) == SortSeq(ns, ByKey)

IsThere(n) == n.kind # "absent"

RECURSIVE Hash(_)
Each(ns) == [i \in DOMAIN ns |-> Hash(ns[i])]
Present(ns) == Each(SelectSeq(ns, IsThere))
HashNodes(ns) == Digest(Each(ns))
Groups(lists) == [i \in DOMAIN lists |-> HashNodes(lists[i])]
InPlace(entries) ==
    FlattenSeq([i \in DOMAIN entries |->
        entries[i].name \o Present(entries[i].kids) \o Groups(entries[i].lists)])

WrittenOperator(n) == <<HashTokenType(n.name)>> \o Each(n.kids)
WrittenCall(n) ==
    IF n.kind = "FunctionLiteral"
    THEN <<HashNodes(n.lists[1])>> \o Each(n.lists[2]) \o <<HashNodes(n.lists[3])>>
    ELSE n.name \o Present(n.kids) \o Groups(n.lists)
WrittenMap(n) == Each(n.kids) \o InPlace(InKeyOrder(n.entries))
WrittenOperand(n) == n.name \o Each(n.kids)

\* Types, type definitions, shapes and assertions.  A field's own type, its third kid, is not written.
WrittenShape(n) ==
    CASE n.kind = "Shape" -> InPlace(InOrder(n.entries))
      [] n.kind = "ShapeField" -> n.note \o n.name \o Present(SubSeq(n.kids, 1, 2))
      [] n.kind = "Assertion" ->
            n.name \o Each(n.kids) \o n.note \o Each(InOrder(n.lists[1])) \o Each(n.lists[2])
      [] n.kind = "Constraint" -> n.name \o Groups(n.lists)
      [] n.kind = "ConstraintArgument" -> Present(n.kids)
WrittenType(n) ==
    IF n.kind = "TypeDef" THEN IF n.name # <<>> THEN n.name ELSE n.note ELSE n.name \o n.note \o Each(n.kids)

Declarations == {"Package", "Import", "ImportGroup", "SimpleParam", "DestructuredParam", "TypeGuard",
                 "ConstGroup", "Function"}
WrittenDeclaration(n) ==
    CASE n.kind = "ImportGroup" -> Each(InOrder(n.kids))
      [] n.kind = "DestructuredParam" -> InPlace(InOrder(n.entries)) \o Each(n.kids)
      [] n.kind = "TypeGuard" -> n.name \o Each(InOrder(n.lists[1])) \o <<HashNodes(n.lists[2])>>
      [] n.kind = "ConstGroup" -> InPlace(n.entries)
      [] n.kind = "Function" -> <<HashNodes(n.lists[1])>>
      [] OTHER -> n.name \o n.note \o Each(n.kids)

\* The operator of an assignment and the labels of jumps are handed over as strings, which the
\* writer refuses; the refusal is dropped.
WrittenJump(n) ==
    CASE n.kind = "Assignment" -> Each(n.lists[1]) \o Each(n.lists[2])
      [] n.kind = "LabeledStmt" -> Present(n.kids)
      [] n.kind \in {"Break", "Continue", "Goto"} -> <<>>

WrittenEnsure(n) == <<Hash(n.kids[1])>> \o n.note \o <<Hash(n.kids[2])>> \o n.name \o Groups(n.lists)
WrittenIf(n) == Present(n.kids) \o Groups(n.lists) \o InPlace(n.entries)
\* kids: init, condition, post and the ranged expression; note: whether it ranges, and by :=.
\* The names of a range clause are strings too, and lost.
WrittenFor(n) ==
    <<Hash(n.kids[1])>> \o Present(<<n.kids[2]>>) \o <<Hash(n.kids[3])>>
        \o (IF n.note = <<>> THEN <<<<"0">>>> ELSE <<<<"1">>>> \o Present(<<n.kids[4]>>) \o n.note)
        \o Groups(n.lists)
WrittenSwitch(n) == <<Hash(n.kids[1])>> \o Present(<<n.kids[2]>>) \o InPlace(n.entries)
WrittenOther(n) == n.name \o n.note \o Each(n.kids) \o Groups(n.lists)

Written(n) ==
    CASE n.kind \in {"Shape", "ShapeField", "Assertion", "Constraint", "ConstraintArgument"} -> WrittenShape(n)
      [] n.kind \in {"TypeDef", "Type"} -> WrittenType(n)
      [] n.kind \in Declarations -> WrittenDeclaration(n)
      [] n.kind \in {"Assignment", "LabeledStmt", "Break", "Continue", "Goto"} -> WrittenJump(n)
      [] n.kind = "Ensure" -> WrittenEnsure(n)
      [] n.kind = "If" -> WrittenIf(n)
      [] n.kind = "For" -> WrittenFor(n)
      [] n.kind = "Switch" -> WrittenSwitch(n)
      [] n.kind \in {"Use", "With", "ElseIf", "ElseBlock"} -> WrittenOther(n)
      [] n.kind \in {"BinaryExpression", "UnaryExpression"} -> WrittenOperator(n)
      [] n.kind \in {"FunctionCall", "MethodCall", "FunctionLiteral"} -> WrittenCall(n)
      [] n.kind = "MapLiteral" -> WrittenMap(n)
      [] OTHER -> WrittenOperand(n)
Hash(n) == IF n.kind = "absent" THEN NilHash ELSE Digest(<<KindByte(n.kind)>> \o Written(n))

\* Keys of scopes.  A function literal's is its hash; the other owners leave out their bodies.
\* A function's lists: body, receiver, parameters, results.  id tells a node from every other.
HashScopeFunction(n) ==
    Digest(<<KindByte(n.kind)>> \o n.name \o Each(n.lists[2]) \o <<HashNodes(n.lists[3])>> \o Each(n.lists[4]))
HashScopeEnsure(n) ==
    Digest(<<KindByte(n.kind), Hash(n.kids[1])>> \o n.note \o <<Hash(n.kids[2])>> \o n.name)
HashScopeEnsureBlock(id) == Digest(<<KindByte("EnsureBlock"), id>>)
HashScopeTypeGuard(n) ==
    Digest(<<KindByte(n.kind)>> \o n.name \o <<Hash(Head(n.lists[1])), HashNodes(InOrder(n.lists[1]))>>)
HashScopeKey(n, id) ==
    CASE n.kind = "Function" -> HashScopeFunction(n)
      [] n.kind = "Ensure" -> HashScopeEnsure(n)
      [] n.kind = "EnsureBlock" -> HashScopeEnsureBlock(id)
      [] n.kind = "TypeGuard" -> HashScopeTypeGuard(n)
      [] OTHER -> Hash(n)
HashScopeKeyDisambiguated(base, id) == Digest(<<base, id>>)

\* Names of types and of Providers structures made from a hash.
ToTypeIdent(hash) == IF hash = NilHash THEN <<"T_", "Invalid">> ELSE <<"T_", hash>>
HashSortedStrings(parts) ==
    LET sorted == SortSeq(parts, Before)
    IN Digest(FlattenSeq([i \in DOMAIN sorted |-> Append(sorted[i], <<"0">>)]))
ToProvidersIdent(hash) == <<"Providers_", hash>>

\* ----- When two nodes should hash alike -----

\* What of a node a hash depends on.  A function counts by its body, a named type by its name; labels,
\* compound operators, the names of a range clause and the types of fields do not count; a name and
\* the one after it read as one; the tag of a switch reads as a case of its first clause.
Clause(entry) == Append(entry.kids, Entry(<<>>, <<>>, entry.lists))
Kept(n) ==
    CASE n.kind \in {"Break", "Continue", "Goto", "For"} -> [n EXCEPT !.name = <<>>]
      [] n.kind \in {"LabeledStmt", "If", "ConstraintArgument", "entry"} ->
            [n EXCEPT !.name = IF n.kind = "entry" THEN @ ELSE <<>>, !.kids = SelectSeq(@, IsThere)]
      [] n.kind = "Function" -> [n EXCEPT !.name = <<>>, !.lists = <<@[1]>>]
      [] n.kind = "TypeDef" -> Leaf("TypeDef", n.name)
      [] n.kind = "Assignment" -> Of("Assignment", <<>>, n.lists[1] \o n.lists[2])
      [] n.kind = "ShapeField" ->
            Of("ShapeField", n.note \o n.name, SelectSeq(SubSeq(n.kids, 1, 2), IsThere))
      [] n.kind \in {"Use", "Import", "Type"} -> [n EXCEPT !.name = @ \o n.note, !.note = <<>>]
      [] n.kind = "Switch" ->
            Node("Switch", <<>>, <<>>, <<n.kids[1]>>,
                 <<SelectSeq(<<n.kids[2]>>, IsThere)
                     \o FlattenSeq([i \in DOMAIN n.entries |-> Clause(n.entries[i])])>>, <<>>)
      [] OTHER -> n
LooseEntries == {"Shape", "MapLiteral", "DestructuredParam"}
Orders(k) == {p \in [1..k -> 1..k] : \A i, j \in 1..k : i # j => p[i] # p[j]}

RECURSIVE Alike(_, _)
Listed(ms, ns, orders) ==
    Len(ms) = Len(ns) /\ \E p \in orders : \A i \in DOMAIN ms : Alike(ms[i], ns[p[i]])
InTurn(ns) == {[i \in DOMAIN ns |-> i]}
OrdersOf(loose, ns) == IF loose THEN Orders(Len(ns)) ELSE InTurn(ns)
Agreeing(m, n) ==
    /\ (m.kind = n.kind \/ {m.kind, n.kind} \cap NodeKind = {}) /\ m.name = n.name /\ m.note = n.note
    /\ Listed(m.kids, n.kids, OrdersOf(n.kind = "ImportGroup", n.kids))
    /\ Listed(m.entries, n.entries, OrdersOf(n.kind \in LooseEntries, n.entries))
    /\ Len(m.lists) = Len(n.lists)
    /\ \A i \in DOMAIN m.lists :
          Listed(m.lists[i], n.lists[i], OrdersOf(i = 1 /\ n.kind \in {"Assertion", "TypeGuard"}, n.lists[i]))
Alike(m, n) == IF IsThere(m) /\ IsThere(n) THEN Agreeing(Kept(m), Kept(n)) ELSE m = n

\* ----- Inputs -----

a == <<<<"a">>>>
b == <<<<"b">>>>
ab == <<<<"a">>, <<"b">>>>
Yes == <<<<"1">>>>
Var(name) == Leaf("Variable", name)
Atoms == {Var(a), Var(b), Var(ab), Leaf("StringLiteral", a), Leaf("IntLiteral", Yes), Leaf("BoolLiteral", Yes),
          Leaf("NilLiteral", <<>>)}
Named(name) == Leaf("Type", name)
Valued(v) == Node("Assertion", <<>>, <<>>, <<>>,
                  <<<<Node("Constraint", a, <<>>, <<>>, <<<<Of("ConstraintArgument", <<>>, <<v, Absent>>)>>>>, <<>>)>>, <<>>>>, <<>>)
Field(v) == Of("ShapeField", <<>>, <<Valued(v), Absent, Absent>>)
ShapeOf(entries) == Node("Shape", <<>>, <<>>, <<>>, <<>>, entries)
Lit(params, body) == Node("FunctionLiteral", <<>>, <<>>, <<>>, <<params, <<Named(a)>>, body>>, <<>>)
CallOf(name, args) == Node("FunctionCall", name, <<>>, <<>>, <<args>>, <<>>)
Pairs == {<<Var(a)>>, <<Var(b)>>, <<Var(a), Var(b)>>, <<Var(b), Var(a)>>, <<Var(ab)>>}
Expressions ==
    Atoms
    \cup {Of(k, <<>>, <<v>>) : k \in {"Reference", "Dereference", "SpreadExpression", "OkExpr", "ErrExpr"},
                               v \in {Var(a), Var(b)}}
    \cup {Of("UnaryExpression", op, <<v>>) : op \in {a, b}, v \in {Var(a), Var(ab)}}
    \cup {Of("BinaryExpression", op, vs) : op \in {a, b}, vs \in {p \in Pairs : Len(p) = 2}}
    \cup {Of("BinaryExpression", a, <<Of("BinaryExpression", a, <<Var(a), Var(b)>>), Var(ab)>>),
          Of("BinaryExpression", a, <<Var(a), Of("BinaryExpression", a, <<Var(b), Var(ab)>>)>>)}
    \cup {CallOf(f, vs) : f \in {a, ab}, vs \in Pairs \cup {<<>>}}
    \cup {Node("FunctionCall", <<>>, <<>>, <<c>>, <<vs>>, <<>>) : c \in {Var(a), Lit(<<>>, <<>>)}, vs \in Pairs}
    \cup {Node("MethodCall", f, <<>>, <<v>>, <<vs>>, <<>>) : f \in {a, ab}, v \in {Var(a), Var(b)}, vs \in Pairs}
    \cup {Of("FieldAccess", f, <<v>>) : f \in {a, b}, v \in {Var(a), Var(b)}}
    \cup {Of("IndexExpression", <<>>, vs) : vs \in {p \in Pairs : Len(p) = 2}}
    \cup {Of("SliceExpression", <<>>, <<Var(a), l, h>>) : l, h \in {Absent, Var(a), Var(b)}}
    \cup {Of("ArrayLiteral", <<>>, <<Named(a)>> \o vs) : vs \in Pairs}
    \cup {Node("MapLiteral", <<>>, <<>>, <<Named(a)>>, <<>>, es) :
            es \in {<<>>} \cup {<<Entry(<<>>, <<Var(k), v>>, <<>>)>> : k \in {a, b}, v \in {Var(a), Var(b)}}
                   \cup {<<Entry(<<>>, <<Var(k[1]), Var(v[1])>>, <<>>), Entry(<<>>, <<Var(k[2]), Var(v[2])>>, <<>>)>> :
                           k \in {<<a, b>>, <<b, a>>}, v \in {<<a, b>>, <<b, a>>}}}
    \cup {ShapeOf(es) :
            es \in {<<>>} \cup {<<Entry(k, <<Field(v)>>, <<>>)>> : k \in {a, ab}, v \in {Var(a), Var(b)}}
                   \cup {<<Entry(k[1], <<Field(Var(v[1]))>>, <<>>), Entry(k[2], <<Field(Var(v[2]))>>, <<>>)>> :
                           k \in {<<a, b>>, <<b, a>>}, v \in {<<a, b>>, <<b, a>>}}}
    \cup {Lit(ps, body) : ps \in {<<>>, <<Of("SimpleParam", a, <<Named(a)>>)>>, <<Of("SimpleParam", a, <<Named(ab)>>)>>},
                          body \in {<<>>, <<Of("Return", <<>>, <<Var(a)>>)>>}}

Bodies == {<<>>, <<Of("Return", <<>>, <<Var(a)>>)>>, <<CallOf(a, <<>>), Of("Return", <<>>, <<>>)>>}
Assign(ls, op, rs) == Node("Assignment", op, <<>>, <<>>, <<ls, rs>>, <<>>)
Is(base, names) ==
    Node("Assertion", base, <<>>, <<>>,
         <<[i \in DOMAIN names |-> Node("Constraint", names[i], <<>>, <<>>, <<<<>>>>, <<>>)], <<>>>>, <<>>)
Statements ==
    {Of("Return", <<>>, vs) : vs \in Pairs \cup {<<>>}}
    \cup {Assign(<<Var(a)>>, op, <<v>>) : op \in {<<>>, a}, v \in {Var(b), Leaf("IntLiteral", Yes)}}
    \cup {Leaf(k, l) : k \in {"Break", "Continue", "Goto"}, l \in {a, b}}
    \cup {Of("LabeledStmt", l, <<s>>) : l \in {a, b}, s \in {Absent, CallOf(a, <<>>)}}
    \cup {Node("If", <<>>, <<>>, <<i, Var(a)>>, <<body>>, es) :
            i \in {Absent, Assign(<<Var(a)>>, <<>>, <<Var(b)>>)}, body \in Bodies,
            es \in {<<>>, <<Entry(<<>>, <<>>, <<<<>>>>)>>, <<Entry(<<>>, <<Var(a)>>, <<<<>>>>)>>,
                    <<Entry(<<>>, <<Var(b)>>, <<<<>>>>), Entry(<<>>, <<>>, <<<<Of("Return", <<>>, <<Var(a)>>)>>>>)>>}}
    \cup {Node("For", <<>>, <<>>, <<i, c, p, Absent>>, <<body>>, <<>>) :
            i, p \in {Absent, Assign(<<Var(a)>>, <<>>, <<Var(b)>>)}, c \in {Absent, Var(a)}, body \in Bodies}
    \cup {Node("For", key, short, <<Absent, Absent, Absent, Var(a)>>, <<<<>>>>, <<>>) :
            key \in {a, b}, short \in {Yes, <<<<"0">>>>}}
    \cup {Node("Switch", <<>>, <<>>, <<Absent, tag>>, <<>>, es) : tag \in {Absent, Var(a), Var(b)},
            es \in {<<Entry(<<>>, vs, <<<<>>>>)>> : vs \in {<<>>, <<Var(a)>>, <<Var(b), Var(a)>>}}
                   \cup {<<Entry(<<>>, <<Var(a)>>, <<body>>), Entry(<<>>, <<>>, <<<<>>>>)>> : body \in Bodies}}
    \cup {Node("Ensure", e, implicit, <<Var(v), Is(base, cs)>>, block, <<>>) :
            e \in {<<>>, b}, implicit \in {Yes}, v \in {a, b}, base \in {<<>>, a},
            cs \in {<<a>>, <<a, b>>, <<b, a>>}, block \in {<<>>, <<<<>>>>}}
    \cup {Node("Use", n[1], n[2], <<>>, <<>>, <<>>) : n \in {<<a, b>>, <<ab, b>>, <<a, <<<<"b">>, <<"b">>>>>>, <<<<>>, ab>>}}
    \cup {Node("With", <<>>, <<>>, <<Var(v)>>, <<body>>, <<>>) : v \in {a, b}, body \in Bodies}
    \cup {Node("TypeGuard", g, <<>>, <<>>, <<ps, body>>, <<>>) : g \in {a, b}, body \in {<<>>, <<Of("Return", <<>>, <<Var(a)>>)>>},
            ps \in {<<Of("SimpleParam", a, <<Named(a)>>), Of("SimpleParam", b, <<Named(a)>>)>>,
                    <<Of("SimpleParam", b, <<Named(a)>>), Of("SimpleParam", a, <<Named(a)>>)>>}}
    \cup {Node("Function", f, <<>>, <<>>, <<body, <<>>, ps, <<>>>>, <<>>) :
            f \in {a, b}, body \in Bodies, ps \in {<<>>, <<Of("SimpleParam", a, <<Named(a)>>)>>}}
    \cup {Node("TypeDef", f, <<>>, <<e>>, <<>>, <<>>) : f \in {a, b}, e \in {Named(a), Named(b)}}
    \cup {Node("ConstGroup", <<>>, <<>>, <<>>, <<>>, <<Entry(n, <<t, v>>, <<>>)>>) :
            n \in {a, b}, t \in {Absent, Named(a)}, v \in {Absent, Var(a)}}
HashInputs == Expressions \cup Statements

\* Two nodes have the same structural hash exactly when they are alike, whatever the order in which maps,
\* constraints and parameters are walked.
AloneOf(m, hash) == \A n \in HashInputs : (hash = Hash(n)) <=> Alike(m, n)
HashesSound(m) == AloneOf(m, Hash(m))
=============================================================================
