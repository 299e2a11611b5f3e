-------------------------------- MODULE Types --------------------------------
(***************************************************************************)
(* Type compatibility: what the checker accepts where another type is      *)
(* expected (IsTypeCompatible), the join and meet of types, typedefs that  *)
(* are unions and meets, and the key of the memo of answers, against the   *)
(* values the types have.                                                  *)
(*                                                                         *)
(* A type node has an identifier, parameters ps, an array length (0 for a  *)
(* slice), the parameters and results of a function type in fn, and, when  *)
(* it is an assertion, a literal or a base type with constraints.  defs    *)
(* gives the typedefs; their expressions are records of kind alias (a      *)
(* chain over a base type, or a literal), or, and, shape and error.        *)
(* Methods, hash-named literals and types of other packages are left out.  *)
(*                                                                         *)
(* A question that comes up again while it is being answered is never      *)
(* answered: the answers are "yes", "no" and "never".                      *)
(***************************************************************************)
EXTENDS Naturals, Sequences, FiniteSets, SequencesExt

Ty(id, ps) == [id |-> id, ps |-> ps, len |-> 0, fn |-> <<<<>>, <<>>>>, lit |-> "", base |-> "", cons |-> ""]
Named(n) == Ty(n, <<>>)
ArrayOf(t, n) == [Ty("Array", <<t>>) EXCEPT !.len = n]
FuncOf(params, returns) == [Ty("Func", <<>>) EXCEPT !.fn = <<params, returns>>]
Assertion(base, cons, lit) == [Ty("Assertion", <<>>) EXCEPT !.base = base, !.cons = cons, !.lit = lit]
NoType == Named("")
NoAnswer == Named("never")

(* The first answer of several that decides: || and && of the code. *)
Either(a, b) == IF a # "no" THEN a ELSE b
Both(a, b) == IF a # "yes" THEN a ELSE b
Decide(p) == IF p THEN "yes" ELSE "no"

IsScalarTypeIdent(id) == id \in {"String", "Int", "Float", "Bool", "byte", "rune"}
IsIntFamilyIdent(id) == id \in {"Int", "byte", "rune"}
ArrayLengthsCompatible(a, b) == a.len = b.len
AssertionTypesCompatible(a, b) == IF a.lit # "" THEN b.lit = a.lit
                                  ELSE b.lit = "" /\ a.base = b.base /\ a.cons = b.cons

-----------------------------------------------------------------------------
(* typeops.go and the union constructor *)

RECURSIVE TypeNodesShallowEqual(_, _)
TypeNodesShallowEqual(a, b) ==
    /\ a.id = b.id
    /\ Len(a.ps) = Len(b.ps)
    /\ \A i \in DOMAIN a.ps : TypeNodesShallowEqual(a.ps[i], b.ps[i])
    /\ a.id = "Assertion" => <<a.lit, a.base, a.cons>> = <<b.lit, b.base, b.cons>>

RECURSIVE FlattenOneForJoin(_)
FlattenOneForJoin(t) == IF t.id = "Union" /\ t.ps # <<>>
                        THEN FlattenSeq([i \in DOMAIN t.ps |-> FlattenOneForJoin(t.ps[i])])
                        ELSE <<t>>
FlattenUnionOperandsForJoin(ts) == FlattenSeq([i \in DOMAIN ts |-> FlattenOneForJoin(ts[i])])

DedupeTypesPreservingOrder(ts) ==
    FoldLeft(LAMBDA out, t : IF \E u \in Range(out) : TypeNodesShallowEqual(t, u) THEN out ELSE Append(out, t), <<>>, ts)

NewUnionType(members) ==
    LET flat == DedupeTypesPreservingOrder(FlattenUnionOperandsForJoin(members))
    IN IF Len(flat) = 1 THEN flat[1] ELSE Ty("Union", flat)

(* The operands are never none. *)
JoinTypes(ts) ==
    LET flat == FlattenUnionOperandsForJoin(ts)
    IN IF \A i \in DOMAIN flat : TypeNodesShallowEqual(flat[1], flat[i]) THEN flat[1]
       ELSE NewUnionType(flat)

-----------------------------------------------------------------------------
(* compat_memo.go, go_builtins_compat.go, typedef_binary.go: asked are the *)
(* questions being answered.                                               *)

RECURSIVE IsTypeCompatible(_, _, _, _), TypeDefExprToTypeNode(_, _, _)

AllCompatible(d, pairs, asked) ==
    FoldLeft(LAMBDA r, p : Both(r, IsTypeCompatible(d, p[1], p[2], asked)), "yes", pairs)

MeetOf(a, b, ab, ba) ==
    CASE "never" \in {ab, ba} -> NoAnswer
      [] "never" \notin {ab, ba} /\ ab = "yes" -> a
      [] "never" \notin {ab, ba} /\ ab # "yes" /\ ba = "yes" -> b
      [] OTHER -> NoType
MeetTypesSubtyping(d, a, b, asked) ==
    IF TypeNodesShallowEqual(a, b) THEN a
    ELSE MeetOf(a, b, IsTypeCompatible(d, a, b, asked), IsTypeCompatible(d, b, a, asked))

TypeDefAssertionExprToTypeNode(expr) ==
    IF expr.lit = "" /\ expr.cons = "" THEN Named(expr.base) ELSE Assertion(expr.base, expr.cons, expr.lit)

(* NoType: the expression is rejected. *)
TypeDefBinaryToTypeNode(d, k, l, r, asked) ==
    IF l \in {NoType, NoAnswer} THEN l
    ELSE IF r \in {NoType, NoAnswer} THEN r
    ELSE IF k = "or" THEN NewUnionType(<<l, r>>)
    ELSE MeetTypesSubtyping(d, l, r, asked)
TypeDefExprToTypeNode(d, expr, asked) ==
    CASE expr.k = "alias" -> TypeDefAssertionExprToTypeNode(expr)
      [] expr.k \in {"or", "and"} ->
            TypeDefBinaryToTypeNode(d, expr.k, TypeDefExprToTypeNode(d, expr.left, asked),
                                    TypeDefExprToTypeNode(d, expr.right, asked), asked)
      [] OTHER -> NoType

RECURSIVE ContainsTypeIdentParam(_, _)
ContainsTypeIdentParam(t, id) == t.id = id \/ \E i \in DOMAIN t.ps : ContainsTypeIdentParam(t.ps[i], id)

UnlessOfItself(canon, id) == IF ContainsTypeIdentParam(canon, id) THEN NoType ELSE canon
ExpandTypeDefBinaryIfNeeded(d, t, asked) ==
    IF t.id \notin DOMAIN d THEN NoType
    ELSE CASE d[t.id].k \in {"or", "and"} -> UnlessOfItself(TypeDefExprToTypeNode(d, d[t.id], asked), t.id)
           [] d[t.id].k = "alias" -> IF d[t.id].lit # "" THEN Assertion("", "", d[t.id].lit) ELSE NoType
           [] OTHER -> NoType

PairUp(as, es) == [i \in DOMAIN as |-> <<as[i], es[i]>>]
PairBothWays(as, es) == FlattenSeq([i \in DOMAIN as |-> <<<<as[i], es[i]>>, <<es[i], as[i]>>>>])
CompatSameIdentTypes(d, a, e, asked) ==
    LET fits == CASE a.id = "Result" -> Len(a.ps) = 2 /\ Len(e.ps) = 2
                  [] a.id = "Tuple" -> Len(a.ps) = Len(e.ps)
                  [] a.id = "Array" -> Len(a.ps) = 1 /\ Len(e.ps) = 1 /\ ArrayLengthsCompatible(a, e)
                  [] a.id = "Assertion" -> AssertionTypesCompatible(a, e)
                  [] a.id = "Func" -> \A i \in {1, 2} : Len(a.fn[i]) = Len(e.fn[i])
                  [] OTHER -> TRUE
        parts == CASE a.id \in {"Result", "Tuple", "Array"} -> PairUp(a.ps, e.ps)
                   [] a.id = "Func" -> PairBothWays(a.fn[1] \o a.fn[2], e.fn[1] \o e.fn[2])
                   [] OTHER -> <<>>
    IN IF fits THEN AllCompatible(d, parts, asked) ELSE "no"

CompatUnionRulesAny(d, a, e, asked) ==
    FoldLeft(LAMBDA r, p : Either(r, IsTypeCompatible(d, p[1], p[2], asked)), "no",
             IF a.id = "Union" THEN [i \in DOMAIN a.ps |-> <<a.ps[i], e>>]
             ELSE IF e.id = "Union" THEN [i \in DOMAIN e.ps |-> <<a, e.ps[i]>>] ELSE <<>>)
CompatUnionRules(d, a, e, asked) ==
    IF a.id = "Union" /\ a.ps # <<>>
    THEN AllCompatible(d, [i \in DOMAIN a.ps |-> <<a.ps[i], e>>], asked)
    ELSE IF e.id = "Union" /\ e.ps # <<>>
    THEN FoldLeft(LAMBDA r, m : Either(r, IsTypeCompatible(d, a, m, asked)), "no", e.ps)
    ELSE "no"

CompatBuiltinAssignmentRules(d, a, e, asked) ==
    IF e.id = "Error" /\ a.id \in DOMAIN d /\ d[a.id].k = "error" THEN "yes"
    ELSE IF e.id = "Object" /\ a.id # "Void" THEN "yes"
    ELSE IF e.id = "Pointer" /\ ~IsScalarTypeIdent(e.ps[1].id) THEN IsTypeCompatible(d, a, e.ps[1], asked)
    ELSE "no"

CompatAssertionPeeling(d, a, e, asked) ==
    Either(IF a.base # "" THEN IsTypeCompatible(d, Named(a.base), e, asked) ELSE "no",
           IF e.base # "" THEN IsTypeCompatible(d, a, Named(e.base), asked) ELSE "no")

AliasBase(d, t) == IF t.id \in DOMAIN d /\ d[t.id].k = "alias" /\ d[t.id].lit = ""
                   THEN [Ty(d[t.id].base, d[t.id].ps) EXCEPT !.len = d[t.id].len] ELSE NoType
CompatTypeDefAlias(d, a, e, asked) ==
    Either(IF AliasBase(d, a) # NoType THEN IsTypeCompatible(d, AliasBase(d, a), e, asked) ELSE "no",
           IF AliasBase(d, e) # NoType THEN IsTypeCompatible(d, a, AliasBase(d, e), asked) ELSE "no")

(* The compatibility of two field types is asked for even when their *)
(* identifiers agree.                                                *)
OrSameIdent(answer, f, g) == IF answer = "no" THEN Decide(f.id = g.id) ELSE answer
ShapesHaveSameStructure(d, f, g, asked) ==
    IF DOMAIN f # DOMAIN g THEN "no"
    ELSE FoldLeft(LAMBDA r, n : Both(r, OrSameIdent(IsTypeCompatible(d, f[n], g[n], asked), f[n], g[n])),
                  "yes", SetToSeq(DOMAIN f))

IsShapeDef(d, t) == t.id \in DOMAIN d /\ d[t.id].k \in {"shape", "error"}
CompatStructuralShapes(d, a, e, asked) ==
    IF IsShapeDef(d, a) /\ IsShapeDef(d, e)
    THEN ShapesHaveSameStructure(d, d[a.id].fields, d[e.id].fields, asked) ELSE "no"

IsTypeCompatibleImpl(d, a, e, asked) ==
    IF a.id = e.id /\ a.id # "Union" THEN CompatSameIdentTypes(d, a, e, asked)
    ELSE Either(CompatUnionRules(d, a, e, asked),
         Either(Decide(IsIntFamilyIdent(a.id) /\ IsIntFamilyIdent(e.id)),
         Either(CompatBuiltinAssignmentRules(d, a, e, asked),
         Either(CompatAssertionPeeling(d, a, e, asked),
         Either(CompatTypeDefAlias(d, a, e, asked), CompatStructuralShapes(d, a, e, asked))))))

IsTypeCompatibleExpanded(d, actual, expected, a, e, asked) ==
    IF NoAnswer \in {a, e} THEN "never"
    ELSE IsTypeCompatibleImpl(d, IF a = NoType THEN actual ELSE a, IF e = NoType THEN expected ELSE e, asked)
IsTypeCompatible(d, actual, expected, before) ==
    LET asked == before \cup {<<actual, expected>>} IN
    IF <<actual, expected>> \in before THEN "never"
    ELSE IsTypeCompatibleExpanded(d, actual, expected, ExpandTypeDefBinaryIfNeeded(d, actual, asked),
                                  ExpandTypeDefBinaryIfNeeded(d, expected, asked), asked)
Accepts(d, actual, expected) == IsTypeCompatible(d, actual, expected, {})

JoinAfterIfMerge(d, outer, refinements) ==
    LET j == JoinTypes(DedupeTypesPreservingOrder(FlattenUnionOperandsForJoin(<<outer>> \o refinements)))
        members == IF j.id = "Union" THEN j.ps ELSE <<j>>
    IN IF refinements # <<>> /\ \A i \in DOMAIN members : Accepts(d, members[i], outer) = "yes" THEN outer ELSE j

(* The key of the memo: the signature of a function type is not part of it. *)
RECURSIVE TypeNodeCompatKey(_)
TypeNodeCompatKey(t) ==
    <<t.id, t.base, IF t.lit # "" THEN t.lit ELSE t.cons, [i \in DOMAIN t.ps |-> TypeNodeCompatKey(t.ps[i])], t.len>>

-----------------------------------------------------------------------------
(* literal_union.go and validateTypeDefBinary: which typedefs are accepted. *)
(* The kind of a literal is the one of its carrier.                         *)

CarrierOf(lit) == IF lit \in {"x", "y"} THEN "String" ELSE IF lit = "1" THEN "Int" ELSE ""
LiteralKindOfTypeDefExpr(e) == IF e.k = "alias" THEN CarrierOf(e.lit) ELSE ""

RECURSIVE ContainsLiteralTypeDefMember(_), FlattenTypeDefDisjuncts(_)
ContainsLiteralTypeDefMember(e) ==
    IF e.k \in {"or", "and"} THEN ContainsLiteralTypeDefMember(e.left) \/ ContainsLiteralTypeDefMember(e.right)
    ELSE LiteralKindOfTypeDefExpr(e) # ""
FlattenTypeDefDisjuncts(e) == IF e.k = "or" THEN FlattenTypeDefDisjuncts(e.left) \cup FlattenTypeDefDisjuncts(e.right)
                              ELSE {e}

ValidateLiteralUnionExpr(e) ==
    CASE e.k = "and" -> ~ContainsLiteralTypeDefMember(e)
      [] e.k = "or" -> Cardinality({LiteralKindOfTypeDefExpr(m) : m \in FlattenTypeDefDisjuncts(e)}) = 1
                       \/ \A m \in FlattenTypeDefDisjuncts(e) : LiteralKindOfTypeDefExpr(m) = ""
      [] OTHER -> TRUE

ValidateTypeDefBinary(d, e) ==
    e.k \in {"or", "and"} => ValidateLiteralUnionExpr(e) /\ TypeDefExprToTypeNode(d, e, {}) # NoType

(* The members of a union of literals of one kind, none otherwise. *)
Canonical(d, t) == LET c == ExpandTypeDefBinaryIfNeeded(d, t, {}) IN IF c = NoType THEN t ELSE c
MembersOf(u) == CASE u.id = "Union" -> Range(u.ps) [] u.id = "Assertion" -> {u} [] OTHER -> {}
LiteralsOf(members) ==
    IF (\E m \in members : m.lit = "") \/ Cardinality({CarrierOf(m.lit) : m \in members}) # 1 THEN {}
    ELSE {m.lit : m \in members}
LiteralUnionMembers(d, t) == LiteralsOf(MembersOf(Canonical(d, t)))
LiteralAssignableToType(d, lit, t) == lit \in LiteralUnionMembers(d, t)

RECURSIVE ErrorKinded(_, _)
ErrorKinded(d, u) ==
    \/ u.id = "Error"
    \/ u.id = "Union" /\ u.ps # <<>> /\ \A i \in DOMAIN u.ps : ErrorKinded(d, Canonical(d, u.ps[i]))
    \/ u.id \in DOMAIN d /\ d[u.id].k = "error"
IsErrorKindedType(d, t) == ErrorKinded(d, Canonical(d, t))

-----------------------------------------------------------------------------
(* Reference: the values of a type.  The integers are one family, a chain  *)
(* of constraints leaves its base's values, a map or a pointer is told     *)
(* apart from other types only; two shapes are told apart by the heads of  *)
(* their fields.  Where a pointer to a non-scalar is wanted its element    *)
(* will do (taken).                                                        *)

RECURSIVE ExprNames(_)
ExprNames(e) == CASE e.k = "alias" -> {Named(e.base)} \cup Range(e.ps)
                  [] e.k \in {"or", "and"} -> ExprNames(e.left) \cup ExprNames(e.right)
                  [] OTHER -> Range(e.fields)
RECURSIVE NamesOf(_)
NamesOf(t) == {t.id, t.base} \cup UNION {NamesOf(t.ps[i]) : i \in DOMAIN t.ps}
Mentions(d, n) == UNION {NamesOf(t) : t \in ExprNames(d[n])} \cap DOMAIN d
(* Of at most two typedefs. *)
WellFounded(d) == \A n \in DOMAIN d : n \notin Mentions(d, n) /\ \A m \in Mentions(d, n) : n \notin Mentions(d, m)

HeadOf(d, t) == IF AliasBase(d, t) # NoType THEN AliasBase(d, t).id ELSE t.id

RECURSIVE Values(_, _, _), ExprValues(_, _, _)
ExprValues(d, e, taken) ==
    CASE e.k = "alias" -> IF e.lit # "" THEN {<<e.lit>>} ELSE Values(d, [Ty(e.base, e.ps) EXCEPT !.len = e.len], taken)
      [] e.k = "or" -> UNION {ExprValues(d, x, taken) : x \in {e.left, e.right}}
      [] e.k = "and" -> {v \in ExprValues(d, e.left, taken) : v \in ExprValues(d, e.right, taken)}
      [] OTHER -> IF DOMAIN e.fields = {} THEN {<<"struct">>}
                  ELSE UNION {{<<"struct", f, v>> : v \in IF HeadOf(d, e.fields[f]) = "Array" THEN {<<"array">>}
                                                          ELSE Values(d, e.fields[f], FALSE)} : f \in DOMAIN e.fields}
Values(d, t, taken) ==
    CASE t.id \in DOMAIN d -> ExprValues(d, d[t.id], taken)
      [] IsIntFamilyIdent(t.id) -> {<<"int">>}
      [] t.id = "Error" -> {<<"error">>} \cup UNION {ExprValues(d, d[n], taken) : n \in {m \in DOMAIN d : d[m].k = "error"}}
      [] t.id = "Union" -> UNION {Values(d, t.ps[i], taken) : i \in DOMAIN t.ps}
      [] t.id = "Pointer" -> {<<"pointer">>} \cup IF taken /\ ~IsScalarTypeIdent(t.ps[1].id) THEN Values(d, t.ps[1], TRUE) ELSE {}
      [] t.id = "Array" -> {<<"array", t.len, v>> : v \in Values(d, t.ps[1], taken)}
      [] t.id = "Tuple" -> {<<"tuple", v, w>> : v \in Values(d, t.ps[1], taken), w \in Values(d, t.ps[2], taken)}
      [] t.id = "Result" -> {<<"ok", v>> : v \in Values(d, t.ps[1], taken)} \cup {<<"err", v>> : v \in Values(d, t.ps[2], taken)}
      [] t.id = "Assertion" -> IF t.lit # "" THEN {<<t.lit>>} ELSE Values(d, Named(t.base), taken)
      [] OTHER -> {<<t.id>>}

(* Anything but nothing is an Object; an array of objects takes an array   *)
(* of anything; the signature of a function is neither widened nor         *)
(* narrowed.                                                               *)
RECURSIVE Subtype(_, _, _)
Subtype(d, a, e) ==
    \/ e.id = "Object" /\ a.id # "Void"
    \/ a.id = "Array" /\ e.id = "Array" /\ a.len = e.len /\ Subtype(d, a.ps[1], e.ps[1])
    \/ a.id = "Func" /\ e.id = "Func"
       /\ \A i \in {1, 2} : /\ Len(a.fn[i]) = Len(e.fn[i])
                            /\ \A j \in DOMAIN a.fn[i] : Subtype(d, a.fn[i][j], e.fn[i][j]) /\ Subtype(d, e.fn[i][j], a.fn[i][j])
    \/ a.id # "Func" /\ Values(d, a, FALSE) \subseteq Values(d, e, TRUE)

-----------------------------------------------------------------------------
(* Inputs: two typedefs A and B, and the types built from them *)

Alias(base) == [k |-> "alias", base |-> base, ps |-> <<>>, len |-> 0, cons |-> "", lit |-> ""]
Literal(v) == [Alias("") EXCEPT !.lit = v]
Fields(k, f) == [k |-> k, fields |-> f]
Op(k, l, r) == [k |-> k, left |-> l, right |-> r]
Slice(t) == ArrayOf(t, 0)

DefsOfA == {Alias("Int"), [Alias("String") EXCEPT !.cons = "Min"], Alias("B"), [Alias("Array") EXCEPT !.ps = <<Named("Int")>>],
            Literal("x"), Fields("error", <<>>), Fields("shape", [f |-> Named("Int")]), Fields("shape", [f |-> Named("B")]),
            Fields("shape", [f |-> Slice(Named("B"))]),
            Op("or", Alias("B"), Alias("String")), Op("or", Literal("x"), Literal("y")), Op("or", Literal("x"), Literal("1")),
            Op("and", Alias("B"), Alias("Error")), Op("or", Alias("A"), Alias("Int"))}
DefsOfB == {Alias("Int"), Alias("A"), Fields("error", [f |-> Named("byte")]), Fields("shape", [f |-> Named("Int")]),
            Fields("shape", [f |-> Slice(Named("A"))]), Fields("shape", [f |-> Slice(Named("Int"))]),
            Literal("y"), Op("or", Alias("A"), Alias("Int")), Op("and", Alias("A"), Alias("Int"))}
Tables == {d \in [{"A", "B"} -> DefsOfA \cup DefsOfB] :
              d["A"] \in DefsOfA /\ d["B"] \in DefsOfB /\ \A n \in DOMAIN d : ValidateTypeDefBinary(d, d[n])}

ASet == {Named("A"), Named("B")}
Palette == ASet \cup {Named(n) : n \in {"Int", "byte", "String", "Error", "Object"}}
           \cup {Slice(Named("Int")), ArrayOf(Named("Int"), 2), Slice(Named("A")),
                 Ty("Pointer", <<Named("A")>>), Ty("Pointer", <<Named("Int")>>),
                 Ty("Result", <<Named("A"), Named("B")>>),
                 Ty("Tuple", <<Named("A"), Named("Int")>>), FuncOf(<<Named("A")>>, <<Named("Int")>>),
                 FuncOf(<<Named("Int")>>, <<Named("Int")>>), Ty("Union", <<Named("A"), Named("B")>>),
                 Assertion("", "", "x"), Assertion("String", "Min", "")}
CompatInputs == [defs : {d \in Tables : WellFounded(d)}, a : Palette, e : Palette]

-----------------------------------------------------------------------------
(* Whether two types differ only in what shallow equality leaves out: the  *)
(* signature of a function, the length of an array.                        *)
Confused(a, b) == a # b /\ TypeNodesShallowEqual(a, b)
HasFunc(t) == t.id = "Func" \/ \E i \in DOMAIN t.ps : t.ps[i].id = "Func"

(* For typedefs no one of which leads back to itself: a question whether   *)
(* one type will do for another is answered (IsTypeCompatible returns);    *)
(* where the answer is yes every value of the one is a value the other     *)
(* takes; the join of the two takes the values of both, and so does the    *)
(* join after an if (unless the two differ only in the signature of a      *)
(* function or the length of an array); their meet, where there is one, is *)
(* one of the two and has no value the other does not take; a type that    *)
(* counts as an error will do for Error; the literals assignable to a type *)
(* are its values, if there are any such literals; and two types           *)
(* with one key in the memo of answers get one answer, unless they are     *)
(* function types.                                                         *)
TypesJudged(d, a, e, answer, j, m, literals) ==
    /\ answer \in {"yes", "no"}
    /\ answer = "yes" => Subtype(d, a, e)
    /\ a = e => answer = "yes"
    /\ ~Confused(a, e) => \A t \in j, o \in {a, e} : HasFunc(o) \/ Subtype(d, o, t)
    /\ m # NoType => m \in {a, e} /\ (Confused(a, e) \/ \A o \in {a, e} : Subtype(d, m, o))
    /\ e.id = "Error" /\ IsErrorKindedType(d, a) => answer = "yes"
    /\ literals # {} => Values(d, a, FALSE) = {<<l>> : l \in literals}
    /\ \A b \in Palette : TypeNodeCompatKey(b) = TypeNodeCompatKey(a) => HasFunc(b) \/ Accepts(d, b, e) = answer
TypesInOrder(x) ==
    TypesJudged(x.defs, x.a, x.e, Accepts(x.defs, x.a, x.e), {JoinTypes(<<x.a, x.e>>), JoinAfterIfMerge(x.defs, x.a, <<x.e>>)},
                MeetTypesSubtyping(x.defs, x.a, x.e, {}), {l \in {"x", "y", "1"} : LiteralAssignableToType(x.defs, l, x.a)})
=============================================================================
