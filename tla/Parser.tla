------------------------------- MODULE Parser -------------------------------
(***************************************************************************)
(* The Forst parser (internal/parser): a recursive-descent parser with     *)
(* precedence climbing for expressions.  A token stream t is a record:     *)
(* t.tok the tokens, t.line the line of each, t.package the package read   *)
(* so far, t.ctx what the current scope belongs to ("func", "main" or      *)
(* "guard").  A parse operator takes the                                   *)
(* stream and an index and returns a set: {<<node, next>>} when the        *)
(* construct was read, {} when the parser panicked with a ParseError.      *)
(*                                                                         *)
(* A node is a tuple whose first element is its kind.  Names are kept as   *)
(* sequences of segments (`a.b` is <<"a", "b">>); spans are left out.      *)
(***************************************************************************)
EXTENDS Integers, Sequences, FiniteSets

LowerWords == {"x", "y", "f", "p", "l", "main", "make", "new", "js", "node", "?"}
UpperWords == {"A", "B", "Min", "Max", "Ok", "Err", "Error", "Shape", "Result",
               "Tuple", "Match", "Map", "TYPE_CHANNEL", "TYPE_FUNC", "TYPE_OBJECT",
               "Pointer", "Assertion", "Chan", "Object", "Nil", "TYPE_STRING", "TYPE_INT",
               "TYPE_ERROR", "TOKEN_ARROW"}
Words == LowerWords \union UpperWords
BuiltinTypeWords == {"String", "Int", "Float", "Bool"}
IntTokens == {"1", "2"}
FloatTokens == {"1.5", "2.0"}
StringTokens == {"'s'", "'./m'", "'fmt'", "'a/b'"}
LiteralTokens == IntTokens \union FloatTokens \union StringTokens \union {"true", "false", "nil"}
CommentToken == "//c"
CompoundTokens == {"+=", "-=", "*="}
AssignTokens == {"=", ":="} \union CompoundTokens

\* isCapitalCase of a token's text: capitalised words and the capitalised keywords.
Capital(tok) == tok \in UpperWords \union BuiltinTypeWords \union {"Void", "Array"}

MaxExpressionDepth == 20

(***************************************************************************)
(* Reading tokens.                                                         *)
(***************************************************************************)
At(t, i) == IF i \in 1..Len(t.tok) THEN t.tok[i] ELSE "EOF"

Done(node, next) == {<<node, next>>}
Expect(t, i, tok, rs) == IF At(t, i) = tok THEN rs ELSE {}

\* The productions are mutually recursive: each is read through the one operator Rule.
RECURSIVE Rule(_, _, _, _)
ParseType(t, i, lower) == Rule("ParseType", t, i, <<lower>>)
ParseShapeType(t, i, allowEmpty) == Rule("ParseShapeType", t, i, <<allowEmpty>>)
ParseShapeTypeField(t, i) == Rule("ParseShapeTypeField", t, i, <<>>)
ParseShapeLiteralField(t, i, asTypes) == Rule("ParseShapeLiteralField", t, i, <<asTypes>>)
ParseExpr(t, i, minPrec, depth) == Rule("ParseExpr", t, i, <<minPrec, depth>>)
Climb(t, i, lhs, minPrec, depth) == Rule("Climb", t, i, <<lhs, minPrec, depth>>)
ParseUnaryOrPrimary(t, i, depth) == Rule("ParseUnaryOrPrimary", t, i, <<depth>>)
ParseValue(t, i) == Rule("ParseValue", t, i, <<>>)
ParsePostfixSuffixChain(t, i, base) == Rule("ParsePostfixSuffixChain", t, i, <<base>>)
ParseIndexSuffixChain(t, i, base) == Rule("ParseIndexSuffixChain", t, i, <<base>>)
ParseBraceComposite(t, i, T) == Rule("ParseBraceComposite", t, i, <<T>>)
BraceItems(t, i, T) == Rule("BraceItems", t, i, <<T>>)
SelectorTail(t, i, name) == Rule("SelectorTail", t, i, <<name>>)
Items(t, i, close, what) == Rule("Items", t, i, <<close, what>>)
Separated(t, i, what) == Rule("Separated", t, i, <<what>>)
ParseConstraintArgument(t, i) == Rule("ParseConstraintArgument", t, i, <<>>)
ParseDotConstraintChain(t, i, base, constraints) == Rule("ParseDotConstraintChain", t, i, <<base, constraints>>)
ParseAssertionOrJoin(t, i, a) == Rule("ParseAssertionOrJoin", t, i, <<a>>)
ParseParameter(t, i) == Rule("ParseParameter", t, i, <<>>)
ParseReturnType(t, i) == Rule("ParseReturnType", t, i, <<>>)
ParseBlock(t, i) == Rule("ParseBlock", t, i, <<>>)
BlockItems(t, i) == Rule("BlockItems", t, i, <<>>)
ParseBlockStatement(t, i) == Rule("ParseBlockStatement", t, i, <<>>)
ElseBranches(t, i, elseIfs) == Rule("ElseBranches", t, i, <<elseIfs>>)
SwitchClauses(t, i) == Rule("SwitchClauses", t, i, <<>>)
ClauseBody(t, i) == Rule("ClauseBody", t, i, <<>>)
ParseTypeDefExpr(t, i) == Rule("ParseTypeDefExpr", t, i, <<>>)
ParseImport(t, i, inGroup) == Rule("ParseImport", t, i, <<inGroup>>)
ParseConstSpec(t, i, requireValue) == Rule("ParseConstSpec", t, i, <<requireValue>>)
ParseReturnTypeSingle(t, i) == Rule("ParseReturnTypeSingle", t, i, <<>>)
TypeParam(t, i) == Rule("TypeParam", t, i, <<>>)
TopLevel(t, i) == Rule("TopLevel", t, i, <<>>)

\* One element of a list the parser reads in a loop.
Item(t, i, what) ==
  CASE what = "argument" -> UNION {IF At(t, j) = "..." THEN Done(<<"spread", e>>, j + 1) ELSE Done(e, j)
                                   : <<e, j>> \in ParseExpr(t, i, 0, 0)}
    [] what = "expression" -> ParseExpr(t, i, 0, 0)
    [] what = "type" -> ParseType(t, i, FALSE)
    [] what = "any type" -> ParseType(t, i, TRUE)
    [] what = "constraint argument" -> ParseConstraintArgument(t, i)
    [] what = "shape type field" -> ParseShapeTypeField(t, i)
    [] what = "value field" -> ParseShapeLiteralField(t, i, FALSE)
    [] what = "type field" -> ParseShapeLiteralField(t, i, TRUE)
    [] what = "entry" -> UNION {Expect(t, j, ":", UNION {Done(<<k, v>>, n) : <<v, n>> \in ParseValue(t, j + 1)})
                                : <<k, j>> \in ParseValue(t, i)}
    [] what = "name" -> IF At(t, i) \in Words THEN Done(At(t, i), i + 1) ELSE {}
    [] what = "parameter" -> ParseParameter(t, i)
    [] what = "return type" -> ParseReturnTypeSingle(t, i)
    [] what = "type parameter" -> TypeParam(t, i)
    [] what = "import" -> ParseImport(t, i, TRUE)
    [] what = "const" -> ParseConstSpec(t, i, FALSE)

\* The loops `for current != close { element; skip a comma if there is one }`; the loops over
\* imports and constants have no comma to skip.
ItemsRule(t, i, close, what) ==
  IF At(t, i) = close THEN Done(<<>>, i + 1)
  ELSE UNION {UNION {Done(<<x>> \o xs, n) : <<xs, n>> \in Items(t, IF At(t, j) = "," /\ what \notin {"import", "const"} THEN j + 1 ELSE j, close, what)}
              : <<x, j>> \in Item(t, i, what)}

\* The loops `element; while the next token is a comma, another one`.
SeparatedRule(t, i, what) ==
  UNION {IF At(t, j) = "," THEN UNION {Done(<<x>> \o xs, n) : <<xs, n>> \in Separated(t, j + 1, what)}
    ELSE Done(<<x>>, j) : <<x, j>> \in Item(t, i, what)}

(***************************************************************************)
(* Types.                                                                  *)
(***************************************************************************)
IsPossibleTypeIdentifier(tok, lower) ==
  \/ tok \in Words /\ (lower \/ Capital(tok))
  \/ tok \in BuiltinTypeWords \union {"Void", "error", "Array", "[", "map", "chan"}

\* An assertion node: its base type (<<>> for none), its constraints, its `or` alternatives.
Assertion(base, constraints) == <<base, constraints, <<>>>>
ShapeMatch(shape) == Assertion(<<"TYPE_SHAPE">>, <<<<"Match", <<<<"shape", shape>>>>>>>>)

\* The type identifier of a type: all that is kept of it as the base of an assertion.
TypeIdentOf(T) == CASE T[1] = "named" -> T[2]
                    [] T[1] = "basic" -> <<T[2]>>
                    [] OTHER -> <<"TYPE", T[1]>>

\* expectCustomTypeIdentifierOrPackageName, as the segments read.
TypeName(t, i, lower) ==
  LET a == At(t, i) IN
  IF a \notin Words THEN {}
  ELSE IF At(t, i + 1) = "." /\ IsPossibleTypeIdentifier(At(t, i + 2), lower) /\ At(t, i + 3) # "("
       THEN IF At(t, i + 2) \in Words THEN Done(<<a, At(t, i + 2)>>, i + 3) ELSE {}
       ELSE IF lower \/ Capital(a) THEN Done(<<a>>, i + 1) ELSE {}

\* The default case of parseType.  A name followed by `(` that is neither Result nor Tuple
\* becomes an assertion type without a base, and the parenthesis is left unread.
NamedType(t, i, lower) ==
  UNION {CASE name = <<"Result">> /\ At(t, j) = "(" ->
           UNION {Expect(t, n, ",",
             UNION {Expect(t, m, ")",
               Done(<<"result", a, b>>, m + 1)) : <<b, m>> \in ParseType(t, n + 1, lower)})
                 : <<a, n>> \in ParseType(t, j + 1, lower)}
      [] name = <<"Tuple">> /\ At(t, j) = "(" ->
           UNION {Expect(t, n, ")", Done(<<"tuple", ts>>, n + 1))
                  : <<ts, n>> \in Separated(t, j + 1, IF lower THEN "any type" ELSE "type")}
      [] At(t, j) = "." /\ At(t, j + 2) # "(" ->
           IF At(t, j + 1) \in Words /\ (lower \/ Capital(At(t, j + 1)))
           THEN Done(<<"named", Append(name, At(t, j + 1))>>, j + 2)
           ELSE {}
      [] At(t, j) = "(" /\ name \notin {<<"Result">>, <<"Tuple">>} ->
           Done(<<"assert", Assertion(<<>>, <<>>)>>, j)
      [] OTHER -> Done(IF name = <<"Error">> THEN <<"basic", "Error">> ELSE <<"named", name>>, j)
        : <<name, j>> \in TypeName(t, i, lower)}

ParseTypeRule(t, i, lower) ==
  LET tok == At(t, i)
      Of(kind, rs) == UNION {Done(<<kind, e>>, j) : <<e, j>> \in rs}
  IN CASE tok = "*" -> Of("pointer", ParseType(t, i + 1, lower))
       [] tok = "Array" -> Expect(t, i + 1, "(", UNION {Expect(t, j, ")", Done(<<"array", e>>, j + 1))
                                                        : <<e, j>> \in ParseType(t, i + 2, lower)})
       [] tok = "{" -> UNION {Done(<<"assert", ShapeMatch(s)>>, j) : <<s, j>> \in ParseShapeType(t, i, FALSE)}
       [] tok \in BuiltinTypeWords \union {"Void"} -> Done(<<"basic", tok>>, i + 1)
       [] tok = "error" -> Done(<<"basic", "Error">>, i + 1)
       [] tok = "[" ->
            IF At(t, i + 1) = "]" THEN Of("array", ParseType(t, i + 2, TRUE))
            ELSE IF At(t, i + 1) \in IntTokens
                 THEN Expect(t, i + 2, "]", UNION {Done(<<"fixed", e, At(t, i + 1)>>, j)
                                                   : <<e, j>> \in ParseType(t, i + 3, TRUE)})
                 ELSE {}
       [] tok = "map" -> Expect(t, i + 1, "[", UNION {Expect(t, j, "]", UNION {Done(<<"map", k, v>>, n) : <<v, n>> \in ParseType(t, j + 1, TRUE)})
                                                      : <<k, j>> \in ParseType(t, i + 2, TRUE)})
       [] tok = "chan" -> Of("chan", ParseType(t, i + 1, TRUE))
       [] tok = "func" -> Expect(t, i + 1, "(", UNION {Expect(t, j, ")", UNION {Done(<<"func", ps, rs>>, n) : <<rs, n>> \in ParseReturnType(t, j + 1)}) : <<ps, j>> \in 
                            IF At(t, i + 2) = ")" THEN Done(<<>>, i + 2) ELSE Separated(t, i + 2, "type")})
       [] tok = "interface" -> Expect(t, i + 1, "{", Expect(t, i + 2, "}", Done(<<"object">>, i + 3)))
       [] OTHER -> NamedType(t, i, lower)

(***************************************************************************)
(* Assertions: what may follow `is`, and the refined types of parameters   *)
(* and fields.                                                             *)
(***************************************************************************)
ParseConstraintArgumentRule(t, i) ==
  LET tok == At(t, i) IN
  CASE tok = "{" -> UNION {Done(<<"shape", <<"shape", <<>>, fs>>>>, j)
                           : <<fs, j>> \in Items(t, i + 1, "}", "type field")}
    [] tok # "{" /\ (IsPossibleTypeIdentifier(tok, TRUE) \/ tok = "*") ->
         UNION {Done(<<"type", T>>, j) : <<T, j>> \in ParseType(t, i, TRUE)}
    [] OTHER -> UNION {Done(<<"value", v>>, j) : <<v, j>> \in ParseValue(t, i)}

ParseConstraint(t, i) ==
  IF At(t, i) \in UpperWords
  THEN Expect(t, i + 1, "(", UNION {Done(<<At(t, i), args>>, j)
                                    : <<args, j>> \in Items(t, i + 2, ")", "constraint argument")})
  ELSE {}

ParseDotConstraintChainRule(t, i, base, constraints) ==
  IF At(t, i) = "."
  THEN UNION {ParseDotConstraintChain(t, j, base, Append(constraints, c)) : <<c, j>> \in ParseConstraint(t, i + 1)}
  ELSE Done(Assertion(base, constraints), i)

\* parseType for the base of an assertion, and resolveQualifiedType.
AssertionBase(t, i) ==
  UNION {IF At(t, j) = "." /\ IsPossibleTypeIdentifier(At(t, j + 1), FALSE) /\ At(t, j + 2) # "("
    THEN UNION {Done(TypeIdentOf(T) \o TypeIdentOf(Q), n) : <<Q, n>> \in ParseType(t, j + 1, FALSE)}
    ELSE Done(TypeIdentOf(T), j) : <<T, j>> \in ParseType(t, i, FALSE)}

ParseAssertionMeetChain(t, i, requireBase) ==
  LET tok == At(t, i) IN
  IF ~(tok \in Words \/ Capital(tok)) THEN ParseDotConstraintChain(t, i, <<>>, <<>>)
  ELSE IF At(t, i + 1) = "("
       THEN IF requireBase THEN {}
            ELSE UNION {ParseDotConstraintChain(t, j, <<>>, <<c>>) : <<c, j>> \in ParseConstraint(t, i)}
  ELSE IF tok \in BuiltinTypeWords THEN ParseDotConstraintChain(t, i + 1, <<tok>>, <<>>)
  ELSE UNION {ParseDotConstraintChain(t, j, base, <<>>) : <<base, j>> \in AssertionBase(t, i)}

ParseAssertionOrJoinRule(t, i, a) ==
  IF At(t, i) # "or" THEN (IF At(t, i) = "|" THEN {} ELSE Done(a, i))
  ELSE LET alt == At(t, i + 1)
           next == At(t, i + 2)
           isConstraint == (alt \in Words \/ Capital(alt)) /\ next = "("
           isBaseConstraint == alt \in Words \union BuiltinTypeWords /\ next = "."
       IN IF alt = "|" \/ (alt \in Words /\ next = "is") \/ (isConstraint /\ ~Capital(alt))
             \/ ~(isConstraint \/ isBaseConstraint)
          THEN {}
          ELSE UNION {IF b[2] = <<>> THEN {}
                 ELSE ParseAssertionOrJoin(t, j, <<a[1], a[2], Append(a[3], b)>>)
                   : <<b, j>> \in ParseAssertionMeetChain(t, i + 1, FALSE)}

\* parseRefinementTarget: <<"type", a>> for a bare type name, <<"chains", a>> otherwise.
ParseRefinementTarget(t, i) ==
  LET tok == At(t, i)
      Chains(rs) == UNION {UNION {Done(<<"chains", b>>, n) : <<b, n>> \in ParseAssertionOrJoin(t, j, a)}
                           : <<a, j>> \in rs}
      Literal(k) == UNION {Done(Assertion(<<>>, <<<<"Match", <<<<"shape", <<"shape", <<>>, fs>>>>>>>>>>), j)
                           : <<fs, j>> \in Items(t, k, "}", "value field")}
      TypeName_(base, j, orAllowed) ==
        IF At(t, j) = "." THEN Chains(ParseDotConstraintChain(t, j, base, <<>>))
        ELSE IF At(t, j) = "|" \/ (At(t, j) = "or" /\ ~orAllowed) THEN {}
        ELSE Done(<<"type", Assertion(base, <<>>)>>, j)
  IN CASE tok = "{" -> Chains(Literal(i + 1))
       [] tok = "Shape" /\ At(t, i + 1) = "(" ->
            Chains(Expect(t, i + 2, "{", UNION {Expect(t, j, ")", Done(a, j + 1)) : <<a, j>> \in Literal(i + 3)}))
       [] tok \notin {"{", "Shape"} /\ ~(tok \in Words \/ Capital(tok)) -> {}
       [] (tok \in Words \/ Capital(tok)) /\ tok # "Shape" /\ At(t, i + 1) = "(" ->
            IF tok \in BuiltinTypeWords THEN {} ELSE Chains(ParseAssertionMeetChain(t, i, FALSE))
       [] tok \in BuiltinTypeWords /\ At(t, i + 1) # "(" -> TypeName_(<<tok>>, i + 1, TRUE)
       [] OTHER -> UNION {TypeName_(base, j, FALSE) : <<base, j>> \in AssertionBase(t, i)}

(***************************************************************************)
(* Shapes.  A node is <<"shape", base, fields>>; a field is                *)
(* <<name, kind, ...>> in source order.                                    *)
(***************************************************************************)
MemberName(t, i) == At(t, i) \in Words \/ (At(t, i) = "error" /\ At(t, i + 1) = "(")

\* attachOptionalStructTag: the field with its tag, <<>> for none.
Tagged(t, field, j) == IF At(t, j) \in StringTokens THEN Done(Append(field, <<At(t, j)>>), j + 1)
                       ELSE Done(Append(field, <<>>), j)

ShapeConstraint(shape) == <<"shape", Assertion(<<>>, <<<<"Shape", <<<<"shape", shape>>>>>>>>)>>

ParseShapeFieldTypeAfterColon(t, i, name, inLiteral) ==
  LET tok == At(t, i) IN
  CASE tok = "{" /\ inLiteral ->
         UNION {Tagged(t, <<name, "nested", <<"shape", <<>>, fs>>>>, j)
                : <<fs, j>> \in Items(t, i + 1, "}", "type field")}
    [] tok = "{" /\ ~inLiteral ->
         UNION {Tagged(t, <<name, "type", ShapeConstraint(s)>>, j) : <<s, j>> \in ParseShapeType(t, i, FALSE)}
    [] tok # "{" /\ At(t, i + 1) = "." /\ (tok \in Words \/ Capital(tok)) ->
         UNION {Tagged(t, <<name, "type", <<"assert", a>>>>, j) : <<a, j>> \in ParseAssertionMeetChain(t, i, TRUE)}
    [] OTHER -> IF IsPossibleTypeIdentifier(tok, FALSE) \/ tok = "*"
                THEN UNION {Tagged(t, <<name, "type", T>>, j) : <<T, j>> \in ParseType(t, i, TRUE)}
                ELSE {}

ParseShapeTypeFieldRule(t, i) ==
  IF ~MemberName(t, i) THEN {}
  ELSE LET name == At(t, i) IN
       CASE At(t, i + 1) = "(" ->
              UNION {Expect(t, j, ")", UNION {Done(<<name, "method", ps, rs>>, n) : <<rs, n>> \in ParseReturnType(t, j + 1)})
                  : <<ps, j>> \in IF At(t, i + 2) = ")" THEN Done(<<>>, i + 2) ELSE Separated(t, i + 2, "parameter")}
         [] At(t, i + 1) = ":" -> ParseShapeFieldTypeAfterColon(t, i + 2, name, FALSE)
         [] At(t, i + 1) = "*" -> UNION {Tagged(t, <<name, "type", T>>, j) : <<T, j>> \in ParseType(t, i + 1, TRUE)}
         [] At(t, i + 1) = "{" -> UNION {Tagged(t, <<name, "shape type", s>>, j)
                                         : <<s, j>> \in ParseShapeType(t, i + 1, FALSE)}
         [] OTHER -> Done(<<name, "embedded">>, i + 1)

\* parseShapeTypeInternal and parseShapeTypeForError: only the first rejects an empty shape.
ParseShapeTypeRule(t, i, allowEmpty) ==
  Expect(t, i, "{", UNION {IF fs = <<>> /\ ~allowEmpty THEN {} ELSE Done(<<"shape", <<"TYPE_SHAPE">>, fs>>, j)
                           : <<fs, j>> \in Items(t, i + 1, "}", "shape type field")})

ValueKinds == {"int", "float", "string", "bool", "nil", "array", "maplit", "var", "ref", "deref"}

\* parseShapeLiteral, one field: a nested shape, a value, any other expression, or a bare name.
ParseShapeLiteralFieldRule(t, i, asTypes) ==
  IF ~MemberName(t, i) THEN {}
  ELSE LET name == At(t, i) IN
       IF At(t, i + 1) # ":" THEN Done(<<name, "bare">>, i + 1)
       ELSE IF asTypes THEN ParseShapeFieldTypeAfterColon(t, i + 2, name, TRUE)
       ELSE UNION {Done(<<name, IF e[1] = "shape" THEN "nested value"
                           ELSE IF e[1] \in ValueKinds THEN "value" ELSE "expression", e>>, j)
                             : <<e, j>> \in ParseExpr(t, i + 2, 0, 0)}

ParseShapeLiteral(t, i, base) ==
  Expect(t, i, "{", UNION {Done(<<"shape", base, fs>>, j) : <<fs, j>> \in Items(t, i + 1, "}", "value field")})

LooksLikeTypedCompositeOrShapeBody(t, i) ==
  /\ At(t, i) = "{"
  /\ \/ At(t, i + 1) = "}"
     \/ At(t, i + 1) \in Words \union BuiltinTypeWords /\ At(t, i + 2) = ":"

(***************************************************************************)
(* Expressions.                                                            *)
(***************************************************************************)
BinaryOperators == {"||", "&&", "==", "!=", ">", "<", ">=", "<=", "is", "+", "-", "|", "^",
                    "*", "/", "%", "<<", ">>", "&", "&^"}

BinaryPrecedenceFlat(op) == IF op \in {"||", "&&"} THEN 10 ELSE IF op \in {"*", "/", "%"} THEN 50 ELSE 40
BinaryPrecedence(op) ==
  CASE op = "||" -> 10
    [] op = "&&" -> 20
    [] op \in {"==", "!=", ">", "<", ">=", "<=", "is"} -> 30
    [] op \in {"+", "-", "|", "^"} -> 40
    [] op \in {"*", "/", "%", "<<", ">>", "&", "&^"} -> 50

ParseExprRule(t, i, minPrec, depth) ==
  IF depth > MaxExpressionDepth THEN {}
  ELSE UNION {Climb(t, j, lhs, minPrec, depth) : <<lhs, j>> \in ParseUnaryOrPrimary(t, i, depth)}

\* The loop of parseExpr.
ClimbRule(t, i, lhs, minPrec, depth) ==
  LET op == At(t, i) IN
  IF op \notin BinaryOperators \/ (op = "*" /\ At(t, i + 1) = "*") \/ BinaryPrecedence(op) < minPrec
  THEN Done(lhs, i)
  ELSE IF op = "|" /\ lhs[1] = "call" THEN {}
  ELSE IF op = "is"
       THEN UNION {Climb(t, j, <<"is", lhs, r[2]>>, minPrec, depth) : <<r, j>> \in ParseRefinementTarget(t, i + 1)}
       ELSE UNION {Climb(t, j, <<"binary", op, lhs, rhs>>, minPrec, depth)
                   : <<rhs, j>> \in ParseExpr(t, i + 1, BinaryPrecedence(op) + 1, depth + 1)}

\* parseSelectorName and parseIdentifier: the first token is taken whatever it is.
SelectorName(t, i) == At(t, i) \in Words \union BuiltinTypeWords
SelectorTailRule(t, i, name) ==
  IF At(t, i) # "." \/ At(t, i + 1) \in IntTokens THEN Done(name, i)
  ELSE IF SelectorName(t, i + 1) THEN SelectorTail(t, i + 2, Append(name, At(t, i + 1))) ELSE {}
ParseIdentifier(t, i) == SelectorTail(t, i + 1, <<At(t, i)>>)

ParseCallArguments(t, i) == Items(t, i, ")", "argument")

\* parseMakeNewCallArguments: the first argument is a type.
ParseMakeNewCallArguments(t, i) ==
  IF At(t, i) = ")" THEN Done(<<>>, i + 1)
  ELSE IF ~(At(t, i) = "*" \/ IsPossibleTypeIdentifier(At(t, i), TRUE)) THEN {}
  ELSE UNION {UNION {Expect(t, n, ")", Done(<<<<"typeexpr", T>>>> \o es, n + 1)) : <<es, n>> \in IF At(t, j) = "," THEN Separated(t, j + 1, "expression") ELSE Done(<<>>, j)}
              : <<T, j>> \in ParseType(t, i, TRUE)}

IsShapeLiteralTypePrefix(name) == Capital(name[Len(name)])

ParseIdentifierPrimary(t, i) ==
  UNION {CASE At(t, j) = "(" ->
           UNION {IF name \in {<<"Ok">>, <<"Err">>}
             THEN IF Len(args) = 1 THEN Done(<<"result", name[1], args[1]>>, n) ELSE {}
             ELSE Done(<<"call", <<"var", name>>, <<>>, args>>, n) : <<args, n>> \in IF name \in {<<"make">>, <<"new">>} THEN ParseMakeNewCallArguments(t, j + 1)
                ELSE ParseCallArguments(t, j + 1)}
      [] IsShapeLiteralTypePrefix(name) /\ LooksLikeTypedCompositeOrShapeBody(t, j) ->
           ParseShapeLiteral(t, j, name)
      [] OTHER -> Done(<<"var", name>>, j) : <<name, j>> \in ParseIdentifier(t, i)}

TypeArgStart == {"*", "Array", "{", "Void", "map", "func", "[", "chan"} \union BuiltinTypeWords \union Words

\* tryParseGenericTypeArgSuffix: <<>> when the bracket does not open type arguments of a call.
\* The types are read with parseType, whose panics are not recovered here.
GenericTypeArgSuffix(t, i) ==
  IF At(t, i) # "[" \/ At(t, i + 1) \notin TypeArgStart THEN Done(<<>>, i)
  ELSE LET RECURSIVE Rest(_, _)
           Rest(j, ts) == IF At(t, j) # "," THEN Done(ts, j)
                          ELSE IF At(t, j + 1) \notin TypeArgStart THEN Done(<<>>, j)
                          ELSE UNION {Rest(n, Append(ts, T)) : <<T, n>> \in ParseType(t, j + 1, TRUE)}
       IN UNION {UNION {IF ts # <<>> /\ At(t, n) = "]" /\ At(t, n + 1) = "(" THEN Done(ts, n + 1) ELSE Done(<<>>, i) : <<ts, n>> \in Rest(j, <<T>>)}
                 : <<T, j>> \in ParseType(t, i + 1, TRUE)}

ParseIndexSuffixChainRule(t, i, base) ==
  LET High(j, low) ==
        IF At(t, j) = "]" THEN ParseIndexSuffixChain(t, j + 1, <<"slice", base, low, <<>>>>)
        ELSE UNION {Expect(t, n, "]", ParseIndexSuffixChain(t, n + 1, <<"slice", base, low, <<h>>>>))
                    : <<h, n>> \in ParseExpr(t, j, 0, 0)}
  IN IF At(t, i) # "[" THEN Done(base, i)
     ELSE IF At(t, i + 1) = ":" THEN High(i + 2, <<>>)
     ELSE UNION {IF At(t, j) = ":" THEN High(j + 1, <<e>>)
            ELSE Expect(t, j, "]", ParseIndexSuffixChain(t, j + 1, <<"index", base, e>>))
              : <<e, j>> \in ParseExpr(t, i + 1, 0, 0)}

ParsePostfixSuffixChainRule(t, i, base) ==
  UNION {CASE targs # <<>> \/ At(t, i) = "(" ->
           UNION {ParsePostfixSuffixChain(t, n, <<"call", base, targs, args>>)
                  : <<args, n>> \in ParseCallArguments(t, j + 1)}
      [] targs = <<>> /\ At(t, i) = "[" ->
           UNION {ParsePostfixSuffixChain(t, n, e) : <<e, n>> \in ParseIndexSuffixChain(t, i, base)}
      [] targs = <<>> /\ At(t, i) = "." ->
           IF At(t, i + 1) \in IntTokens
           THEN ParsePostfixSuffixChain(t, i + 2, <<"field", base, At(t, i + 1)>>)
           ELSE IF ~SelectorName(t, i + 1) THEN {}
           ELSE IF At(t, i + 2) = "("
                THEN UNION {ParsePostfixSuffixChain(t, n, <<"method", base, At(t, i + 1), args>>)
                            : <<args, n>> \in ParseCallArguments(t, i + 3)}
                ELSE ParsePostfixSuffixChain(t, i + 2, <<"field", base, At(t, i + 1)>>)
      [] OTHER -> Done(base, i) : <<targs, j>> \in GenericTypeArgSuffix(t, i)}

ArrayElementTypeAnyLine(t, i) == IF At(t, i) \in Words THEN Done(<<"named", <<At(t, i)>>>>, i + 1)
                                 ELSE IF At(t, i) \in {"String", "Int", "Bool"} THEN Done(<<"basic", At(t, i)>>, i + 1)
                                 ELSE Done(<<"implicit">>, i)
\* parseOptionalArrayElementTypeSuffix: a type on the line of the closing bracket at i - 1.
ArrayElementTypeSuffix(t, i) ==
  LET tok == At(t, i) IN
  CASE i > Len(t.tok) \/ t.line[i] # t.line[i - 1] -> Done(<<"implicit">>, i)
    [] i <= Len(t.tok) /\ t.line[i] = t.line[i - 1] /\ tok \in {"[", "*", "map", "chan", "func", "Array"} ->
         ParseType(t, i, TRUE)
    [] i <= Len(t.tok) /\ t.line[i] = t.line[i - 1] /\ tok \in Words -> Done(<<"named", <<tok>>>>, i + 1)
    [] i <= Len(t.tok) /\ t.line[i] = t.line[i - 1] /\ tok \in {"String", "Int", "Bool"} ->
         Done(<<"basic", tok>>, i + 1)
    [] OTHER -> Done(<<"implicit">>, i)

\* parseBraceCompositeArrayLiteral, and its loop.
BraceItemsRule(t, i, T) ==
  IF At(t, i) = "}" THEN Done(<<>>, i + 1)
  ELSE UNION {UNION {Done(<<e>> \o es, n) : <<es, n>> \in BraceItems(t, IF At(t, j) = "," THEN j + 1 ELSE j, T)} : <<e, j>> \in IF At(t, i) = "{" THEN ParseBraceComposite(t, i, IF T[1] \in {"array", "fixed"} THEN T[2] ELSE <<"implicit">>)
            ELSE ParseExpr(t, i, 0, 0)}
ParseBraceCompositeRule(t, i, T) ==
  Expect(t, i, "{", UNION {Done(<<"array", T, es>>, j) : <<es, j>> \in BraceItems(t, i + 1, T)})

\* parseLiteral; a minus is only accepted before a number.
ParseLiteral(t, i) ==
  LET neg == At(t, i) = "-"
      k == IF neg THEN i + 1 ELSE i
      tok == At(t, k)
  IN CASE tok \in IntTokens ->
            IF At(t, k + 1) = "." THEN IF At(t, k + 2) \in FloatTokens THEN Done(<<"float", neg, At(t, k + 2)>>, k + 3) ELSE {}
            ELSE Done(<<"int", neg, tok>>, k + 1)
       [] tok \in FloatTokens -> Done(<<"float", neg, tok>>, k + 1)
       [] tok \in StringTokens /\ ~neg -> Done(<<"string", tok>>, k + 1)
       [] tok \in {"true", "false"} /\ ~neg -> Done(<<"bool", tok>>, k + 1)
       [] tok = "nil" /\ ~neg -> Done(<<"nil">>, k + 1)
       [] tok = "[" /\ ~neg ->
            UNION {UNION {IF At(t, n) = "{" THEN ParseBraceComposite(t, n, T) ELSE Done(<<"array", T, es>>, n) : <<T, n>> \in ArrayElementTypeSuffix(t, j)}
                   : <<es, j>> \in Items(t, k + 1, "]", "expression")}
       [] OTHER -> {}

ParseValueRule(t, i) ==
  LET tok == At(t, i)
      NameOrShape(j) == UNION {IF IsShapeLiteralTypePrefix(name) /\ LooksLikeTypedCompositeOrShapeBody(t, n)
                          THEN ParseShapeLiteral(t, n, name) ELSE Done(<<"var", name>>, n)
                            : <<name, n>> \in ParseIdentifier(t, j)}
  IN CASE tok = "&" -> IF At(t, i + 1) \in Words
                       THEN UNION {Done(<<"ref", v>>, j) : <<v, j>> \in NameOrShape(i + 1)} ELSE {}
       [] tok \in Words -> NameOrShape(i)
       [] tok = "map" -> Expect(t, i + 1, "[", UNION {Expect(t, j, "]", UNION {Expect(t, n, "{", UNION {Done(<<"maplit", K, V, es>>, m) : <<es, m>> \in Items(t, n + 1, "}", "entry")}) : <<V, n>> \in ParseType(t, j + 1, TRUE)})
                                                      : <<K, j>> \in ParseType(t, i + 2, TRUE)})
       [] tok = "{" -> ParseShapeLiteral(t, i, <<>>)
       [] tok = "*" -> UNION {Done(<<"deref", <<"var", name>>>>, j) : <<name, j>> \in ParseIdentifier(t, i + 1)}
       [] OTHER -> ParseLiteral(t, i)

\* The bracket case of parseUnaryOrPrimary: tryParseSliceConversion (`[]T(args)`), else a literal.
SliceConversion(t, i) ==
  IF At(t, i + 1) # "]" THEN ParseValue(t, i)
  ELSE UNION {IF T = <<"implicit">> \/ At(t, j) # "(" THEN ParseValue(t, i)
         ELSE IF T \in {<<"basic", b>> : b \in BuiltinTypeWords} THEN {}
         ELSE UNION {Done(<<"call", <<"slicetype", TypeIdentOf(T)>>, <<>>, args>>, n) : <<args, n>> \in ParseCallArguments(t, j + 1)}
                     : <<T, j>> \in ArrayElementTypeSuffix(t, i + 2)}

\* parseFunctionSignature: a variadic parameter must be the last one.
ParseFunctionSignature(t, i) ==
  Expect(t, i, "(", UNION {Expect(t, j, ")", IF \E k \in 1..(Len(ps) - 1) : ps[k][1] = "variadic" THEN {} ELSE Done(ps, j + 1)) : <<ps, j>> \in 
    IF At(t, i + 1) = ")" THEN Done(<<>>, i + 1) ELSE Separated(t, i + 1, "parameter")})

ParseFunctionLiteral(t, i) ==
  UNION {UNION {UNION {Done(<<"funclit", ps, rs, body>>, m) : <<body, m>> \in ParseBlock(t, n)} : <<rs, n>> \in ParseReturnType(t, j)}
         : <<ps, j>> \in ParseFunctionSignature(t, i + 1)}

ParseUnaryOrPrimaryRule(t, i, depth) ==
  LET tok == At(t, i)
      Unary(op) == UNION {Done(<<"unary", op, e>>, j) : <<e, j>> \in ParseUnaryOrPrimary(t, i + 1, depth + 1)}
  IN IF depth > MaxExpressionDepth THEN {}
     ELSE UNION {ParsePostfixSuffixChain(t, j, base) : <<base, j>> \in 
       CASE tok \in {"!", "-"} -> Unary(tok)
         [] tok = "*" -> UNION {IF e[1] \in ValueKinds \union {"shape"} THEN Done(<<"deref", e>>, j) ELSE {}
                                : <<e, j>> \in ParseUnaryOrPrimary(t, i + 1, depth + 1)}
         [] tok = "(" -> UNION {Expect(t, j, ")", Done(e, j + 1)) : <<e, j>> \in ParseExpr(t, i + 1, 0, depth + 1)}
         [] tok = "[" -> SliceConversion(t, i)
         [] tok = "func" -> ParseFunctionLiteral(t, i)
         [] tok \in Words -> ParseIdentifierPrimary(t, i)
         [] tok \in BuiltinTypeWords -> {}
         [] tok = "nil" -> Done(<<"nil">>, i + 1)
         [] tok = "iota" -> Done(<<"iota">>, i + 1)
         [] OTHER -> ParseValue(t, i)}

(***************************************************************************)
(* Statements.                                                             *)
(***************************************************************************)
\* parseBlockWithClose: comments are nodes only where a statement may start.
BlockItemsRule(t, i) ==
  CASE At(t, i) = "}" -> Done(<<>>, i + 1)
    [] At(t, i) = CommentToken -> UNION {Done(<<<<"comment">>>> \o xs, n) : <<xs, n>> \in BlockItems(t, i + 1)}
    [] At(t, i) = "EOF" -> {}
    [] OTHER -> UNION {UNION {Done(<<x>> \o xs, n) : <<xs, n>> \in BlockItems(t, j)}
                       : <<x, j>> \in ParseBlockStatement(t, i)}
ParseBlockRule(t, i) == Expect(t, i, "{", BlockItems(t, i + 1))

\* An assignment: left-hand sides, a type or none for each (no list at all for `var x = e`),
\* operator, right-hand sides.
ParseAssignableExpr(t, i) ==
  IF At(t, i) \in Words
  THEN UNION {ParseIndexSuffixChain(t, j, e) : <<e, j>> \in ParseIdentifierPrimary(t, i)} ELSE {}

FinishAssignment(t, i, lhs) ==
  LET typed == lhs[1] = "var" /\ At(t, i) = ":" IN
  IF lhs[1] = "index" /\ At(t, i) = ":" THEN {}
  ELSE UNION {LET op == At(t, j) IN
    IF \/ op \notin AssignTokens
       \/ op = ":=" /\ lhs[1] # "var"
       \/ op \in CompoundTokens /\ (typed \/ lhs[1] \notin {"var", "index", "deref"})
       \/ op = "=" /\ lhs[1] \notin {"var", "index", "deref"}
    THEN {}
    ELSE UNION {Done(IF typed THEN <<"assign", <<<<"typed", lhs[2], T>>>>, <<<<T>>>>, op, <<e>>>>
                ELSE <<"assign", <<lhs>>, <<<<>>>>, op, <<e>>>>, n) : <<e, n>> \in ParseExpr(t, j + 1, 0, 0)}
                  : <<T, j>> \in IF typed THEN ParseType(t, i + 1, FALSE) ELSE Done(<<"none">>, i)}

ParseAssignment(t, i) == UNION {FinishAssignment(t, j, lhs) : <<lhs, j>> \in ParseAssignableExpr(t, i)}

ParseMultipleAssignment(t, i) ==
  IF At(t, i + 2) \in Words /\ At(t, i + 3) \in {"=", "==", ":="}
  THEN UNION {Done(<<"assign", <<<<"var", <<At(t, i)>>>>, <<"var", <<At(t, i + 2)>>>>>>, <<<<>>, <<>>>>,
                IF At(t, i + 3) = ":=" THEN ":=" ELSE "=", es>>, j) : <<es, j>> \in Separated(t, i + 4, "expression")}
  ELSE {}

ParseVarStatement(t, i) ==
  LET x == At(t, i + 1)
      Typed(j) == UNION {LET Var(es, m) == Done(<<"assign", <<<<"typed", <<x>>, T>>>>, <<<<T>>>>, "=", es>>, m) IN
                    IF At(t, n) \in {"=", "=="} THEN UNION {Var(<<e>>, m) : <<e, m>> \in ParseExpr(t, n + 1, 0, 0)}
                    ELSE Var(<<>>, n) : <<T, n>> \in ParseType(t, j, TRUE)}
  IN IF x \notin Words THEN {}
     ELSE IF At(t, i + 2) = ":" THEN Typed(i + 3)
     ELSE IF At(t, i + 2) \in {"=", "=="}
          THEN UNION {IF e = <<"nil">> THEN {} ELSE Done(<<"assign", <<<<"var", <<x>>>>>>, <<>>, "=", <<e>>>>, j)
                      : <<e, j>> \in ParseExpr(t, i + 3, 0, 0)}
     ELSE Typed(i + 2)

\* parseVarDeclaration, the initialiser of an if or a switch; a missing value is a nil expression.
ParseVarDeclaration(t, i) ==
  IF At(t, i) \notin Words THEN {}
  ELSE Expect(t, i + 1, ":", UNION {LET Decl(e, n) == Done(<<"assign", <<<<"var", <<At(t, i)>>>>>>, <<<<T>>>>, "=", <<e>>>>, n) IN
         IF At(t, j) \in {"=", "=="} THEN UNION {Decl(e, n) : <<e, n>> \in ParseExpr(t, j + 1, 0, 0)}
         ELSE Decl(<<"missing">>, j) : <<T, j>> \in ParseType(t, i + 2, FALSE)})

ParseIncDecStmt(t, i) ==
  LET Op(op, n) == Done(<<"unary", op, <<"var", <<At(t, i)>>>>>>, n) IN
  CASE At(t, i + 1) \in {"++", "--"} -> Op(At(t, i + 1), i + 2)
    [] At(t, i + 1) = "+" /\ At(t, i + 2) = "+" -> Op("++", i + 3)
    [] At(t, i + 1) = "-" /\ At(t, i + 2) = "-" -> Op("--", i + 3)
    [] OTHER -> {}

ParseSendStmt(t, i) ==
  UNION {Done(<<"binary", "<-", <<"var", <<At(t, i)>>>>, e>>, j) : <<e, j>> \in ParseExpr(t, i + 2, 0, 0)}

Arrows == {"<-", "->"}

ParseSimpleStatement(t, i) ==
  LET next == At(t, i + 1) IN
  CASE At(t, i) = "var" -> ParseVarStatement(t, i)
    [] At(t, i) \in Words /\ next \in AssignTokens -> ParseAssignment(t, i)
    [] At(t, i) \in Words /\ next \in {"++", "--", "+", "-"} -> ParseIncDecStmt(t, i)
    [] At(t, i) \in Words /\ next \in Arrows -> ParseSendStmt(t, i)
    [] OTHER -> ParseExpr(t, i, 0, 0)

\* looksLikeLabeledStatement: not a keyword and not a type followed by an assignment operator.
LooksLikeLabeledStatement(t, i) ==
  \/ At(t, i + 2) \in {"for", "if", "switch", "return", "break", "continue", "goto", "defer", "go",
                       "ensure", "var", "use", "with"}
  \/ ~\E r \in ParseType(t, i + 2, FALSE) : At(t, r[2]) \in {"=", "==", ":="}

ParseLabeledStatement(t, i) ==
  UNION {Done(IF s[1] \in {"for", "range"} THEN [s EXCEPT ![2] = <<At(t, i)>>] ELSE <<"label", At(t, i), s>>, j)
         : <<s, j>> \in ParseBlockStatement(t, i + 2)}

ParseReturnStatement(t, i) ==
  IF At(t, i + 1) \in {";", "}"} THEN Done(<<"return", <<>>>>, i + 1)
  ELSE UNION {Done(<<"return", es>>, j) : <<es, j>> \in Separated(t, i + 1, "expression")}

\* parseBreakStatement, parseContinueStatement: a following word is the label.
ParseJump(t, i, kind) == IF At(t, i + 1) \in Words THEN Done(<<kind, <<At(t, i + 1)>>>>, i + 2)
                         ELSE Done(<<kind, <<>>>>, i + 1)

ParseCallStatement(t, i, kind) ==
  IF At(t, i + 1) = "(" THEN {} ELSE UNION {Done(<<kind, e>>, j) : <<e, j>> \in ParseExpr(t, i + 1, 0, 0)}

ParseUseStatement(t, i) ==
  IF At(t, i + 1) = "?" THEN {}
  ELSE IF At(t, i + 1) \in Words /\ At(t, i + 2) = ":"
       THEN UNION {Done(<<"use", <<At(t, i + 1)>>, T>>, j) : <<T, j>> \in ParseType(t, i + 3, FALSE)}
       ELSE UNION {Done(<<"use", <<>>, T>>, j) : <<T, j>> \in ParseType(t, i + 1, FALSE)}

ParseWithStatement(t, i) ==
  UNION {UNION {Done(<<"with", w, body>>, n) : <<body, n>> \in ParseBlock(t, j)} : <<w, j>> \in IF At(t, i + 1) = "{" THEN ParseShapeLiteral(t, i + 1, <<>>)
       ELSE IF At(t, i + 1) \in Words /\ At(t, i + 2) = "{" THEN {} ELSE ParseExpr(t, i + 1, 0, 0)}

\* The else chain of an if: its else-ifs, and the final block or none.
ElseBranchesRule(t, i, elseIfs) ==
  IF At(t, i) # "else" THEN Done(<<elseIfs, <<>>>>, i)
  ELSE IF At(t, i + 1) = "if"
       THEN UNION {UNION {ElseBranches(t, n, Append(elseIfs, <<c, b>>)) : <<b, n>> \in ParseBlock(t, j)}
                   : <<c, j>> \in ParseExpr(t, i + 2, 0, 0)}
       ELSE UNION {Done(<<elseIfs, <<b>>>>, n) : <<b, n>> \in ParseBlock(t, i + 1)}

ParseIfStatement(t, i) ==
  LET a == At(t, i + 1)
      next == At(t, i + 2)
      Init(rs) == UNION {Expect(t, j, ";", Done(<<s>>, j + 1)) : <<s, j>> \in rs}
  IN UNION {UNION {UNION {UNION {Done(<<"if", init, c, b, e[1], e[2]>>, q) : <<e, q>> \in ElseBranches(t, m, <<>>)} : <<b, m>> \in ParseBlock(t, n)} : <<c, n>> \in ParseExpr(t, j, 0, 0)} : <<init, j>> \in CASE a = "var" -> Init(ParseVarDeclaration(t, i + 2))
            [] a \in Words /\ next \in {":=", "="} -> Init(ParseAssignment(t, i + 1))
            [] a \in Words /\ next \in {"++", "--"} -> Init(ParseIncDecStmt(t, i + 1))
            [] a \in Words /\ next \in Arrows -> Init(ParseSendStmt(t, i + 1))
            [] OTHER -> Done(<<>>, i + 1)}

\* classifyForHeader: what precedes the first `{` outside parentheses.
RECURSIVE ForHeader(_, _, _, _, _)
ForHeader(t, i, depth, semi, range) ==
  LET tok == At(t, i) IN
  IF tok = "EOF" \/ (tok = "{" /\ depth = 0)
  THEN IF semi THEN "three" ELSE IF range THEN "range" ELSE "condition"
  ELSE ForHeader(t, i + 1,
         IF tok = "(" THEN depth + 1 ELSE IF tok = ")" /\ depth > 0 THEN depth - 1 ELSE depth,
         semi \/ (tok = ";" /\ depth = 0), range \/ (tok = "range" /\ depth = 0))

\* parseForConditionExpression and parseRangeExpression: a word before `{` is a variable.
ParseForConditionExpression(t, i) ==
  IF At(t, i) \in Words /\ At(t, i + 1) = "{" THEN Done(<<"var", <<At(t, i)>>>>, i + 1) ELSE ParseExpr(t, i, 0, 0)

ParseForThreeClause(t, i) ==
  LET Part(k, stop, rs) == IF At(t, k) = stop THEN Done(<<>>, k) ELSE UNION {Done(<<x>>, n) : <<x, n>> \in rs} IN
  UNION {Expect(t, j, ";",
    UNION {Expect(t, k, ";",
      UNION {UNION {Done(<<"for", <<>>, init, c, post, b>>, n) : <<b, n>> \in ParseBlock(t, m)} : <<post, m>> \in Part(k + 1, "{", ParseSimpleStatement(t, k + 1))}) : <<c, k>> \in Part(j + 1, ";", ParseForConditionExpression(t, j + 1))})
             : <<init, j>> \in Part(i, ";", ParseSimpleStatement(t, i))}

ParseForRangeClause(t, i) ==
  LET Over(key, val, short, k) ==
        Expect(t, k, "range", UNION {UNION {Done(<<"range", <<>>, key, val, short, x, b>>, n) : <<b, n>> \in ParseBlock(t, j)}
                                     : <<x, j>> \in ParseForConditionExpression(t, k + 1)})
      assign(k) == At(t, k) \in {":=", "=", "=="}
  IN CASE At(t, i) = "range" -> Over(<<>>, <<>>, FALSE, i)
       [] At(t, i) \in Words /\ assign(i + 1) -> Over(<<At(t, i)>>, <<>>, At(t, i + 1) = ":=", i + 2)
       [] At(t, i) \in Words /\ At(t, i + 1) = "," /\ At(t, i + 2) \in Words /\ assign(i + 3) ->
            Over(<<At(t, i)>>, <<At(t, i + 2)>>, At(t, i + 3) = ":=", i + 4)
       [] OTHER -> {}

ParseForStatement(t, i) ==
  LET kind == ForHeader(t, i + 1, 0, FALSE, FALSE) IN
  CASE At(t, i + 1) = "{" -> UNION {Done(<<"for", <<>>, <<>>, <<>>, <<>>, b>>, n) : <<b, n>> \in ParseBlock(t, i + 1)}
    [] At(t, i + 1) # "{" /\ kind = "three" -> ParseForThreeClause(t, i + 1)
    [] At(t, i + 1) # "{" /\ kind = "range" -> ParseForRangeClause(t, i + 1)
    [] OTHER -> UNION {UNION {Done(<<"for", <<>>, <<>>, <<c>>, <<>>, b>>, n) : <<b, n>> \in ParseBlock(t, j)}
                       : <<c, j>> \in ParseForConditionExpression(t, i + 1)}

SwitchHeaderContainsTypeSwitch(t, i) ==
  \E k \in i..Len(t.tok) : /\ \A m \in i..k : t.tok[m] # "{"
                           /\ k > 2 /\ t.tok[k] = "type" /\ t.tok[k - 1] = "(" /\ t.tok[k - 2] = "."

ClauseBodyRule(t, i) ==
  CASE At(t, i) \in {"case", "default", "}"} -> Done(<<>>, i)
    [] At(t, i) = "fallthrough" -> UNION {Done(<<<<"fallthrough">>>> \o xs, n) : <<xs, n>> \in ClauseBody(t, i + 1)}
    [] OTHER -> UNION {UNION {Done(<<x>> \o xs, n) : <<xs, n>> \in ClauseBody(t, j)}
                       : <<x, j>> \in ParseBlockStatement(t, i)}

SwitchClausesRule(t, i) ==
  LET Clause(values, k) ==
        Expect(t, k, ":", UNION {UNION {Done(<<<<values, b>>>> \o cs, n) : <<cs, n>> \in SwitchClauses(t, j)}
                                 : <<b, j>> \in ClauseBody(t, k + 1)})
  IN CASE At(t, i) = "}" -> Done(<<>>, i)
       [] At(t, i) = "case" -> UNION {Clause(vs, j) : <<vs, j>> \in Separated(t, i + 1, "expression")}
       [] At(t, i) = "default" -> Clause(<<>>, i + 1)
       [] OTHER -> {}

ParseSwitchStatement(t, i) ==
  LET Init(rs) == UNION {Expect(t, j, ";", Done(<<s>>, j + 1)) : <<s, j>> \in rs} IN
  IF SwitchHeaderContainsTypeSwitch(t, i + 1) THEN {}
  ELSE UNION {UNION {Expect(t, k, "{", UNION {Expect(t, n, "}", Done(<<"switch", init, tag, cs>>, n + 1)) : <<cs, n>> \in SwitchClauses(t, k + 1)}) : <<tag, k>> \in IF At(t, j) = "{" THEN Done(<<>>, j)
                   ELSE UNION {Done(<<e>>, n) : <<e, n>> \in ParseExpr(t, j, 0, 0)}} : <<init, j>> \in CASE At(t, i + 1) = "var" -> Init(ParseVarDeclaration(t, i + 2))
              [] At(t, i + 1) \in Words /\ At(t, i + 2) = ":=" -> Init(ParseAssignment(t, i + 1))
              [] OTHER -> Done(<<>>, i + 1)}

\* parseEnsureSubject: a place, a call, or a method call on a place.
RECURSIVE EnsurePlace(_, _, _)
EnsurePlace(t, i, segs) ==
  IF At(t, i) # "." THEN Done(<<"var", segs>>, i)
  ELSE IF At(t, i + 1) \notin Words THEN {}
  ELSE IF At(t, i + 2) = "("
       THEN UNION {Done(<<"method", <<"var", segs>>, At(t, i + 1), as>>, j)
                   : <<as, j>> \in ParseCallArguments(t, i + 3)}
       ELSE EnsurePlace(t, i + 2, Append(segs, At(t, i + 1)))
ParseEnsureSubject(t, i) ==
  IF At(t, i + 1) = "("
  THEN UNION {Done(<<"call", <<"var", <<At(t, i)>>>>, <<>>, as>>, j) : <<as, j>> \in ParseCallArguments(t, i + 2)}
  ELSE EnsurePlace(t, i + 1, <<At(t, i)>>)

\* ensureStatementContinuesWithoutIs.
EnsureEnds == {"else", "}", "EOF", "ensure", "return", "if", "for", "switch", "defer", "go", "var", "const",
               "type", "func", "break", "continue", "fallthrough", "goto"} \cup Words

\* parseEnsureError: a plain call keeps its name and arguments only.
EnsureError(e) ==
  CASE e[1] = "call" /\ e[2][1] = "var" /\ Len(e[2][2]) = 1 -> <<"call", e[2][2][1], e[4]>>
    [] e[1] = "var" /\ Len(e[2]) = 1 -> <<"var", e[2][1]>>
    [] OTHER -> <<"expr", e>>

\* What may follow the subject and its target: nothing, `else` with an error, `else` with a block.
EnsureElse(t, i, subject, how, target) ==
  LET Ensure(err, block, n) == IF At(t, n) = "or" /\ err = <<>> /\ block = <<>> THEN {}
                               ELSE Done(<<"ensure", subject, how, target, err, block>>, n)
  IN CASE At(t, i) = "else" /\ At(t, i + 1) = "if" -> Ensure(<<>>, <<>>, i)
       [] At(t, i) = "else" /\ At(t, i + 1) = "{" ->
            IF t.ctx = "guard" THEN {}
            ELSE UNION {IF At(t, n) = "else" THEN {} ELSE Ensure(<<>>, <<b>>, n) : <<b, n>> \in ParseBlock(t, i + 1)}
       [] At(t, i) = "else" /\ At(t, i + 1) \notin {"if", "{"} ->
            IF t.ctx # "func" THEN {}
            ELSE UNION {IF At(t, n) = "{" THEN {} ELSE Ensure(<<EnsureError(e)>>, <<>>, n)
                        : <<e, n>> \in ParseExpr(t, i + 1, 0, 0)}
       [] At(t, i) = "{" -> {}
       [] OTHER -> Ensure(<<>>, <<>>, i)

ParseEnsureStatement(t, i) ==
  IF At(t, i + 1) = "!" /\ At(t, i + 2) \in Words
  THEN IF At(t, i + 3) \in {"(", "is"} THEN {}
       ELSE EnsureElse(t, i + 3, <<"var", <<At(t, i + 2)>>>>, "bang", <<>>)
  ELSE IF At(t, i + 1) \notin Words THEN {}
  ELSE UNION {IF At(t, j) = "is"
         THEN IF At(t, j + 1) \in {"true", "false"} THEN {}
              ELSE UNION {EnsureElse(t, n, s, "is", <<a>>) : <<a, n>> \in ParseRefinementTarget(t, j + 1)}
         ELSE IF At(t, j) \in EnsureEnds THEN EnsureElse(t, j, s, "bare", <<>>) ELSE {}
           : <<s, j>> \in ParseEnsureSubject(t, i + 1)}

ForbiddenInGuard == {"var", "use", "with", "return", "goto", "switch", "for", "break", "continue", "defer", "go"}

ParseIdentifierStatement(t, i) ==
  LET next == At(t, i + 1) IN
  CASE next = ":" /\ LooksLikeLabeledStatement(t, i) ->
         IF t.ctx = "guard" THEN {} ELSE ParseLabeledStatement(t, i)
    [] next = "," -> ParseMultipleAssignment(t, i)
    [] next \in {"++", "--", "+", "-"} -> ParseIncDecStmt(t, i)
    [] next \in Arrows -> ParseSendStmt(t, i)
    [] OTHER -> UNION {IF At(t, j) \in AssignTokens \/ (lhs[1] = "var" /\ At(t, j) = ":")
                  THEN FinishAssignment(t, j, lhs) ELSE ParseExpr(t, i, 0, 0)
                    : <<lhs, j>> \in ParseAssignableExpr(t, i)}

\* `*p = e`: the stars, then an assignable expression; anything else is read again as an expression.
RECURSIVE Stars(_, _)
Stars(t, i) == IF At(t, i) = "*" THEN 1 + Stars(t, i + 1) ELSE 0
RECURSIVE Dereference(_, _)
Dereference(e, n) == IF n = 0 THEN e ELSE Dereference(<<"deref", e>>, n - 1)
ParseStarStatement(t, i) ==
  LET n == Stars(t, i) IN
  UNION {UNION {IF e[1] \in ValueKinds \union {"shape"} /\ At(t, m) \in AssignTokens
    THEN FinishAssignment(t, m, Dereference(e, n)) ELSE ParseExpr(t, i, 0, 0) : <<e, m>> \in ParseIndexSuffixChain(t, j, b)}
      : <<b, j>> \in ParseIdentifierPrimary(t, i + n)}

ParseBlockStatementRule(t, i) ==
  LET tok == At(t, i) IN
  CASE tok \in ForbiddenInGuard /\ t.ctx = "guard" -> {}
    [] tok = "var" /\ t.ctx # "guard" -> ParseVarStatement(t, i)
    [] tok = "ensure" -> ParseEnsureStatement(t, i)
    [] tok = "use" /\ t.ctx # "guard" -> ParseUseStatement(t, i)
    [] tok = "with" /\ t.ctx # "guard" -> ParseWithStatement(t, i)
    [] tok = "return" /\ t.ctx # "guard" -> ParseReturnStatement(t, i)
    [] tok = "goto" /\ t.ctx # "guard" ->
         IF At(t, i + 1) \in Words THEN Done(<<"goto", At(t, i + 1)>>, i + 2) ELSE {}
    [] tok \in Words -> ParseIdentifierStatement(t, i)
    [] tok = "if" -> ParseIfStatement(t, i)
    [] tok = "switch" /\ t.ctx # "guard" -> ParseSwitchStatement(t, i)
    [] tok = "for" /\ t.ctx # "guard" -> ParseForStatement(t, i)
    [] tok \in {"break", "continue"} /\ t.ctx # "guard" -> ParseJump(t, i, tok)
    [] tok \in {"defer", "go"} /\ t.ctx # "guard" -> ParseCallStatement(t, i, tok)
    [] tok = "*" -> ParseStarStatement(t, i)
    [] OTHER -> ParseExpr(t, i, 0, 0)

(***************************************************************************)
(* Declarations.                                                           *)
(***************************************************************************)
InlineShape(t, i) == UNION {Done(<<"shape", ShapeMatch(s)>>, j) : <<s, j>> \in ParseShapeType(t, i, FALSE)}

LooksLikeAssertionTypeAfterIdent(t, i) ==
  At(t, i) \in Words /\ At(t, i + 1) = "." /\ At(t, i + 2) \in Words /\ At(t, i + 3) = "("

\* The type of a parameter: parseParameterType, and its copy in parseSimpleParameter, which has no
\* case for a parenthesis.
ParseParameterType(t, i, simple) ==
  CASE LooksLikeAssertionTypeAfterIdent(t, i) \/ (At(t, i) = "(" /\ ~simple) ->
         UNION {Done(<<"assert", a>>, j) : <<a, j>> \in ParseAssertionMeetChain(t, i, TRUE)}
    [] At(t, i) = "Shape" /\ At(t, i + 1) # "." ->
         IF At(t, i + 1) = "(" THEN {} ELSE Done(<<"named", <<"Shape">>>>, i + 1)
    [] At(t, i) = "{" -> InlineShape(t, i)
    [] OTHER -> ParseType(t, i, FALSE)

ParseParameterRule(t, i) ==
  LET Colon(k) == IF At(t, k) = ":" THEN k + 1 ELSE k
      k == Colon(i + 1)
  IN CASE At(t, i) \in Words /\ At(t, k) = "..." ->
            UNION {Done(<<"variadic", At(t, i), T>>, j) : <<T, j>> \in ParseParameterType(t, k + 1, TRUE)}
       [] At(t, i) \in Words /\ At(t, k) # "..." ->
            UNION {Done(<<"param", At(t, i), T>>, j) : <<T, j>> \in ParseParameterType(t, k, TRUE)}
       [] At(t, i) = "{" -> UNION {UNION {Done(<<"destructured", ns, T>>, n) : <<T, n>> \in ParseParameterType(t, Colon(j), FALSE)}
                                   : <<ns, j>> \in Items(t, i + 1, "}", "name")}
       [] OTHER -> {}

ParseReturnTypeSingleRule(t, i) == IF At(t, i) = "{" THEN InlineShape(t, i) ELSE ParseType(t, i, FALSE)
ParseReturnTypeRule(t, i) ==
  IF At(t, i) # ":" THEN Done(<<>>, i)
  ELSE IF At(t, i + 1) # "(" THEN UNION {Done(<<T>>, j) : <<T, j>> \in ParseReturnTypeSingle(t, i + 1)}
  ELSE UNION {Expect(t, j, ")", Done(ts, j + 1)) : <<ts, j>> \in Separated(t, i + 2, "return type")}

\* A receiver is <<name or <<>>, type>>.
ParseReceiver(t, i) ==
  IF At(t, i + 1) \notin Words THEN {}
  ELSE LET named == At(t, i + 2) \in Words \union {"*", "map", "["} IN
       UNION {Expect(t, j, ")", Done(<<IF named THEN <<At(t, i + 1)>> ELSE <<>>, T>>, j + 1))
              : <<T, j>> \in ParseType(t, IF named THEN i + 2 ELSE i + 1, FALSE)}

TypeParamRule(t, i) ==
  IF At(t, i) \notin Words THEN {}
  ELSE IF At(t, i + 1) \in Words THEN UNION {Done(<<At(t, i), <<C>>>>, j) : <<C, j>> \in ParseType(t, i + 1, TRUE)}
  ELSE Done(<<At(t, i), <<>>>>, i + 1)
ParseTypeParamList(t, i) ==
  IF At(t, i) # "[" THEN Done(<<>>, i)
  ELSE UNION {Expect(t, j, "]", Done(tps, j + 1)) : <<tps, j>> \in Separated(t, i + 1, "type parameter")}

\* parseFunctionName, and the FunctionName it puts in the new scope: whether the body is main's.
ParseFunctionDefinition(t, i) ==
  UNION {LET name == At(t, j)
        in == [t EXCEPT !.ctx = IF name = "main" /\ t.package = "main" THEN "main" ELSE "func"]
    IN IF ~(name \in Words \/ (name \in {"error", "use"} /\ At(t, j + 1) = "(")) THEN {}
       ELSE UNION {IF recv # <<>> /\ tps # <<>> THEN {}
              ELSE UNION {UNION {UNION {Done(<<"fn", recv, name, tps, ps, rs, b>>, q) : <<b, q>> \in ParseBlock(in, n)} : <<rs, n>> \in ParseReturnType(t, m)} : <<ps, m>> \in ParseFunctionSignature(in, k)} : <<tps, k>> \in ParseTypeParamList(t, j + 1)} : <<recv, j>> \in IF At(t, i + 1) = "(" THEN UNION {Done(<<r>>, j)
                          : <<r, j>> \in ParseReceiver(t, i + 1)} ELSE Done(<<>>, i + 1)}

\* tryParseTypeDefLiteralMember.
ParseTypeDefLiteralMember(t, i) ==
  UNION {IF lit[1] \in {"string", "int", "bool"}
    THEN Done(<<"assertion", Assertion(<<>>, <<<<"Value", <<<<"value", lit>>>>>>>>)>>, j) ELSE {}
      : <<lit, j>> \in ParseLiteral(t, i)}

ParseTypeDefExprRule(t, i) ==
  LET tok == At(t, i)
      More(rs) == UNION {IF At(t, j) \notin {"|", "&"} THEN Done(left, j)
                    ELSE UNION {Done(<<"tbinary", At(t, j), left, right>>, n) : <<right, n>> \in ParseTypeDefExpr(t, j + 1)}
                                : <<left, j>> \in rs}
  IN CASE tok = "(" -> UNION {Expect(t, j, ")", Done(e, j + 1)) : <<e, j>> \in ParseTypeDefExpr(t, i + 1)}
       [] tok = "{" -> UNION {IF At(t, j) # "." THEN Done(<<"tshape", s>>, j)
                         ELSE UNION {Done(<<"assertion", a>>, n) : <<a, n>> \in ParseDotConstraintChain(t, j, ShapeMatch(s)[1], ShapeMatch(s)[2])}
                                     : <<s, j>> \in ParseShapeType(t, i, TRUE)}
       [] tok \in {"|", "&"} -> ParseTypeDefExpr(t, i + 1)
       [] tok \in FloatTokens -> {}
       [] tok \in StringTokens \union IntTokens \union {"true", "false"} \/ (tok = "-" /\ At(t, i + 1) \in IntTokens) ->
            More(ParseTypeDefLiteralMember(t, i))
       [] OTHER -> More(IF At(t, i + 1) = "."
                        THEN UNION {Done(<<"assertion", a>>, j) : <<a, j>> \in ParseAssertionMeetChain(t, i, TRUE)}
                        ELSE UNION {Done(<<"tref", T>>, j) : <<T, j>> \in ParseType(t, i, FALSE)})

ParseTypeDef(t, i) ==
  IF At(t, i + 1) \in Words /\ Capital(At(t, i + 1)) /\ At(t, i + 2) \in {"=", "=="}
  THEN UNION {Done(<<"typedef", At(t, i + 1), e>>, j) : <<e, j>> \in ParseTypeDefExpr(t, i + 3)} ELSE {}

ParseErrorTypeDef(t, i) ==
  IF At(t, i + 1) \in Words \ {"Error"} /\ Capital(At(t, i + 1))
  THEN UNION {Done(<<"error", At(t, i + 1), s>>, j) : <<s, j>> \in ParseShapeType(t, i + 2, TRUE)} ELSE {}

\* GetIdent of the subject: the fields of a destructured one are joined with commas, so only a single
\* field can be a variable's name; with no field it is empty, as for a call subject.
SubjectIdent(p) == IF p[1] # "destructured" THEN <<p[2]>> ELSE IF Len(p[2]) > 1 THEN <<"no name">> ELSE p[2]

\* parseTypeGuard: the body is a block, or one ensure on the subject.
ParseTypeGuard(t, i) ==
  LET in == [t EXCEPT !.ctx = "guard"]
      Body(subject, name, ps, k) ==
        UNION {Done(<<"guard", subject, name, ps, b>>, n) : <<b, n>> \in IF At(t, k) = "{" THEN ParseBlock(in, k)
             ELSE UNION {IF e[2] = <<"var", SubjectIdent(subject)>> \/ (SubjectIdent(subject) = <<>> /\ e[2][1] # "var")
                    THEN Done(<<e>>, j) ELSE {} : <<e, j>> \in ParseEnsureStatement(in, k)}}
  IN Expect(t, i + 1, "(", UNION {IF At(t, j) = ")" /\ At(t, j + 1) \in Words
       THEN UNION {Body(s, At(t, j + 1), ps, k)
           : <<ps, k>> \in IF At(t, j + 2) = "(" THEN Items(in, j + 3, ")", "parameter") ELSE Done(<<>>, j + 2)}
       ELSE {} : <<s, j>> \in ParseParameter(in, i + 2)})

\* parseImport: alias or <<>>, path, whether the postfix js marker was read.
ScriptPaths == {"'./m'"}
SingleSegmentPaths == {"'s'", "'fmt'"}
AllowsPostfixJSMarker(path, inGroup) == path \in ScriptPaths \/ ~(inGroup /\ path \in SingleSegmentPaths)
ParseImportRule(t, i, inGroup) ==
  LET aliased == At(t, i) \in Words \union {"."}
      k == IF aliased THEN i + 1 ELSE i
      marker == AllowsPostfixJSMarker(At(t, k), inGroup)
      Import(js, n) == Done(<<"import", IF aliased THEN <<At(t, i)>> ELSE <<>>, At(t, k), js>>, n)
  IN IF At(t, k) \notin StringTokens \/ (At(t, k + 1) = "node" /\ marker) THEN {}
     ELSE IF At(t, k + 1) = "js" /\ marker THEN Import(TRUE, k + 2) ELSE Import(FALSE, k + 1)

ParseConstSpecRule(t, i, requireValue) ==
  IF At(t, i) \notin Words THEN {}
  ELSE UNION {IF At(t, j) \in {"=", "=="}
              THEN UNION {Done(<<At(t, i), T, <<e>>>>, n) : <<e, n>> \in ParseExpr(t, j + 1, 0, 0)}
              ELSE IF requireValue THEN {} ELSE Done(<<At(t, i), T, <<>>>>, j) : <<T, j>> \in IF At(t, i + 1) = ":" THEN UNION {Done(<<T>>, j)
                  : <<T, j>> \in ParseType(t, i + 2, TRUE)} ELSE Done(<<>>, i + 1)}

\* One top-level declaration.
ParseDeclaration(t, i) ==
  LET tok == At(t, i)
      group == At(t, i + 1) = "("
      Of(kind, rs) == UNION {Done(<<kind, x>>, j) : <<x, j>> \in rs}
  IN CASE tok = CommentToken -> Done(<<"comment">>, i + 1)
       [] tok = "package" -> IF At(t, i + 1) \in Words THEN Done(<<"package", At(t, i + 1)>>, i + 2) ELSE {}
       [] tok = "import" -> IF group THEN Of("imports", Items(t, i + 2, ")", "import")) ELSE ParseImport(t, i + 1, FALSE)
       [] tok = "type" -> ParseTypeDef(t, i)
       [] tok = "error" -> ParseErrorTypeDef(t, i)
       [] tok = "func" -> ParseFunctionDefinition(t, i)
       [] tok = "var" -> Of("package var", ParseVarStatement(t, i))
       [] tok = "const" -> Of("const", IF group THEN Items(t, i + 2, ")", "const")
                                       ELSE UNION {Done(<<c>>, j) : <<c, j>> \in ParseConstSpec(t, i + 1, TRUE)})
       [] tok = "is" -> ParseTypeGuard(t, i)

DeclarationStart == {CommentToken, "package", "import", "type", "error", "func", "var", "const", "is"}

\* ParseFile.  The scope a function or a type guard pushed is never popped, so the declarations after
\* it are read in its context.  A token that starts no declaration is an error value, not a panic.
TopLevelRule(t, i) ==
  IF At(t, i) = "EOF" THEN Done(<<>>, i)
  ELSE IF At(t, i) \notin DeclarationStart THEN Done(<<<<"unexpected">>>>, i)
  ELSE UNION {LET after == [t EXCEPT
               !.package = IF d[1] = "package" THEN d[2] ELSE t.package,
               !.ctx = CASE d[1] = "guard" -> "guard"
                         [] d[1] = "fn" -> IF d[3] = "main" /\ t.package = "main" THEN "main" ELSE "func"
                         [] OTHER -> t.ctx]
         IN UNION {Done(<<d>> \o ds, n) : <<ds, n>> \in TopLevel(after, j)} : <<d, j>> \in ParseDeclaration(t, i)}
\* One production by name, with the arguments beyond the input and the position.
Rule(rule, t, i, a) ==
  CASE rule = "ParseType" -> ParseTypeRule(t, i, a[1])
    [] rule = "ParseShapeType" -> ParseShapeTypeRule(t, i, a[1])
    [] rule = "ParseShapeTypeField" -> ParseShapeTypeFieldRule(t, i)
    [] rule = "ParseShapeLiteralField" -> ParseShapeLiteralFieldRule(t, i, a[1])
    [] rule = "ParseExpr" -> ParseExprRule(t, i, a[1], a[2])
    [] rule = "Climb" -> ClimbRule(t, i, a[1], a[2], a[3])
    [] rule = "ParseUnaryOrPrimary" -> ParseUnaryOrPrimaryRule(t, i, a[1])
    [] rule = "ParseValue" -> ParseValueRule(t, i)
    [] rule = "ParsePostfixSuffixChain" -> ParsePostfixSuffixChainRule(t, i, a[1])
    [] rule = "ParseIndexSuffixChain" -> ParseIndexSuffixChainRule(t, i, a[1])
    [] rule = "ParseBraceComposite" -> ParseBraceCompositeRule(t, i, a[1])
    [] rule = "BraceItems" -> BraceItemsRule(t, i, a[1])
    [] rule = "SelectorTail" -> SelectorTailRule(t, i, a[1])
    [] rule = "Items" -> ItemsRule(t, i, a[1], a[2])
    [] rule = "Separated" -> SeparatedRule(t, i, a[1])
    [] rule = "ParseConstraintArgument" -> ParseConstraintArgumentRule(t, i)
    [] rule = "ParseDotConstraintChain" -> ParseDotConstraintChainRule(t, i, a[1], a[2])
    [] rule = "ParseAssertionOrJoin" -> ParseAssertionOrJoinRule(t, i, a[1])
    [] rule = "ParseParameter" -> ParseParameterRule(t, i)
    [] rule = "ParseReturnType" -> ParseReturnTypeRule(t, i)
    [] rule = "ParseBlock" -> ParseBlockRule(t, i)
    [] rule = "BlockItems" -> BlockItemsRule(t, i)
    [] rule = "ParseBlockStatement" -> ParseBlockStatementRule(t, i)
    [] rule = "ElseBranches" -> ElseBranchesRule(t, i, a[1])
    [] rule = "SwitchClauses" -> SwitchClausesRule(t, i)
    [] rule = "ClauseBody" -> ClauseBodyRule(t, i)
    [] rule = "ParseTypeDefExpr" -> ParseTypeDefExprRule(t, i)
    [] rule = "ParseImport" -> ParseImportRule(t, i, a[1])
    [] rule = "ParseConstSpec" -> ParseConstSpecRule(t, i, a[1])
    [] rule = "ParseReturnTypeSingle" -> ParseReturnTypeSingleRule(t, i)
    [] rule = "TypeParam" -> TypeParamRule(t, i)
    [] rule = "TopLevel" -> TopLevelRule(t, i)

ParseFile(t) == TopLevel(t, 1)
=============================================================================
