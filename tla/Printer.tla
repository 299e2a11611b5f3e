------------------------------ MODULE Printer -------------------------------
(***************************************************************************)
(* The Forst pretty-printer (internal/printer) and the formatter built on  *)
(* it (FormatDocument).  Printed text is a sequence of tokens with "NL"    *)
(* for a line break; indentation and the 80-column rule are left out.  A   *)
(* print operator returns {text}, or {} for an "unsupported" error.        *)
(***************************************************************************)
EXTENDS Parser

a ++ b == {x \o y : x \in a, y \in b}

RECURSIVE Join(_, _)

\* The cases of the printer are mutually recursive: each is printed through the one operator Piece.
RECURSIVE Piece(_, _)
PrintAll(xs, sep, what) == Piece("PrintAll", <<xs, sep, what>>)
PrintType(T) == Piece("PrintType", <<T>>)
FormatAssertion(a) == Piece("FormatAssertion", <<a>>)
PrintExpr(e) == Piece("PrintExpr", <<e>>)
PrintShape(s) == Piece("PrintShape", <<s>>)
AstType(T) == Piece("AstType", <<T>>)
PrintStmt(s) == Piece("PrintStmt", <<s>>)
PrintBlock(b) == Piece("PrintBlock", <<b>>)
PrintTypeDefExpr(e) == Piece("PrintTypeDefExpr", <<e>>)
FlattenSameOp(e, op) == Piece("FlattenSameOp", <<e, op>>)
PrintElseIfs(es) == Piece("PrintElseIfs", <<es>>)
PrintFile(ds) == Piece("PrintFile", <<ds>>)

\* strings.Join over token sequences.
Join(parts, sep) == IF parts = <<>> THEN <<>>
                    ELSE IF Len(parts) = 1 THEN parts[1] ELSE parts[1] \o sep \o Join(Tail(parts), sep)
Dotted(segs) == Join([k \in 1..Len(segs) |-> <<segs[k]>>], <<".">>)

\* TypeIdent.String(), of the identifier an assertion keeps as its base.
TypeIdentString(base) ==
  CASE base = <<"TYPE", "array">> \/ base = <<"TYPE", "fixed">> -> <<"Array", "(", "?", ")">>
    [] base = <<"TYPE", "map">> -> <<"Map", "(", "?", ",", "?", ")">>
    [] base = <<"TYPE", "assert">> -> <<"Assertion", "(", "?", ")">>
    [] base = <<"TYPE_SHAPE">> -> <<"Shape", "(", "?", ")">>
    [] base = <<"TYPE", "object">> -> <<"Object", "(", "?", ")">>
    [] base = <<"TYPE", "pointer">> -> <<"Pointer">>
    [] base = <<"TYPE", "result">> -> <<"Result">>
    [] base = <<"TYPE", "tuple">> -> <<"Tuple">>
    [] base = <<"TYPE", "chan">> -> <<"Chan">>
    [] base = <<"TYPE", "func">> -> <<"TYPE_FUNC">>
    [] OTHER -> Dotted(base)

\* string(ident): the internal name of a built-in type, the written name of any other.
RawIdent(base) == IF base = <<"String">> THEN <<"TYPE_STRING">> ELSE IF base = <<"Int">> THEN <<"TYPE_INT">>
                  ELSE IF base = <<"Error">> THEN <<"TYPE_ERROR">> ELSE Dotted(base)

PrintTypePiece(T) ==
  CASE T[1] = "basic" -> <<T[2]>>
    [] T[1] \in {"array", "fixed"} -> <<"[", "]">> \o PrintType(T[2])
    [] T[1] = "map" -> <<"Map", "[">> \o PrintType(T[2]) \o <<",">> \o PrintType(T[3]) \o <<"]">>
    [] T[1] = "pointer" -> <<"*">> \o PrintType(T[2])
    [] T[1] \in {"assert", "shape"} -> FormatAssertion(T[2])
    [] T[1] = "implicit" -> <<>>
    [] T[1] = "result" -> <<"Result", "(">> \o PrintType(T[2]) \o <<",">> \o PrintType(T[3]) \o <<")">>
    [] T[1] = "tuple" -> <<"Tuple", "(">> \o Join([k \in 1..Len(T[2]) |-> PrintType(T[2][k])], <<",">>) \o <<")">>
    [] T[1] = "chan" -> <<"TYPE_CHANNEL", "<">> \o PrintType(T[2]) \o <<">">>
    [] T[1] = "func" -> <<"TYPE_FUNC">>
    [] T[1] = "object" -> <<"TYPE_OBJECT">>
    [] T[1] = "named" -> Dotted(T[2])

\* Assertions never fail to print: what cannot be printed becomes `?`.
OrElse(text, default) == IF text = {} THEN default ELSE CHOOSE x \in text : TRUE

FormatConstraintArg(arg) ==
  CASE arg[1] = "value" -> OrElse(PrintExpr(arg[2]), <<"?">>)
    [] arg[1] = "shape" -> OrElse(PrintShape(arg[2]), <<"?">>)
    [] arg[1] = "type" -> PrintType(arg[2])

FormatConstraint(c) ==
  IF Len(c[2]) = 1 /\ c[2][1][1] = "shape" /\ PrintShape(c[2][1][2]) # {}
  THEN <<c[1]>> \o FormatConstraintArg(c[2][1])
  ELSE <<c[1], "(">> \o Join([k \in 1..Len(c[2]) |-> FormatConstraintArg(c[2][k])], <<",">>) \o <<")">>

FormatAssertionChainOnly(a) == Join([k \in 1..Len(a[2]) |-> FormatConstraint(a[2][k])], <<".">>)

FormatAssertionMeet(a) ==
  IF a[1] # <<>>
  THEN TypeIdentString(a[1]) \o (IF a[2] = <<>> THEN <<>> ELSE <<".">> \o FormatAssertionChainOnly(a))
  ELSE IF Len(a[2]) = 1 /\ a[2][1][1] = "Match" /\ Len(a[2][1][2]) = 1 /\ a[2][1][2][1][1] = "shape"
       THEN OrElse(PrintShape(a[2][1][2][1][2]), FormatAssertionChainOnly(a))
       ELSE FormatAssertionChainOnly(a)

FormatAssertionPiece(a) ==
  FormatAssertionMeet(a) \o Join([k \in 1..Len(a[3]) |-> <<"or">> \o FormatAssertionMeet(a[3][k])], <<>>)

(***************************************************************************)
(* Expressions.                                                            *)
(***************************************************************************)
\* Each element printed by what it is, with a separator; {} when one fails.
PrintItem(x, what) ==
  CASE what = "expr" -> PrintExpr(x)
    [] what = "type" -> {PrintType(x)}
    [] what = "entry" -> PrintExpr(x[1]) ++ {<<":">>} ++ PrintExpr(x[2])
    [] what = "statement" -> PrintStmt(x) ++ {<<"NL">>}
PrintAllPiece(xs, sep, what) ==
  IF xs = <<>> THEN {<<>>}
  ELSE PrintItem(xs[1], what) ++ (IF Len(xs) = 1 THEN {<<>>} ELSE {sep} ++ PrintAll(Tail(xs), sep, what))

\* Text printed without a space between: two minus signs lex as one decrement token.
Prefixed(op, text) ==
  IF op = "-" /\ text[1] = "-" THEN <<"--">> \o Tail(text)
  ELSE IF op = "-" /\ text[1] = "--" THEN <<"--", "-">> \o Tail(text)
  ELSE <<op>> \o text

\* fmt %g of a float that has no fraction prints as an integer.
FloatText(tok) == IF tok = "2.0" THEN "2" ELSE tok

PrintCallee(c) == IF c[1] = "slicetype" THEN {<<"[", "]">> \o Dotted(c[2])} ELSE PrintExpr(c)
PrintCall(callee, targs, args) ==
  PrintCallee(callee)
  ++ (IF targs = <<>> THEN {<<>>} ELSE {<<"[">>} ++ PrintAll(targs, <<",">>, "type") ++ {<<"]">>})
  ++ {<<"(">>} ++ PrintAll(args, <<",">>, "expr") ++ {<<")">>}

\* Every other kind of expression is an error: field access, method calls, Ok and Err, slices,
\* function literals, spread arguments, iota, type arguments of make and new, `is`.
PrintExprPiece(e) ==
  CASE e[1] = "var" -> {Dotted(e[2])}
    [] e[1] = "int" -> {IF e[2] THEN <<"-", e[3]>> ELSE <<e[3]>>}
    [] e[1] = "float" -> {IF e[2] THEN <<"-", FloatText(e[3])>> ELSE <<FloatText(e[3])>>}
    [] e[1] \in {"string", "bool"} -> {<<e[2]>>}
    [] e[1] = "nil" -> {<<"nil">>}
    [] e[1] = "unary" -> IF e[2] \in {"++", "--"} THEN PrintExpr(e[3]) ++ {<<e[2]>>}
                         ELSE {Prefixed(e[2], x) : x \in PrintExpr(e[3])}
    [] e[1] = "binary" -> PrintExpr(e[3]) ++ {<<IF e[2] = "<-" THEN "TOKEN_ARROW" ELSE e[2]>>} ++ PrintExpr(e[4])
    [] e[1] = "call" -> PrintCall(e[2], e[3], e[4])
    [] e[1] = "index" -> PrintExpr(e[2]) ++ {<<"[">>} ++ PrintExpr(e[3]) ++ {<<"]">>}
    [] e[1] = "ref" -> {<<"&">>} ++ PrintExpr(e[2])
    [] e[1] = "deref" -> {<<"*">>} ++ PrintExpr(e[2])
    [] e[1] = "shape" -> PrintShape(e)
    [] e[1] = "array" -> IF e[2] = <<"implicit">> THEN {<<"[">>} ++ PrintAll(e[3], <<",">>, "expr") ++ {<<"]">>}
                         ELSE {<<"[", "]">> \o PrintType(e[2]) \o <<"{">>} ++ PrintAll(e[3], <<",">>, "expr") ++ {<<"}">>}
    [] e[1] = "maplit" -> {<<"map", "[">> \o PrintType(e[2]) \o <<"]">> \o PrintType(e[3]) \o <<"{">>}
                          ++ PrintAll(e[4], <<",">>, "entry") ++ {<<"}">>}
    [] OTHER -> {}

\* TypeNode.String() and ParamNode.String(), which print the methods of a shape; what is inside an
\* Assertion(...) is left out, the parser reads no further than its parenthesis.
AstTypePiece(T) ==
  CASE T[1] = "basic" -> <<T[2]>>
    [] T[1] = "array" -> <<"Array", "(">> \o AstType(T[2]) \o <<")">>
    [] T[1] = "fixed" -> <<"[", T[3], "]">> \o AstType(T[2])
    [] T[1] = "map" -> <<"Map", "(">> \o AstType(T[2]) \o <<",">> \o AstType(T[3]) \o <<")">>
    [] T[1] = "assert" -> <<"Assertion", "(", "?", ")">>
    [] T[1] = "shape" -> <<"Shape">>
    [] T[1] = "pointer" -> <<"Pointer", "(">> \o AstType(T[2]) \o <<")">>
    [] T[1] = "result" -> <<"Result", "(">> \o AstType(T[2]) \o <<",">> \o AstType(T[3]) \o <<")">>
    [] T[1] = "tuple" -> <<"Tuple", "(">> \o Join([k \in 1..Len(T[2]) |-> AstType(T[2][k])], <<",">>) \o <<")">>
    [] T[1] = "chan" -> <<"chan">> \o AstType(T[2])
    [] T[1] = "func" -> <<"func", "(">> \o Join([k \in 1..Len(T[2]) |-> AstType(T[2][k])], <<",">>) \o <<")", ":">>
                        \o (IF T[3] = <<>> THEN <<>> ELSE AstType(T[3][1]))
    [] T[1] = "object" -> <<"Object", "(", "?", ")">>
    [] T[1] = "named" -> Dotted(T[2])
AstParam(p) ==
  CASE p[1] = "param" -> <<p[2]>> \o AstType(p[3])
    [] p[1] = "variadic" -> <<p[2], "...">> \o AstType(p[3])
    [] p[1] = "destructured" -> <<"{", "[">> \o p[2] \o <<"]", "}">> \o AstType(p[3])

\* printShapeFieldEntry.  A field whose value is neither a shape nor a ValueNode has no assertion,
\* shape or type, so nothing is printed after its colon; a bare name has its own name as value.
PrintShapeFieldEntry(f) ==
  CASE f[2] = "method" -> {<<f[1], "(">> \o Join([k \in 1..Len(f[3]) |-> AstParam(f[3][k])], <<",">>) \o <<")">>
                           \o (IF f[4] = <<>> THEN <<>>
                               ELSE <<":">> \o Join([k \in 1..Len(f[4]) |-> AstType(f[4][k])], <<",">>))}
    [] f[2] = "embedded" -> {<<f[1]>>}
    [] f[2] = "bare" -> {<<f[1], ":", f[1]>>}
    [] f[2] \in {"nested", "shape type", "nested value"} -> {<<f[1], ":">>} ++ PrintShape(f[3])
    [] f[2] = "value" -> {<<f[1], ":">>} ++ PrintExpr(f[3])
    [] f[2] = "type" -> {<<f[1], ":">> \o PrintType(f[3])}
    [] f[2] = "expression" -> {<<f[1], ":">>}

\* shapeShouldUseMultiline: several fields, one of them a shape (or a reference to one) with fields.
ShapeMultiline(s) ==
  /\ Len(s[3]) > 1
  /\ \E k \in 1..Len(s[3]) :
       \/ s[3][k][2] \in {"nested", "shape type", "nested value"} /\ s[3][k][3][3] # <<>>
       \/ s[3][k][2] = "value" /\ s[3][k][3][1] = "ref" /\ s[3][k][3][2][1] = "shape" /\ s[3][k][3][2][3] # <<>>

RECURSIVE PrintFields(_, _)
PrintFields(fs, multi) ==
  IF fs = <<>> THEN {<<>>}
  ELSE PrintShapeFieldEntry(fs[1]) ++ {IF multi THEN <<",", "NL">> ELSE IF Len(fs) > 1 THEN <<",">> ELSE <<>>}
       ++ PrintFields(Tail(fs), multi)
PrintShapePiece(s) ==
  {(IF s[2] \in {<<>>, <<"TYPE_SHAPE">>} THEN <<>> ELSE RawIdent(s[2])) \o <<"{">>
    \o (IF ShapeMultiline(s) THEN <<"NL">> ELSE <<>>)} ++ PrintFields(s[3], ShapeMultiline(s)) ++ {<<"}">>}

(***************************************************************************)
(* Statements.                                                             *)
(***************************************************************************)
PrintBlockPiece(b) == {<<"{", "NL">>} ++ PrintAll(b, <<>>, "statement") ++ {<<"}">>}
Optional(xs, P(_)) == IF xs = <<>> THEN {<<>>} ELSE P(xs[1])

\* printAssignment: its left-hand sides with their types, then by operator.
PrintLValue(a, k) ==
  LET lv == a[2][k] IN
  CASE lv[1] = "typed" -> {Dotted(lv[2]) \o <<":">> \o PrintType(lv[3])}
    [] lv[1] = "var" -> {Dotted(lv[2]) \o (IF Len(a[3]) >= k /\ a[3][k] # <<>> THEN <<":">> \o PrintType(a[3][k][1]) ELSE <<>>)}
    [] OTHER -> PrintExpr(lv)
RECURSIVE PrintLValues(_, _)
PrintLValues(a, k) ==
  IF k = Len(a[2]) THEN PrintLValue(a, k) ELSE PrintLValue(a, k) ++ {<<",">>} ++ PrintLValues(a, k + 1)
PrintAssignment(a) ==
  LET lhs == PrintLValues(a, 1)
      rhs == PrintAll(a[5], <<",">>, "expr")
      typed == Len(a[2]) = 1 /\ a[3] # <<>> /\ a[3][1] # <<>>
  IN CASE a[4] = ":=" -> lhs ++ {<<":=">>} ++ rhs
       [] a[4] # ":=" /\ a[5] = <<>> -> IF typed THEN {<<"var">>} ++ lhs ELSE lhs
       [] a[4] \in CompoundTokens /\ a[5] # <<>> -> lhs ++ {<<a[4]>>} ++ rhs
       [] OTHER -> (IF typed THEN {<<"var">>} ELSE {<<>>}) ++ lhs ++ {<<"=">>} ++ rhs

\* printEnsure.  An empty failure block is not printed.
PrintEnsureErrorName(err) == IF err[1] = "expr" THEN PrintExpr(err[2]) ELSE {<<err[2]>>}
PrintEnsureError(err) ==
  CASE err[1] = "call" -> {<<err[2], "(">>} ++ PrintAll(err[3], <<",">>, "expr") ++ {<<")">>}
    [] err[1] = "var" -> {<<err[2]>>}
    [] err[1] = "expr" -> PrintExpr(err[2])

PrintEnsureTarget(target) ==
  LET a == target[2] IN
  IF a[3] # <<>>
  THEN <<"NL", "is">> \o FormatAssertionMeet(a)
       \o Join([k \in 1..Len(a[3]) |-> <<"NL", "or">> \o FormatAssertionMeet(a[3][k])], <<>>)
  ELSE <<"is">> \o (IF target[1] = "type" THEN RawIdent(a[1]) ELSE FormatAssertion(a))

PrintEnsure(e) ==
  LET nilCheck == e[3] = "is" /\ e[4][1][2][1] = <<"Error">> /\ Len(e[4][1][2][2]) = 1 /\ e[4][1][2][2][1][1] = "Nil" IN
  {<<"ensure">> \o (IF e[3] = "bang" \/ nilCheck THEN <<"!">> ELSE <<>>)} ++ PrintExpr(e[2])
  ++ {IF e[3] = "is" /\ ~nilCheck THEN PrintEnsureTarget(e[4][1]) ELSE <<>>}
  ++ (IF e[5] = <<>> THEN {<<>>} ELSE {<<"NL", "else">>} ++ PrintEnsureError(e[5][1]))
  ++ (IF e[6] = <<>> \/ e[6][1] = <<>> THEN {<<>>} ELSE {<<"else">>} ++ PrintBlock(e[6][1]))

PrintElseIfsPiece(es) == IF es = <<>> THEN {<<>>}
                    ELSE {<<"else", "if">>} ++ PrintExpr(es[1][1]) ++ PrintBlock(es[1][2]) ++ PrintElseIfs(Tail(es))

PrintIf(s) ==
  {<<"if">>} ++ Optional(s[2], LAMBDA x : PrintStmt(x) ++ {<<";">>}) ++ PrintExpr(s[3]) ++ PrintBlock(s[4])
  ++ PrintElseIfs(s[5]) ++ Optional(s[6], LAMBDA b : {<<"else">>} ++ PrintBlock(b))

Label(l) == IF l = <<>> THEN <<>> ELSE <<l[1], ":">>
PrintFor(s) ==
  {Label(s[2]) \o <<"for">>}
  ++ (IF s[3] # <<>> \/ s[5] # <<>>
      THEN Optional(s[3], PrintStmt) ++ {<<";">>} ++ Optional(s[4], PrintExpr) ++ {<<";">>} ++ Optional(s[5], PrintStmt)
      ELSE Optional(s[4], PrintExpr))
  ++ PrintBlock(s[6])
PrintRange(s) ==
  {Label(s[2]) \o <<"for">>
   \o (IF s[3] = <<>> THEN <<>>
       ELSE s[3] \o (IF s[4] = <<>> THEN <<>> ELSE <<",">> \o s[4]) \o <<IF s[5] THEN ":=" ELSE "=">>)
   \o <<"range">>} ++ PrintExpr(s[6]) ++ PrintBlock(s[7])

\* printStmt: switch, fallthrough and constants are errors.
PrintStmtPiece(s) ==
  CASE s[1] = "comment" -> {<<CommentToken>>}
    [] s[1] = "assign" -> PrintAssignment(s)
    [] s[1] = "return" -> {<<"return">>} ++ PrintAll(s[2], <<",">>, "expr")
    [] s[1] = "ensure" -> PrintEnsure(s)
    [] s[1] = "use" -> {<<"use">> \o (IF s[2] = <<>> THEN <<>> ELSE <<s[2][1], ":">>) \o PrintType(s[3])}
    [] s[1] = "with" -> {<<"with">>} ++ PrintExpr(s[2]) ++ PrintBlock(s[3])
    [] s[1] = "if" -> PrintIf(s)
    [] s[1] = "for" -> PrintFor(s)
    [] s[1] = "range" -> PrintRange(s)
    [] s[1] \in {"break", "continue"} -> {<<s[1]>> \o s[2]}
    [] s[1] = "goto" -> {<<"goto", s[2]>>}
    [] s[1] = "label" -> {<<s[2], ":", "NL">>} ++ PrintStmt(s[3])
    [] s[1] \in {"defer", "go"} -> {<<s[1]>>} ++ PrintExpr(s[2])
    [] s[1] \in {"switch", "fallthrough"} -> {}
    [] OTHER -> PrintExpr(s)

(***************************************************************************)
(* Declarations.                                                           *)
(***************************************************************************)
PrintParamPlain(p) == IF p[1] = "destructured" THEN <<"{">> \o p[2] \o <<"}">> \o PrintType(p[3]) ELSE <<p[2]>> \o PrintType(p[3])
PrintParam(p) ==
  CASE p[1] = "param" -> <<p[2]>> \o PrintType(p[3])
    [] p[1] = "variadic" -> <<p[2], "...">> \o PrintType(p[3])
    [] p[1] = "destructured" ->
         <<"{">> \o Join([k \in 1..Len(p[2]) |-> <<p[2][k]>>], <<",">>) \o <<"}">> \o PrintType(p[3])
PrintParams(ps) == Join([k \in 1..Len(ps) |-> PrintParam(ps[k])], <<",">>)

\* printFunction: several results are printed without parentheses.
PrintFunction(f) ==
  {<<"func">>
   \o (IF f[2] = <<>> THEN <<>> ELSE <<"(">> \o f[2][1][1] \o PrintType(f[2][1][2]) \o <<")">>)
   \o <<f[3]>>
   \o (IF f[4] = <<>> THEN <<>>
       ELSE <<"[">> \o Join([k \in 1..Len(f[4]) |->
              <<f[4][k][1]>> \o (IF f[4][k][2] = <<>> THEN <<>> ELSE PrintType(f[4][k][2][1]))], <<",">>) \o <<"]">>)
   \o <<"(">> \o PrintParams(f[5]) \o <<")">>
   \o (IF f[6] = <<>> THEN <<>> ELSE <<":">> \o Join([k \in 1..Len(f[6]) |-> PrintType(f[6][k])], <<",">>))}
  ++ PrintBlock(f[7])

\* printTypeGuard: the additional parameters are printed next to the subject.
PrintTypeGuard(g) ==
  {<<"is", "(">> \o PrintParam(g[2]) \o Join([k \in 1..Len(g[4]) |-> <<",">> \o PrintParam(g[4][k])], <<>>)
   \o <<")", g[3]>>} ++ PrintBlock(g[5])

\* printTypeDefAssertion, on what parseTypeDefExpr keeps of a type.
PrintTypeDefExprPiece(e) ==
  CASE e[1] = "assertion" /\ e[2][1] = <<>> /\ e[2][2][1][1] = "Value" -> PrintExpr(e[2][2][1][2][1][2])
    [] e[1] = "assertion" /\ ~(e[2][1] = <<>> /\ e[2][2][1][1] = "Value") -> {FormatAssertion(e[2])}
    [] e[1] = "tref" -> {TypeIdentString(TypeIdentOf(e[2]))}
    [] e[1] = "tbinary" -> PrintTypeDefExpr(e[3]) ++ {<<e[2]>>} ++ PrintTypeDefExpr(e[4])
    [] e[1] = "tshape" -> PrintShape(e[2])

\* flattenTypeDefSameOp; three members or more go one to a line, each after its operator.
FlattenSameOpPiece(e, op) == IF e[1] = "tbinary" /\ e[2] = op
                        THEN FlattenSameOp(e[3], op) \o FlattenSameOp(e[4], op) ELSE <<e>>

RECURSIVE LeadingOps(_, _)
LeadingOps(ms, op) == IF ms = <<>> THEN {<<>>}
                      ELSE {<<"NL", op>>} ++ PrintTypeDefExpr(ms[1]) ++ LeadingOps(Tail(ms), op)
PrintTypeDef(d) ==
  {<<"type", d[2], "=">>}
  ++ (IF d[3][1] = "tbinary" /\ Len(FlattenSameOp(d[3], d[3][2])) > 2
      THEN LeadingOps(FlattenSameOp(d[3], d[3][2]), d[3][2]) ELSE PrintTypeDefExpr(d[3]))

PrintImport(i) == i[2] \o <<i[3]>> \o (IF i[4] THEN <<"js">> ELSE <<>>)

\* printTopLevel: package variables and constants are errors.
PrintTopLevel(d) ==
  CASE d[1] = "package" -> {<<"package", d[2]>>}
    [] d[1] = "import" -> {<<"import">> \o PrintImport(d)}
    [] d[1] = "imports" -> {<<"import", "(", "NL">> \o Join([k \in 1..Len(d[2]) |-> PrintImport(d[2][k]) \o <<"NL">>], <<>>) \o <<")", "NL">>}
    [] d[1] = "typedef" -> PrintTypeDef(d)
    [] d[1] = "error" -> {<<"error", d[2]>>} ++ PrintShape(d[3])
    [] d[1] = "fn" -> PrintFunction(d)
    [] d[1] = "guard" -> PrintTypeGuard(d)
    [] d[1] = "comment" -> {<<CommentToken>>}
    [] OTHER -> {}

PrintFilePiece(ds) == IF ds = <<>> THEN {<<>>} ELSE PrintTopLevel(ds[1]) ++ {<<"NL">>} ++ PrintFile(Tail(ds))

\* One case by name.
Piece(piece, a) ==
  CASE piece = "PrintAll" -> PrintAllPiece(a[1], a[2], a[3])
    [] piece = "PrintType" -> PrintTypePiece(a[1])
    [] piece = "FormatAssertion" -> FormatAssertionPiece(a[1])
    [] piece = "PrintExpr" -> PrintExprPiece(a[1])
    [] piece = "PrintShape" -> PrintShapePiece(a[1])
    [] piece = "AstType" -> AstTypePiece(a[1])
    [] piece = "PrintStmt" -> PrintStmtPiece(a[1])
    [] piece = "PrintBlock" -> PrintBlockPiece(a[1])
    [] piece = "PrintTypeDefExpr" -> PrintTypeDefExprPiece(a[1])
    [] piece = "FlattenSameOp" -> FlattenSameOpPiece(a[1], a[2])
    [] piece = "PrintElseIfs" -> PrintElseIfsPiece(a[1])
    [] piece = "PrintFile" -> PrintFilePiece(a[1])

(***************************************************************************)
(* FormatDocument: what becomes of a text.  A parse error that is a panic  *)
(* is not caught; an error value and an unsupported node leave the text    *)
(* as it is, but for white space.                                          *)
(***************************************************************************)
RECURSIVE Lines(_, _)
Lines(text, line) == IF text = <<>> THEN <<>>
                     ELSE IF text[1] = "NL" THEN Lines(Tail(text), line + 1) ELSE <<line>> \o Lines(Tail(text), line)
NotBreak(tok) == tok # "NL"
Stream(text) == [tok |-> SelectSeq(text, NotBreak), line |-> Lines(text, 1), package |-> "", ctx |-> "func"]
Parse(text) == {r[1] : r \in ParseFile(Stream(text))}

Printed(text, ds, out) == IF (\E k \in 1..Len(ds) : ds[k] = <<"unexpected">>) \/ out = {} THEN {text} ELSE out
Reprinted(text, parsed) == IF parsed = {} THEN {<<"panic">>} ELSE UNION {Printed(text, ds, PrintFile(ds)) : ds \in parsed}
FormatDocument(text) == Reprinted(text, Parse(text))
=============================================================================
