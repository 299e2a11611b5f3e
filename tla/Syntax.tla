------------------------------- MODULE Syntax -------------------------------
(***************************************************************************)
(* What the parser and the formatter promise about whole texts.            *)
(***************************************************************************)
EXTENDS Integers, Sequences, Subject
LOCAL INSTANCE Printer

\* Statements, by what the formatter does to them.
KeptStatements ==
  {<<"x", ":=", "1">>, <<"x", "=", "y", "+", "1">>, <<"x", "+=", "1">>, <<"*", "p", "=", "1">>,
   <<"x", ",", "y", "=", "f", "(", ")", ",", "1">>, <<"var", "x", ":", "Int", "=", "1">>, <<"var", "x", ":", "[", "]", "String">>,
   <<"x", "++">>, <<"f", "(", "x", ",", "-", "1", ")">>, <<"return", "x", ",", "1">>, <<"return">>,
   <<"break">>, <<"continue", "l">>, <<"goto", "l">>, <<"defer", "f", "(", ")">>, <<"use", "y", ":", "A">>,
   <<"with", "{", "x", ":", "1", "}", "{", "f", "(", ")", "}">>,
   <<"if", "x", ":=", "f", "(", ")", ";", "x", "==", "1", "{", "return", "}", "else", "if", "y", "{", "}", "else", "{", "x", "++", "}">>,
   <<"for", "x", ":=", "1", ";", "x", "<", "2", ";", "x", "++", "{", "break", "}">>,
   <<"for", "x", ",", "y", ":=", "range", "p", "{", "}">>, <<"l", ":", "for", "{", "continue", "l", "}">>,
   <<"ensure", "x", "is", "Min", "(", "1", ")", "else", "f", "(", "y", ")">>,
   <<"ensure", "x", "is", "A", "else", "{", "f", "(", ")", "}">>, <<"ensure", "!", "x">>, <<"ensure", "x">>,
   <<"x", "=", "A", "{", "x", ":", "1", ",", "y", ":", "{", "p", ":", "x", "}", "}">>,
   <<"x", "=", "[", "1", ",", "y", "]">>, <<"x", "=", "map", "[", "String", "]", "Int", "{", "'s'", ":", "1", "}">>,
   <<"x", "=", "&", "y">>, <<"x", "=", "p", "[", "1", "]">>, <<"x", "=", "[", "2", "]", "Int", "{", "1", "}">>}
ChangedStatements ==
  {<<"x", "=", "(", "x", "+", "1", ")", "*", "y">>, <<"x", "=", "2.0">>,
   <<"ensure", "x", "is", "Int">>, <<"ensure", "x", "is", "Error", ".", "Nil", "(", ")">>,
   <<"var", "x", "=", "1">>, <<"x", "<-", "1">>, <<"ensure", "x", "is", "A", "else", "{", "}">>,
   <<"x", "=", "{", "y", "}">>, <<"x", "=", "f", "(", "x", "*", "(", "*", "p", ")", ")">>}
BrokenStatements ==
  {<<"x", "=", "-", "-", "1">>, <<"x", "=", "{", "y", ":", "f", "(", ")", "}">>,
   <<"var", "x", ":", "map", "[", "String", "]", "Int">>, <<"var", "x", ":", "chan", "Int">>}
UnsupportedStatements ==
  {<<"x", "=", "f", "(", ")", ".", "y">>, <<"return", "Ok", "(", "x", ")">>, <<"x", "=", "p", "[", "1", ":", "]">>,
   <<"switch", "x", "{", "case", "1", ":", "f", "(", ")", "fallthrough", "default", ":", "}">>,
   <<"if", "x", "is", "A", "{", "}">>, <<"f", "(", "func", "(", ")", "{", "return", "}", ")">>,
   <<"x", "=", "make", "(", "[", "]", "Int", ",", "1", ")">>, <<"f", "(", "p", "...", ")">>}
Statements == KeptStatements \union ChangedStatements \union BrokenStatements \union UnsupportedStatements

\* Declarations, likewise.
KeptDeclarations ==
  {<<"import", "x", "'a/b'">>, <<"import", "(", "'fmt'", "'./m'", "js", ")">>, <<"type", "A", "=", "'s'", "|", "B", "|", "1">>,
   <<"type", "B", "=", "{", "x", ":", "Int", ",", "y", ":", "A", ".", "Min", "(", "1", ")", "}">>, <<"error", "A", "{", "}">>,
   <<"func", "f", "(", "x", "Int", ",", "y", "...", "String", ")", ":", "Result", "(", "Int", ",", "Error", ")", "{", "return", "x", "}">>,
   <<"func", "(", "x", "*", "A", ")", "f", "(", ")", "{", "}">>, <<"func", "main", "(", ")", "{", "}">>,
   <<"func", "f", "[", "A", ",", "B", "]", "(", "x", "A", ")", "{", "}">>,
   <<"is", "(", "x", "Int", ")", "Max", "{", "ensure", "x", "is", "Min", "(", "1", ")", "}">>,
   <<"is", "(", "x", "Int", ")", "Max", "ensure", "x">>, <<CommentToken>>}
ChangedDeclarations ==
  {<<"type", "A", "=", "{", "x", ":", "Int", "'s'", "}">>, <<"func", "f", "(", "x", "[", "2", "]", "Int", ")", "{", "}">>}
BrokenDeclarations ==
  {<<"func", "f", "(", ")", ":", "(", "Int", ",", "String", ")", "{", "}">>, <<"type", "A", "=", "[", "]", "Int">>,
   <<"is", "(", "x", "Int", ")", "Max", "(", "y", "Int", ")", "{", "}">>,
   <<"type", "A", "=", "{", "x", ":", "{", "y", ":", "Int", "}", "}">>}
UnsupportedDeclarations ==
  {<<"var", "x", "=", "1">>, <<"const", "x", "=", "1">>, <<"const", "(", "x", "=", "iota", "y", ")">>,
   <<"var", "y", "=", "func", "(", ")", "{", "return", "}">>,
   <<"var", "y", "=", "func", "(", ")", "{", "ensure", "x", "else", "f", "(", ")", "}">>}
Declarations == KeptDeclarations \union ChangedDeclarations \union BrokenDeclarations \union UnsupportedDeclarations

Func(body) == <<"func", "f", "(", ")", "{", "NL">> \o body \o <<"NL", "}">>

(***************************************************************************)
(* Expressions: a tree, written with all parentheses and with none that    *)
(* the precedences make redundant.                                         *)
(***************************************************************************)
X == <<"var", <<"x">>>>
CallF == <<"call", <<"var", <<"f">>>>, <<>>, <<>>>>
StarP == <<"deref", <<"var", <<"p">>>>>>
IsA == Assertion(<<"A">>, <<>>)
TreeOperators == {"||", "&&", "==", "+", "-", "|", "*"}
Binaries(es, fs) == {<<"binary", op, l, r>> : op \in TreeOperators, l \in es, r \in fs}
SmallTrees == {X, CallF, StarP, <<"unary", "-", X>>, <<"unary", "!", X>>, <<"is", X, IsA>>}
              \union Binaries({X, CallF}, {X, CallF})
Trees == Binaries(SmallTrees, SmallTrees) \union {<<"is", l, IsA>> : l \in SmallTrees}
         \union {<<"unary", op, e>> : op \in {"-", "!"}, e \in SmallTrees}

\* The strength a reader gives a node, from the loosest operator to a name.
Strength(e) == CASE e[1] = "binary" -> (CASE e[2] = "||" -> 1 [] e[2] = "&&" -> 2 [] e[2] = "==" -> 3
                                          [] e[2] \in {"+", "-", "|"} -> 4 [] e[2] = "*" -> 5)
                 [] e[1] = "is" -> 3 [] e[1] \in {"unary", "deref"} -> 6 [] OTHER -> 7
RECURSIVE TextOf(_, _)
TextOf(e, all) ==
  LET Operand(c, least) == IF (all /\ Strength(c) < 7) \/ Strength(c) < least
                           THEN <<"(">> \o TextOf(c, all) \o <<")">> ELSE TextOf(c, all)
      n == Strength(e)
  IN CASE e[1] = "var" -> e[2]
       [] e[1] = "call" -> e[2][2] \o <<"(", ")">>
       [] e[1] = "deref" -> <<"*">> \o Operand(e[2], 7)
       [] e[1] = "unary" -> <<e[2]>> \o Operand(e[3], n)
       [] e[1] = "is" -> Operand(e[2], n) \o <<"is", "A">>
       [] e[1] = "binary" -> Operand(e[3], n) \o <<e[2]>> \o Operand(e[4], n + 1)

RECURSIVE Subtrees(_)
Subtrees(e) == {e} \union (CASE e[1] = "binary" -> Subtrees(e[3]) \union Subtrees(e[4])
                             [] e[1] = "unary" -> Subtrees(e[3]) [] e[1] = "is" -> Subtrees(e[2]) [] OTHER -> {})
\* `|` after a call, and a product whose right operand is written with a star.
Misread(e, all) == \E s \in Subtrees(e) : /\ s[1] = "binary"
                                          /\ \/ s[2] = "|" /\ s[3][1] = "call"
                                             \/ s[2] = "*" /\ s[4][1] = "deref" /\ ~all
OneLine(text) == [tok |-> text, line |-> [k \in 1..Len(text) |-> 1], package |-> "", ctx |-> "func"]
ReadBack(e, all) == ParseExpr(OneLine(TextOf(e, all)), 1, 0, 0) = {<<e, Len(TextOf(e, all)) + 1>>}

\* Nesting: k parentheses around a call or nothing, around m negations of x.
Repeat(tok, n) == [k \in 1..n |-> tok]
Nested(k, m, call) == Repeat("(", k) \o (IF call THEN <<"f", "(">> ELSE <<>>) \o Repeat("!", m) \o <<"x">>
                      \o (IF call THEN <<")">> ELSE <<>>) \o Repeat(")", k)

(***************************************************************************)
(* Sequences of statements and of declarations.                            *)
(***************************************************************************)
Separators == {<<>>, <<"NL">>, <<"NL", CommentToken, "NL">>}
ReadBlock(body) == {r[1] : r \in ParseBlock(Stream(<<"{">> \o body \o <<"}">>), 1)}

EndsInExpression(s) ==
  \/ s[1] \in {"return", "defer"} \/ (s[1] = "f" /\ s[2] = "(")
  \/ \E k \in 1..Len(s) :
       \/ s[1] \notin {"if", "for", "l"} /\ s[k] \in {"=", ":=", "+=", "<-"}
       \/ s[1] = "ensure" /\ s[k] = "else" /\ s[Len(s)] # "}"
\* What the parser reads on with instead of ending the statement s.
ReadsOn(s, sep, u) ==
  LET next == IF Len(sep) > 1 THEN CommentToken ELSE u[1] IN
  \/ s = <<"return">>
  \/ s = <<"break">> /\ next \in Words
  \/ s = <<"ensure", "x">> /\ next \notin EnsureEnds
  \/ EndsInExpression(s) /\ next = "*"
  \/ s = <<"x", "=", "[", "1", ",", "y", "]">> /\ sep = <<>> /\ next \in Words

Header == <<"package", "main", "NL">>
File(ds) == Header \o Join([k \in 1..Len(ds) |-> ds[k] \o <<"NL">>], <<>>)
ReadDeclarations(ds) == {SubSeq(file, 2, Len(file)) : file \in Parse(File(ds))}
IsGuard(d) == d[1] = "is"
OpensScope(d) == d[1] \in {"is", "func"}
HasLiteral(d) == d[1] = "var" /\ Len(d) > 4
\* The declarations before k leave the parser in the scope of the last function or guard.
ScopeBefore(ds, k) ==
  LET opened == {m \in 1..(k - 1) : OpensScope(ds[m])} IN
  IF opened = {} THEN "func"
  ELSE LET d == ds[CHOOSE m \in opened : \A n \in opened : n <= m] IN
       IF IsGuard(d) THEN "guard" ELSE IF d[2] = "main" THEN "main" ELSE "func"
DeclarationsMixUp(ds) ==
  \/ \E k \in 2..Len(ds) :
       \/ IsGuard(ds[k]) /\ ds[k - 1][1] \in {"var", "const"} /\ ds[k - 1][2] # "("
       \/ ds[k - 1][Len(ds[k - 1])] = "x" /\ ds[k][1] \notin EnsureEnds
  \/ \E k \in 1..Len(ds) : /\ HasLiteral(ds[k])
                           /\ \/ ScopeBefore(ds, k) = "guard"
                              \/ ScopeBefore(ds, k) = "main" /\ ds[k][8] = "ensure"

(***************************************************************************)
(* Formatting: the worst of what becomes of the parts.                     *)
(***************************************************************************)
Verdict(text, before, out, after, again) ==
  CASE \E ds \in before : PrintFile(ds) = {} -> IF out = {text} THEN "left alone" ELSE "?"
    [] OTHER -> IF after = {} \/ \E ds \in after : ds[Len(ds)] = <<"unexpected">> THEN "broken"
                ELSE IF after # before THEN "changed"
                ELSE IF again = out THEN "kept" ELSE "unstable"
FormattedAs(text, before, out) ==
  Verdict(text, before, out, UNION {Parse(g) : g \in out}, UNION {FormatDocument(g) : g \in out})
Formatted(text) == FormattedAs(text, Parse(text), FormatDocument(text))
Expected(parts, unsupported, broken, changed) ==
  CASE parts \intersect unsupported # {} -> "left alone"
    [] parts \intersect unsupported = {} /\ parts \intersect broken # {} -> "broken"
    [] parts \intersect (unsupported \union broken) = {} /\ parts \intersect changed # {} -> "changed"
    [] OTHER -> "kept"

ScopeOpeners == {d \in Declarations : IsGuard(d) \/ (OpensScope(d) /\ d[2] = "main")}
ShortStatements == {u \in Statements : Len(u) <= 5}
SyntaxInputs ==
  [part : {"tree"}, e : Trees, all : BOOLEAN]
    \cup [part : {"nesting"}, k : 0..(MaxExpressionDepth + 1), m : 0..(MaxExpressionDepth + 1), call : BOOLEAN]
    \cup [part : {"statements"}, s : Statements, sep : Separators, u : ShortStatements]
    \cup [part : {"declarations"}, ds : {<<d1, d2, d3>> : d1 \in ScopeOpeners, d2, d3 \in Declarations}]
SyntaxInit == subject \in SyntaxInputs
OfSyntax == subject.part \in {"tree", "nesting", "statements", "declarations"}
SyntaxNext == OfSyntax /\ Compute

ReadWell(p) ==
  CASE p.part = "tree" -> ReadBack(p.e, p.all) <=> ~Misread(p.e, p.all)
    [] p.part = "nesting" ->
         (ParseExpr(OneLine(Nested(p.k, p.m, p.call)), 1, 0, 0) # {})
         <=> IF p.call THEN p.k <= MaxExpressionDepth /\ p.m <= MaxExpressionDepth
             ELSE p.k + p.m <= MaxExpressionDepth
    [] p.part = "statements" ->
         LET comment == IF Len(p.sep) > 1 THEN <<<<"comment">>>> ELSE <<>>
             read == [body \in {p.s, p.u, p.s \o p.sep \o p.u} |-> ReadBlock(body)]
         IN (read[p.s \o p.sep \o p.u] = {x \o comment \o y : x \in read[p.s], y \in read[p.u]})
            <=> ~ReadsOn(p.s, p.sep, p.u)
    [] p.part = "declarations" ->
         LET read == [ds \in {<<d>> : d \in {p.ds[1], p.ds[2], p.ds[3]}} \cup {p.ds} |-> ReadDeclarations(ds)]
         IN (read[p.ds] = {x \o y \o z : x \in read[<<p.ds[1]>>], y \in read[<<p.ds[2]>>], z \in read[<<p.ds[3]>>]})
            <=> ~DeclarationsMixUp(p.ds)

\* The parser reads what was written: an expression tree comes back from its text with all
\* parentheses and from the text with only those that operator precedence needs, unless `|` follows
\* a call or a bare product has a dereference on its right; nesting is accepted exactly up to the
\* depth limit, counted anew in call arguments; two statements on one line, on two lines or with a
\* comment between are read as they are alone, except where the first reads on (a bare return, a
\* break before a name, an ensure without `is`, an expression before `*`, an array before a name on
\* its line); three declarations are read as they are alone, except a type guard after a variable or
\* constant, what follows a guard with a bare ensure, and function literals of package variables
\* after a guard or main, whose scope was never closed.
ParserSound == OfSyntax /\ Computed => ReadWell(subject)

\* The formatter drops the keyword of `var x = 1`: the name becomes the label of a break before it.
DropsVar(s, sep, u) == s = <<"break">> /\ Len(sep) < 2 /\ u = <<"var", "x", "=", "1">>

FormattedWell(p) ==
  LET parts == IF p.part = "statements" THEN {p.s, p.u} ELSE {p.ds[k] : k \in 1..3}
      text == IF p.part = "statements" THEN Func(p.s \o p.sep \o p.u) ELSE File(p.ds)
      dropsVar == p.part = "statements" /\ DropsVar(p.s, p.sep, p.u)
  IN /\ p.part \in {"statements", "declarations"}
     /\ IF p.part = "statements" THEN ~ReadsOn(p.s, p.sep, p.u) ELSE ~DeclarationsMixUp(p.ds)
     => Formatted(text) =
          IF dropsVar THEN "broken"
          ELSE IF p.part = "statements"
               THEN Expected(parts, UnsupportedStatements, BrokenStatements, ChangedStatements)
               ELSE Expected(parts, UnsupportedDeclarations, BrokenDeclarations, ChangedDeclarations)

\* The formatter keeps the program: formatting two statements of a function, or three declarations,
\* gives a text that parses to the same nodes and that formatting again leaves as it is, unless a
\* part is one the printer loses (no parentheses, float without fraction, built-in type after `is`,
\* dropped tag...), breaks (channel and map types, several results, guard parameters...) or does not
\* support; the text is then changed, no longer parses, or is left alone as a whole.
FormatterSound == OfSyntax /\ Computed => FormattedWell(subject)
=============================================================================
