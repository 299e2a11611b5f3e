------------------------------- MODULE Fields -------------------------------
(***************************************************************************)
(* What a selector means: the type checker's search for a dotted path in   *)
(* named shapes, inline shapes, pointers, aliases and embedded fields, and *)
(* the type of a field that is given by a value.                           *)
(*                                                                         *)
(* A type is an identifier with parameters; a definition is an alias of a  *)
(* type, a shape, an assertion that has no base type, or the structure of  *)
(* a Go type in a sibling package.  A type may also be an assertion that   *)
(* adds the fields of a shape to those of a base type.  A shape is         *)
(* a sequence of fields: name, whether it is embedded, and a type, an      *)
(* inline shape or a value (sequences of at most one).  Values: a dotted   *)
(* variable, a literal of a type, nil, an array, or a reference to a       *)
(* variable.  Method fields and assertions as field types are left out,    *)
(* and so are recursive definitions, on which the search does not end.     *)
(***************************************************************************)
EXTENDS Integers, Sequences, SequencesExt

Plain(id) == [id |-> id, of |-> <<>>]
PointerTo(t) == [id |-> "Pointer", of |-> <<t>>]
\* base.Match({ the fields of extra })
Asserted(base, extra) == [id |-> "Assertion", of |-> <<Plain(base), Plain(extra)>>]
AliasOf(t) == [alias |-> <<t>>, shape |-> <<>>, match |-> <<>>, go |-> <<>>]
ShapeDef(fields) == [AliasOf(Plain("none")) EXCEPT !.alias = <<>>, !.shape = <<fields>>]
MatchDef(fields) == [ShapeDef(<<>>) EXCEPT !.shape = <<>>, !.match = <<fields>>]
GoDef(fields) == [ShapeDef(<<>>) EXCEPT !.shape = <<>>, !.go = <<fields>>]
NamedField(name, t) == [name |-> name, embedded |-> FALSE, type |-> <<t>>, shape |-> <<>>, value |-> <<>>]
InlineField(name, fields) == [name |-> name, embedded |-> FALSE, type |-> <<>>, shape |-> <<fields>>, value |-> <<>>]
ValueField(name, v) == [name |-> name, embedded |-> FALSE, type |-> <<>>, shape |-> <<>>, value |-> <<v>>]
EmbeddedField(t) == [NamedField(IF t.id = "Pointer" THEN t.of[1].id ELSE t.id, t) EXCEPT !.embedded = TRUE]

Answer(t) == [k |-> "type", t |-> t]
NotFound == [k |-> "none", t |-> Plain("none")]
Ambiguous == [k |-> "ambiguous", t |-> Plain("none")]
Resolves(r) == r.k = "type"
FieldOf(fields, x) == SelectSeq(fields, LAMBDA f : f.name = x)

RECURSIVE AliasChain(_, _, _)
AliasChain(d, t, visited) ==
    IF t.id \notin DOMAIN d \/ d[t.id].alias = <<>>
    THEN t
    ELSE LET base == d[t.id].alias[1]
         IN CASE base.of # <<>> -> base
              [] base.id \in visited -> t
              [] OTHER -> AliasChain(d, base, visited \cup {base.id})
ResolveTypeAliasChain(d, t) == AliasChain(d, t, {})

\* The chain of names a type goes by, the type itself first: along aliases,
\* and along the type inferred for one that has no definition.
Onward(d, inferred, t) ==
    IF t.id \in DOMAIN d THEN [i \in DOMAIN d[t.id].alias |-> Plain(d[t.id].alias[1].id)]
    ELSE IF t.id \in DOMAIN inferred THEN <<inferred[t.id]>> ELSE <<>>
RECURSIVE NamesFrom(_, _, _, _)
NamesFrom(d, inferred, t, visited) ==
    LET next == SelectSeq(Onward(d, inferred, t), LAMBDA u : u.id \notin visited)
    IN IF next = <<>> THEN <<t>> ELSE <<t>> \o NamesFrom(d, inferred, next[1], visited \cup {next[1].id})
GetTypeAliasChain(d, inferred, t) == NamesFrom(d, inferred, t, {t.id})

\* A search is in a type, in the payload of a definition or in an inline shape.
In(place, t, fields, path) == [place |-> place, t |-> t, fields |-> fields, path |-> path]
InType(t, path) == In("type", t, <<>>, path)
InPayload(fields, path) == In("payload", Plain("none"), fields, path)
InShape(fields, path) == In("shape", Plain("none"), fields, path)

\* env gives variables, and dotted paths an ensure has narrowed, their types.
RECURSIVE Search(_, _, _)
LookupFieldPath(d, env, t, path) == Search(d, env, InType(t, path))

LookupVariableForExpression(d, env, parts) ==
    CASE parts \in DOMAIN env -> Answer(env[parts])
      [] <<parts[1]>> \notin DOMAIN env -> NotFound
      [] OTHER -> LookupFieldPath(d, env, env[<<parts[1]>>], Tail(parts))
Referenced(r) == IF Resolves(r) THEN Answer(PointerTo(r.t)) ELSE r
OrExpected(r, expected) == IF Resolves(r) \/ expected = <<>> THEN r ELSE Answer(expected[1])
InferVariableValue(d, env, v, expected) == OrExpected(LookupVariableForExpression(d, env, v.parts), expected)
InferNilValue(expected) == IF expected = <<>> THEN Answer(PointerTo(Plain("String"))) ELSE Answer(expected[1])
InferReferenceValue(d, env, v, expected) == OrExpected(Referenced(LookupVariableForExpression(d, env, v.parts)), expected)
InferValueConstraintType(d, env, v, expected) ==
    CASE v.kind = "literal" -> Answer(v.t)
      [] v.kind = "array" -> OrExpected(NotFound, expected)
      [] v.kind = "nil" -> InferNilValue(expected)
      [] v.kind = "variable" -> InferVariableValue(d, env, v, expected)
      [] v.kind = "reference" -> InferReferenceValue(d, env, v, expected)

\* The fields behind an embedded field, or its type when they are not at hand.
EmbeddedIn(d, f, path) ==
    IF f.shape # <<>>
    THEN InShape(f.shape[1], path)
    ELSE LET t == ResolveTypeAliasChain(d, f.type[1])
         IN IF t.id \in DOMAIN d /\ d[t.id].shape # <<>> THEN InShape(d[t.id].shape[1], path) ELSE InType(t, path)
\* An embedded field in which the path is not found, or is ambiguous, is passed over.
LookupPromotedFirst(d, env, fields, path) ==
    LET embeds == SelectSeq(fields, LAMBDA f : f.embedded)
        found == SelectSeq([i \in DOMAIN embeds |-> Search(d, env, EmbeddedIn(d, embeds[i], path))], Resolves)
    IN IF found = <<>> THEN NotFound ELSE found[1]
LookupPromotedFieldInPayload(d, env, fields, path) ==
    LET embeds == SelectSeq(fields, LAMBDA f : f.embedded)
        found == SelectSeq([i \in DOMAIN embeds |-> Search(d, env, EmbeddedIn(d, embeds[i], path))], Resolves)
    IN CASE found = <<>> -> NotFound
         [] Len(found) = 1 -> found[1]
         [] OTHER -> Ambiguous
FieldFound(d, env, s, f) ==
    CASE f.type # <<>> /\ Len(s.path) = 1 -> Answer(ResolveTypeAliasChain(d, f.type[1]))
      [] f.shape # <<>> /\ Len(s.path) > 1 -> Search(d, env, InShape(f.shape[1], Tail(s.path)))
      [] f.shape # <<>> /\ Len(s.path) = 1 -> Answer(Plain("Shape"))
      [] f.type # <<>> /\ Len(s.path) > 1 -> LookupFieldPath(d, env, f.type[1], Tail(s.path))
      [] f.value # <<>> /\ (Len(s.path) = 1 \/ s.place = "shape") -> InferValueConstraintType(d, env, f.value[1], <<>>)
      [] OTHER -> NotFound
LookupFieldPathOnShape(d, env, s) ==
    LET named == FieldOf(s.fields, s.path[1])
    IN IF named = <<>>
       THEN LookupPromotedFieldInPayload(d, env, s.fields, s.path)
       ELSE FieldFound(d, env, s, named[1])
\* Fields of an assertion: those of its base, overridden by those it adds.
RECURSIVE ResolveShapeFieldsFromAssertion(_, _)
ResolveShapeFieldsFromAssertion(d, t) ==
    CASE t.id = "Assertion" ->
            LET added == d[t.of[2].id].shape[1]
            IN SelectSeq(ResolveShapeFieldsFromAssertion(d, t.of[1]), LAMBDA f : FieldOf(added, f.name) = <<>>) \o added
      [] t.id \notin DOMAIN d -> <<>>
      [] d[t.id].alias # <<>> -> ResolveShapeFieldsFromAssertion(d, d[t.id].alias[1])
      [] OTHER -> FlattenSeq(d[t.id].shape \o d[t.id].match)
\* Only the first name of the path is looked up, and nothing is promoted.
LookupFieldInAssertion(d, t, x) ==
    LET named == FieldOf(ResolveShapeFieldsFromAssertion(d, t), x)
    IN CASE named = <<>> -> NotFound
         [] named[1].type # <<>> -> Answer(ResolveTypeAliasChain(d, named[1].type[1]))
         [] named[1].shape # <<>> -> Answer(Plain("Shape"))
         [] OTHER -> NotFound
\* types.LookupFieldOrMethod, for a Go structure whose fields have plain types.
LookupFieldPathFromGoType(fields, path) ==
    LET named == FieldOf(fields, path[1])
    IN IF named = <<>> \/ Len(path) > 1 THEN NotFound ELSE Answer(named[1].type[1])
LookupInResolved(d, env, t, path) ==
    CASE t.id = "Pointer" -> LookupFieldPath(d, env, t.of[1], path)
      [] t.id = "Implicit" -> Answer(t)
      [] t.id = "Assertion" -> LookupFieldInAssertion(d, t, path[1])
      [] t.id \notin DOMAIN d -> NotFound
      [] d[t.id].shape # <<>> -> Search(d, env, InPayload(d[t.id].shape[1], path))
      [] d[t.id].match # <<>> -> LookupFieldInAssertion(d, t, path[1])
      [] d[t.id].go # <<>> -> LookupFieldPathFromGoType(d[t.id].go[1], path)
Search(d, env, s) ==
    CASE s.place # "type" -> LookupFieldPathOnShape(d, env, s)
      [] s.path = <<>> -> Answer(s.t)
      [] OTHER -> LookupInResolved(d, env, ResolveTypeAliasChain(d, s.t), s.path)

\* ----- Go's rule -----

\* The variables in scope.
Env == [p \in {<<"v">>, <<"w">>} |-> IF p = <<"v">> THEN Plain("E") ELSE Plain("String")]

\* A type inferred for a name that has no definition.
Inferred == [n \in {"T_1"} |-> Plain("E")]

\* The structure a type selects from: aliases and one pointer looked through.
StructOf(d, t) ==
    LET r == ResolveTypeAliasChain(d, t)
        u == IF r.id = "Pointer" THEN ResolveTypeAliasChain(d, r.of[1]) ELSE r
    IN CASE u.id = "Assertion" -> <<ResolveShapeFieldsFromAssertion(d, u)>>
         [] u.id \in DOMAIN d -> d[u.id].shape \o d[u.id].match \o d[u.id].go
         [] OTHER -> <<>>
FieldsOf(d, f) == IF f.shape # <<>> THEN f.shape ELSE IF f.type # <<>> THEN StructOf(d, f.type[1]) ELSE <<>>
\* The fields of the name at the shallowest depth that has any.
RECURSIVE Shallowest(_, _, _)
Shallowest(d, structs, x) ==
    LET named == FlattenSeq([i \in DOMAIN structs |-> FieldOf(structs[i], x)])
        deeper == FlattenSeq([i \in DOMAIN structs |->
                      FlattenSeq([j \in DOMAIN structs[i] |->
                          IF structs[i][j].embedded THEN FieldsOf(d, structs[i][j]) ELSE <<>>])])
    IN IF named # <<>> \/ deeper = <<>> THEN named ELSE Shallowest(d, deeper, x)
RECURSIVE Selected(_, _, _)
TypeOfValue(d, v) ==
    CASE v.kind = "literal" -> v.t
      [] v.kind = "nil" -> PointerTo(Plain("String"))
      [] v.kind = "variable" -> IF Len(v.parts) = 1 THEN Env[v.parts] ELSE Selected(d, StructOf(d, Env[<<v.parts[1]>>]), Tail(v.parts)).t
      [] v.kind = "reference" -> PointerTo(Env[v.parts])
TypeOfField(d, f) ==
    CASE f.shape # <<>> -> Plain("Shape")
      [] f.type # <<>> -> ResolveTypeAliasChain(d, f.type[1])
      [] f.value # <<>> -> TypeOfValue(d, f.value[1])
Selected(d, struct, path) ==
    LET at == Shallowest(d, struct, path[1])
    IN CASE at = <<>> -> NotFound
         [] Len(at) > 1 -> Ambiguous
         [] Len(path) = 1 -> Answer(TypeOfField(d, at[1]))
         [] OTHER -> Selected(d, FieldsOf(d, at[1]), Tail(path))
\* Whether two embedded fields of a structure have the name, at whatever depths.
RECURSIVE Contested(_, _, _)
Contested(d, struct, x) ==
    \E i \in DOMAIN struct :
        LET embeds == {j \in DOMAIN struct[i] : struct[i][j].embedded}
            having == {j \in embeds : Shallowest(d, FieldsOf(d, struct[i][j]), x) # <<>>}
        IN (\E j, k \in having : j # k) \/ \E j \in embeds : Contested(d, FieldsOf(d, struct[i][j]), x)

\* No structure has the name in two embedded fields.  (Where one has, the checker goes by its own rules:
\* it looks at all depths at once, and passes over an embedded field in which the rest is not found.)
Uncontested(c) == \A n \in DOMAIN c.defs : \A x \in {c.path[i] : i \in DOMAIN c.path} : ~Contested(c.defs, c.defs[n].shape, x)
\* The search ends at a field given by a value in an embedded or inline shape, and at the first field of an
\* assertion, whatever follows it.
EndsEarly(c) ==
    /\ Len(c.path) > 1
    /\ \/ \E n \in DOMAIN c.defs : \E i \in DOMAIN c.defs[n].shape : \E j \in DOMAIN c.defs[n].shape[i] :
             c.defs[n].shape[i][j].value # <<>> /\ c.defs[n].shape[i][j].name = c.path[1]
       \/ c.t.id \in DOMAIN c.defs /\ c.defs[c.t.id].match # <<>>
\* Where the checker and Go both give the path a type it is the same type, and without a name embedded twice
\* the checker finds exactly the paths that Go selects.
FieldsAgree(c, r, g) ==
    \/ EndsEarly(c)
    \/ /\ Resolves(r) /\ Resolves(g) => r.t = g.t
       /\ Uncontested(c) => (Resolves(r) <=> Resolves(g))
\* The two walks along aliases meet, and part only where a type was inferred for the name they meet at.
ChainsMeet(c) ==
    \A n \in DOMAIN c.defs :
        LET chain == GetTypeAliasChain(c.defs, Inferred, Plain(n))
            base  == ResolveTypeAliasChain(c.defs, Plain(n))
        IN /\ \E i \in DOMAIN chain : chain[i].id = base.id
           /\ base.id \notin DOMAIN Inferred => Last(chain).id = base.id
FieldsSound(c) ==
    /\ FieldsAgree(c, LookupFieldPath(c.defs, Env, c.t, c.path), Selected(c.defs, StructOf(c.defs, c.t), c.path))
    /\ ChainsMeet(c)

\* ----- Inputs -----

IntType == Plain("Int")
Str == Plain("String")
Leaves == {<<NamedField("x", Str)>>, <<NamedField("y", IntType)>>, <<InlineField("x", <<NamedField("y", IntType)>>)>>,
           <<ValueField("x", [kind |-> "variable", parts |-> <<"v", "x">>]), ValueField("y", [kind |-> "reference", parts |-> <<"w">>])>>,
           <<InlineField("x", <<ValueField("y", [kind |-> "literal", t |-> IntType])>>), ValueField("y", [kind |-> "nil"])>>}
Mids == Leaves \cup {<<EmbeddedField(Plain("D"))>>, <<NamedField("y", Plain("D")), EmbeddedField(PointerTo(Plain("D")))>>,
                     <<EmbeddedField(Plain("D")), EmbeddedField(Plain("E"))>>, <<NamedField("x", Plain("D"))>>}
Tops == {<<EmbeddedField(Plain("B")), EmbeddedField(Plain("C"))>>, <<EmbeddedField(PointerTo(Plain("B"))), NamedField("s", Plain("L"))>>,
         <<NamedField("s", Asserted("E", "X")), EmbeddedField(Plain("G")), NamedField("B", Plain("M"))>>,
         <<NamedField("x", IntType), EmbeddedField(Plain("C"))>>, <<InlineField("s", <<EmbeddedField(Plain("B"))>>), EmbeddedField(Plain("L"))>>}
Tables ==
    {[n \in {"A", "B", "C", "D", "E", "L", "M", "X", "G", "T"} |->
        CASE n = "A" -> ShapeDef(top) [] n = "B" -> ShapeDef(b) [] n = "C" -> ShapeDef(c)
          [] n = "D" -> ShapeDef(e) [] n = "E" -> ShapeDef(<<NamedField("x", IntType)>>) [] n = "L" -> AliasOf(Plain("C"))
          [] n = "M" -> MatchDef(<<NamedField("x", Str), InlineField("y", <<NamedField("x", Str)>>)>>)
          [] n = "X" -> ShapeDef(<<NamedField("y", Plain("L"))>>)
          [] n = "G" -> GoDef(<<NamedField("x", IntType)>>) [] n = "T" -> AliasOf(Plain("T_1"))] :
        top \in Tops, b, c \in Mids, e \in Leaves}
FieldInputs ==
    [defs : Tables, t : {PointerTo(Plain("A")), Plain("M")},
     path : {<<"x">>, <<"y">>, <<"s">>, <<"x", "y">>, <<"s", "x">>, <<"B", "x">>}]
=============================================================================
