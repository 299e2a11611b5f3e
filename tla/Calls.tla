-------------------------------- MODULE Calls --------------------------------
(***************************************************************************)
(* Calls of user functions: the instantiation of a generic function from   *)
(* the types of its arguments (instantiate_user_generic.go), the check of  *)
(* the arguments, a variadic tail and a spread among them                  *)
(* (infer_variadic.go), and the errors a function may fail with, found by  *)
(* a fixed point over the calls (infer_error_set.go).                      *)
(*                                                                         *)
(* A signature is its parameter types and whether the last is variadic;    *)
(* "T" is the one type parameter.  Constraints on T, shapes unified field  *)
(* by field and explicit type arguments are as in the code; facts a callee *)
(* requires of its arguments belong to the module on refinement.           *)
(***************************************************************************)
EXTENDS Types

Unbound == NoType
Clash == NoAnswer

(* The binding of T after a parameter is unified with an argument, Clash   *)
(* when that is an error.  Of two argument types for T the first stays.    *)
RECURSIVE UnifyAll(_, _, _)
UnifyFuncTypes(param, arg) ==
    IF \E i \in {1, 2} : Len(param.fn[i]) # Len(arg.fn[i]) THEN <<"clash">>
    ELSE PairUp(param.fn[1] \o param.fn[2], arg.fn[1] \o arg.fn[2])

UnifyShapeTypes(d, param, arg) ==
    LET f == d[param.id].fields
        g == d[arg.id].fields
        names == SetToSeq(DOMAIN f)
    IN IF DOMAIN f # DOMAIN g THEN <<"clash">> ELSE [i \in DOMAIN names |-> <<f[names[i]], g[names[i]]>>]

(* The parts of a parameter and an argument that are unified in turn. *)
UnifiedParts(d, param, arg) ==
    CASE param.id = "Func" /\ arg.id = "Func" -> UnifyFuncTypes(param, arg)
      [] param.id = arg.id /\ param.ps # <<>> /\ param.id # "Func" ->
            IF Len(param.ps) # Len(arg.ps) \/ (param.id = "Array" /\ ~ArrayLengthsCompatible(param, arg))
            THEN <<"clash">> ELSE PairUp(param.ps, arg.ps)
      [] IsShapeDef(d, param) /\ IsShapeDef(d, arg) -> UnifyShapeTypes(d, param, arg)
      [] OTHER -> <<>>

UnifyTypeParam(d, b, param, arg) ==
    IF param.id = "T"
    THEN IF b = Unbound THEN arg
         ELSE IF "yes" \in {Accepts(d, arg, b), Accepts(d, b, arg)} THEN b ELSE Clash
    ELSE UnifyAll(d, b, UnifiedParts(d, param, arg))
UnifyAll(d, b, pairs) ==
    FoldLeft(LAMBDA r, p : IF r = Clash \/ p = "clash" THEN Clash ELSE UnifyTypeParam(d, r, p[1], p[2]), b, pairs)

(* The last argument of a variadic tail is unified by its elements if it   *)
(* is a slice, whether it is spread or not.                                *)
InferGenericBindingsFromArgs(d, sig, args) ==
    LET fixed == IF sig.variadic THEN Len(sig.params) - 1 ELSE Len(sig.params)
        n == Len(args)
        param(i) == IF i <= fixed THEN sig.params[i] ELSE sig.params[fixed + 1]
        arg(i) == IF i > fixed /\ i = n /\ args[i].id = "Array" /\ args[i].len = 0 THEN args[i].ps[1] ELSE args[i]
    IN UnifyAll(d, Unbound, [i \in 1 .. n |-> <<param(i), arg(i)>>])

RECURSIVE SubstituteType(_, _)
SubstituteType(t, b) ==
    IF t.id = "T" THEN b
    ELSE [t EXCEPT !.ps = [i \in DOMAIN t.ps |-> SubstituteType(t.ps[i], b)],
                   !.fn = [k \in {1, 2} |-> [i \in DOMAIN t.fn[k] |-> SubstituteType(t.fn[k][i], b)]]]

(* A typedef is comparable if it is a shape of comparable fields, at least *)
(* one; an alias or a union is not.                                        *)
RECURSIVE IsComparableForstType(_, _)
IsComparableForstType(d, t) ==
    IF t.id \in DOMAIN d
    THEN /\ d[t.id].k \in {"shape", "error"} /\ DOMAIN d[t.id].fields # {}
         /\ \A f \in DOMAIN d[t.id].fields : IsComparableForstType(d, d[t.id].fields[f])
    ELSE \/ t.id \in {"Int", "Float", "String", "Bool", "Pointer"}
         \/ t.id = "Array" /\ t.len # 0 /\ IsComparableForstType(d, t.ps[1])

ValidateGenericCallArgCount(sig, n) == IF sig.variadic THEN n >= Len(sig.params) - 1 ELSE n = Len(sig.params)

IsGeneric(sig) == \E i \in DOMAIN sig.params : "T" \in NamesOf(sig.params[i]) \/ sig.params[i].id = "Func"

(* The parameter types after instantiation, none when the call is rejected. *)
Instantiated(d, sig, b) ==
    IF b \in {Unbound, Clash} \/ (sig.comparable /\ ~IsComparableForstType(d, b)) THEN <<>>
    ELSE [i \in DOMAIN sig.params |-> SubstituteType(sig.params[i], b)]
InstantiateGenericCall(d, sig, args) ==
    IF ~IsGeneric(sig) THEN sig.params
    ELSE IF ~ValidateGenericCallArgCount(sig, Len(args)) THEN <<>>
    ELSE Instantiated(d, sig, InferGenericBindingsFromArgs(d, sig, args))

CheckUserCallArg(d, want, got) == Accepts(d, got, want) = "yes"

CheckUserFunctionCallAnyCount(d, params, variadic, args, spread) ==
    LET fixed == IF variadic THEN Len(params) - 1 ELSE Len(params)
        want(i) == IF i <= fixed THEN params[i] ELSE IF spread THEN ArrayOf(params[fixed + 1], 0) ELSE params[fixed + 1]
    IN (~variadic => Len(args) = fixed) /\ \A i \in DOMAIN args : CheckUserCallArg(d, want(i), args[i])
CheckUserFunctionCall(d, params, variadic, args, spread) ==
    LET fixed == IF variadic THEN Len(params) - 1 ELSE Len(params)
        n == Len(args)
        spreads == variadic /\ spread /\ n > fixed
        want(i) == IF i <= fixed THEN params[i] ELSE IF spreads THEN ArrayOf(params[fixed + 1], 0) ELSE params[fixed + 1]
    IN /\ IF ~variadic THEN n = fixed ELSE IF spreads THEN n = fixed + 1 ELSE n >= fixed
       /\ \A i \in 1 .. n : CheckUserCallArg(d, want(i), args[i])

AcceptsCall(d, c, params) == params # <<>> /\ CheckUserFunctionCall(d, params, c.sig.variadic, c.args, c.spread)

-----------------------------------------------------------------------------
(* Error sets.  A body is a set of statements: an ensure or a return that  *)
(* fails with a nominal error, an ensure that gives no error, a return of  *)
(* a variable that holds an error, a call of another function; a call and  *)
(* an ensure may stand where WalkNode descends or where it does not (the   *)
(* condition of an if or a loop, a labelled statement, a function literal).*)

ErrorSetFromEnsure(s) == IF s.error = "" THEN [nominal |-> {}, unknown |-> TRUE] ELSE [nominal |-> {s.error}, unknown |-> FALSE]
NoErrors == [nominal |-> {}, unknown |-> FALSE]
MergeErrors(a, b) == [nominal |-> a.nominal \cup b.nominal, unknown |-> a.unknown \/ b.unknown]

WalkedStmts(body) == {s \in body : s.walked}

(* sets is defined for no function in the first round. *)
MergeErrorSetFromCall(program, sets, f) ==
    IF f \in DOMAIN sets THEN sets[f]
    ELSE IF f \in DOMAIN program THEN NoErrors
    ELSE [nominal |-> {}, unknown |-> TRUE]

StatementErrors(program, sets, s) ==
    CASE s.k = "ensure" -> ErrorSetFromEnsure(s)
      [] s.k = "return" -> [nominal |-> {s.error}, unknown |-> FALSE]
      [] s.k = "call" -> MergeErrorSetFromCall(program, sets, s.callee)
      [] OTHER -> NoErrors

CollectLocalFunctionErrorSet(program, sets, f) ==
    FoldSet(LAMBDA s, acc : MergeErrors(acc, StatementErrors(program, sets, s)), NoErrors, WalkedStmts(program[f]))

(* One round in an order of the functions, a map's, that may be any. *)
ErrorSetRound(program, sets, order) ==
    FoldLeft(LAMBDA acc, f : [acc EXCEPT ![f] = CollectLocalFunctionErrorSet(program, acc, f)], sets, order)
RECURSIVE ErrorSetRounds(_, _, _)
ErrorSetRounds(program, sets, order) ==
    LET next == ErrorSetRound(program, sets, order)
    IN IF next = sets THEN sets ELSE ErrorSetRounds(program, next, order)
InferAllFunctionErrorSetsOnce(program, order) ==
    ErrorSetRound(program, [f \in DOMAIN program |-> CollectLocalFunctionErrorSet(program, <<>>, f)], order)
InferAllFunctionErrorSets(program, order) ==
    ErrorSetRounds(program, [f \in DOMAIN program |-> CollectLocalFunctionErrorSet(program, <<>>, f)], order)

-----------------------------------------------------------------------------
(* Reference: what a function reaches through calls. *)

CalleesOf(program, f) == {s.callee : s \in {t \in program[f] : t.k = "call"}}
ReachedFrom(program, f) ==
    LET step(R) == R \cup UNION {CalleesOf(program, g) : g \in R \cap DOMAIN program}
    IN step(step(step({f})))
FailsWith(program, f) == {s.error : s \in {t \in UNION {program[g] : g \in ReachedFrom(program, f) \cap DOMAIN program} :
                                             t.k \in {"ensure", "return", "returnVar"}}} \ {""}

-----------------------------------------------------------------------------
(* Inputs *)

T == Named("T")
ParamTypes == {T, Slice(T), FuncOf(<<T>>, <<T>>), Ty("Map", <<Named("String"), T>>), Named("B")}
Signatures == [params : {<<p>> : p \in ParamTypes} \cup {<<p, q>> : p \in ParamTypes, q \in {T, Slice(T), Named("Int")}},
               variadic : BOOLEAN, comparable : BOOLEAN]
ArgTypes == {Named("Int"), Named("A"), Named("B"), Named("Object"), Slice(Named("Int")), Slice(Slice(Named("Int"))),
             FuncOf(<<Named("Int")>>, <<Named("A")>>), Ty("Map", <<Named("Int"), Named("A")>>)}
CallTables == {[A |-> Alias("Int"), B |-> Fields("shape", [f |-> Named("Int")])],
               [A |-> Fields("error", [f |-> Named("byte")]), B |-> Fields("shape", [f |-> Named("Int")])],
               [A |-> Op("or", Alias("B"), Alias("String")), B |-> Fields("error", <<>>)]}
CallInputs == {c \in [defs : CallTables, sig : Signatures, spread : BOOLEAN,
                      args : UNION {[1 .. n -> ArgTypes] : n \in 1 .. 2} \cup {<<a, a, a>> : a \in ArgTypes}] :
                  /\ c.spread => c.sig.variadic /\ c.args[Len(c.args)].id = "Array"
                  /\ c.sig.comparable => IsGeneric(c.sig)}

Statements == {[k |-> "ensure", error |-> "E1", walked |-> TRUE], [k |-> "ensure", error |-> "", walked |-> TRUE],
               [k |-> "return", error |-> "E2", walked |-> TRUE], [k |-> "returnVar", error |-> "E3", walked |-> TRUE],
               [k |-> "ensure", error |-> "E4", walked |-> FALSE]}
               \cup [k : {"call"}, callee : {"f", "g", "h"}, walked : {TRUE}]
               \cup {[k |-> "call", callee |-> "extern", walked |-> TRUE], [k |-> "call", callee |-> "g", walked |-> FALSE]}
Bodies3 == {B \in SUBSET Statements : Cardinality(B) <= 2}
ErrorInputs == [f : Bodies3, g : {B \in Bodies3 : Cardinality(B) <= 1} \cup {{[k |-> "call", callee |-> "h", walked |-> TRUE], s} : s \in Statements},
                h : {B \in Bodies3 : Cardinality(B) <= 1}]

-----------------------------------------------------------------------------
(* An accepted call passes no argument whose values its parameter, as      *)
(* instantiated, does not take; a call of a generic function of two        *)
(* parameters of type T is accepted in one of the two orders of its        *)
(* arguments whenever one argument's type takes the other's                *)
(* (instantiateGenericCall, checkUserFunctionCall).                        *)
CallJudged(d, c, params, ok, swapped) ==
    LET fixed == Len(params) - 1 IN
    /\ ok => IF ~c.sig.variadic THEN \A i \in DOMAIN c.args : Subtype(d, c.args[i], params[i])
             ELSE \A i \in DOMAIN c.args :
                     LET want == IF i <= fixed THEN params[i] ELSE params[fixed + 1]
                     IN Subtype(d, c.args[i], IF i = Len(c.args) /\ c.spread /\ i > fixed THEN Slice(want) ELSE want)
    /\ c.sig.params = <<T, T>> /\ ~c.sig.variadic /\ ~c.sig.comparable /\ Len(c.args) = 2
          => ((ok \/ swapped) <=> \E i, j \in {1, 2} : i # j /\ Accepts(d, c.args[i], c.args[j]) = "yes")
CallsInOrder(c) ==
    LET params == [call \in {c, [c EXCEPT !.args = Reverse(c.args)]} |-> InstantiateGenericCall(c.defs, c.sig, call.args)]
        ok == [call \in DOMAIN params |-> AcceptsCall(c.defs, call, params[call])]
    IN CallJudged(c.defs, c, params[c], ok[c], ok[[c EXCEPT !.args = Reverse(c.args)]])

(* The order in which the functions are visited does not show in their     *)
(* error sets; the set of a function holds what the functions it reaches   *)
(* through calls fail with, or says that something unknown is possible,    *)
(* unless a call or an ensure stands where the walk does not descend or an *)
(* error is returned in a variable; and it holds nothing else              *)
(* (inferAllFunctionErrorSets).                                            *)
ErrorSetsInOrder(program) ==
    LET sets == InferAllFunctionErrorSets(program, <<"f", "g", "h">>)
        plain(f) == \A g \in ReachedFrom(program, f) \cap DOMAIN program :
                       \A s \in program[g] : s.walked /\ s.k # "returnVar"
    IN /\ \A order \in {<<"h", "g", "f">>, <<"g", "f", "h">>} : InferAllFunctionErrorSets(program, order) = sets
       /\ \A f \in DOMAIN program :
             /\ sets[f].nominal \subseteq FailsWith(program, f)
             /\ plain(f) => FailsWith(program, f) = sets[f].nominal
             /\ plain(f) => (sets[f].unknown <=>
                    \E g \in ReachedFrom(program, f) :
                       g \notin DOMAIN program \/ \E s \in program[g] : s.k = "ensure" /\ s.error = "")
=============================================================================
