------------------------------ MODULE Lowering ------------------------------
(***************************************************************************)
(* How the Go transformer lowers a function that binds one fallible value. *)
(* The body starts with `x := f()`; x is a Result(Int, Error) ("int"), a   *)
(* Result(Void, Error) ("void"), a Tuple ("tuple") or a Result of a Tuple  *)
(* ("pair").  Forst has one value; Go gets one variable per success slot   *)
(* and one for the error, each bound only if a walk over the body finds it *)
(* used, and every later mention of x is rewritten from the type the       *)
(* checker narrowed it to.  The module has the checker's narrowing and     *)
(* return inference, the walks, the lowering, Go's rules for what it       *)
(* accepts, and both meanings: what the Forst body does and what the Go    *)
(* body does when f succeeds with 5, with 7, or fails.                     *)
(*                                                                         *)
(* Statements: "print" is println(x); "sink" needs an Int, "report" an     *)
(* Error; "slot" is sink(x.0).  "for" is a loop whose body runs once and   *)
(* "switch" has only a default clause.  The scope of each statement is the *)
(* one the node occurs in (Scopes has the collisions between functions).   *)
(***************************************************************************)
EXTENDS Naturals, Sequences, FiniteSets, SequencesExt

Stmt(k, test, alt, body, els, val) ==
  [k |-> k, test |-> test, alt |-> alt, body |-> body, els |-> els, val |-> val]

Use(k) == Stmt(k, "", FALSE, <<>>, <<>>, "")
Return(v) == Stmt("return", "", FALSE, <<>>, <<>>, v)
Ensure(test, alt, block) == Stmt("ensure", test, alt, block, <<>>, "")
EnsureCall(test, alt) == Stmt("ensure call", test, alt, <<>>, <<>>, "")
If(test, then, els) == Stmt("if", test, FALSE, then, els, "")
Once(k, body) == Stmt(k, "", FALSE, body, <<>>, "")

Outcomes == {"5", "7", "fails"}
Calls == {"print", "sink", "report", "slot"}

(***************************************************************************)
(* The checker.  x is "whole", or narrowed to its success value ("ok") or  *)
(* its failure ("err").  `if x is T` narrows the then-branch only; an      *)
(* ensure narrows its block to the opposite and everything after it in the *)
(* scope it stands in.                                                     *)
(***************************************************************************)
Passing(test) == IF test = "Err" THEN "err" ELSE "ok"
Failing(test) == IF test = "Err" THEN "ok" ELSE "err"

ReturnedType(p, v, n) ==
  CASE v = "none" -> "Void"
    [] v = "lit" -> "Int"
    [] v = "x" /\ n = "ok" -> IF p.bind = "void" THEN "Void" ELSE "Int"
    [] v = "x" /\ n = "err" -> "Error"
    [] OTHER -> IF p.bind = "void" THEN "ResultVoid" ELSE "Result"

\* ensureMatching and isCompatibleResultReturnArm: what a declared type takes.
ReturnArms(declared) ==
  CASE declared = "Result" -> {"Int", "Error", "Result"}
    [] declared = "ResultVoid" -> {"Void", "Error", "ResultVoid"}
    [] declared = "Int" -> {"Int"}
    [] OTHER -> {"Void"}

Testable(p, n, test) ==
  /\ n = "whole" /\ p.bind # "tuple"
  /\ test = "OkV" => p.bind = "int"
  /\ test = "bare" => p.bind \in {"int", "void"}

RECURSIVE Narrowed(_, _, _)
\* The narrowing of x after the statements, or "rejected".
Narrowed(p, stmts, entry) ==
  FoldLeft(LAMBDA n, s :
    CASE n = "rejected" -> n
      [] s.k = "print" -> n
      [] s.k = "sink" -> IF p.bind = "int" /\ n = "ok" THEN n ELSE "rejected"
      [] s.k = "report" -> IF n = "err" THEN n ELSE "rejected"
      [] s.k = "slot" -> IF p.bind = "tuple" \/ (p.bind = "pair" /\ n = "ok") THEN n ELSE "rejected"
      [] s.k \in {"return", "ensure call"} -> n
      [] s.k \in {"ensure", "if"} /\ ~Testable(p, n, s.test) -> "rejected"
      [] OTHER ->
           IF \E part \in {<<s.body, IF s.k = "ensure" THEN Failing(s.test)
                                     ELSE IF s.k = "if" THEN Passing(s.test) ELSE n>>,
                           <<s.els, n>>} : Narrowed(p, part[1], part[2]) = "rejected"
           THEN "rejected" ELSE IF s.k = "ensure" THEN Passing(s.test) ELSE n,
    entry, stmts)

RECURSIVE Sites(_, _)
\* Every statement of the body in order, with the narrowing of x where it stands.
Sites(stmts, entry) ==
  FoldLeft(LAMBDA acc, s :
    LET inner == IF s.k = "ensure" THEN Failing(s.test) ELSE IF s.k = "if" THEN Passing(s.test) ELSE acc.n
    IN [n |-> IF s.k = "ensure" THEN Passing(s.test) ELSE acc.n,
        sites |-> acc.sites \o <<[s |-> s, n |-> acc.n]>>
                  \o Sites(s.body, inner) \o Sites(s.els, acc.n)],
    [n |-> entry, sites |-> <<>>], stmts).sites

\* collectReturnStatements: the types of every return of the body, in order.
Returns(p) ==
  LET rets == SelectSeq(Sites(p.body, "whole"), LAMBDA x : x.s.k = "return")
  IN [i \in DOMAIN rets |-> ReturnedType(p, rets[i].s.val, rets[i].n)]

HasEnsure(stmts) == \E i \in DOMAIN stmts : stmts[i].k \in {"ensure", "ensure call"}
EndsInCall(stmts) == stmts # <<>> /\ Last(stmts).k \in Calls

\* applyEnsureReturnInference
Promoted(p, types) ==
  IF ~HasEnsure(p.body) \/ p.fn \in {"main", "test"} THEN IF types = <<>> THEN "Void" ELSE types[1]
  ELSE IF types = <<>> THEN "ResultVoid"
  ELSE IF types[1] = "Int" THEN "Result" ELSE IF types[1] = "Void" THEN "ResultVoid" ELSE types[1]

\* inferFunctionReturnType and storeInferredFunctionReturnType: the function's type,
\* or "rejected".
ReturnType(p) ==
  LET types == Returns(p)
      inferred == IF EndsInCall(p.body) /\ types = <<>> THEN "Void" ELSE Promoted(p, types)
  IN CASE EndsInCall(p.body) /\ types # <<>> /\ types[1] # "Void" -> "rejected"
       [] p.fn \in {"Result", "ResultVoid"} ->
            IF \/ \E i \in DOMAIN types : types[i] \notin ReturnArms(p.fn)
               \/ types = <<>> /\ (EndsInCall(p.body) \/ ~HasEnsure(p.body)) /\ p.fn = "Result"
            THEN "rejected" ELSE p.fn
       [] OTHER ->
            IF \/ \E i \in DOMAIN types : types[i] # types[1]
               \/ p.fn = "Int" /\ inferred # "Int"
            THEN "rejected" ELSE inferred

Accepted(p) == Narrowed(p, p.body, "whole") # "rejected" /\ ReturnType(p) # "rejected"

(***************************************************************************)
(* The walks that decide which Go variables are bound.                     *)
(***************************************************************************)
RECURSIVE Statements(_)
\* Every statement of the body, nested ones included (astwalk).
Statements(stmts) ==
  UNION {{stmts[i]} \union Statements(stmts[i].body) \union Statements(stmts[i].els) : i \in DOMAIN stmts}

Mentions(s) == s.k \in Calls \/ (s.k = "return" /\ s.val = "x")

SuccessMentioned(body) == \E s \in Statements(body) : Mentions(s)

SuccessValueUsed(body) ==
  \E s \in Statements(body) : Mentions(s) \/ (s.k \in {"ensure", "if"} /\ s.test = "OkV")

RECURSIVE DiscriminatorUsed(_)
\* collectResultErrSlotUsedStmts: neither a switch nor an ensure's block is entered.
DiscriminatorUsed(stmts) ==
  \E i \in DOMAIN stmts :
    LET s == stmts[i]
    IN \/ s.k \in {"ensure", "if"}
       \/ s.k = "for" /\ DiscriminatorUsed(s.body)

ErrSlotUsed(body) == DiscriminatorUsed(body) \/ \E s \in Statements(body) : s.k = "print"

\* collectTupleIndexUses: only slot 0 is ever mentioned.
TupleNames(body) == <<IF \E s \in Statements(body) : s.k = "slot" THEN "x0" ELSE "", "">>

\* transformFoldedTupleAssignment and transformFoldedResultAssignment.
Split(p) ==
  LET err == IF ErrSlotUsed(p.body) THEN "xErr" ELSE ""
  IN CASE p.bind = "void" -> [success |-> <<>>, err |-> "x"]
       [] p.bind = "tuple" -> [success |-> TupleNames(p.body), err |-> ""]
       [] p.bind = "pair" -> [success |-> TupleNames(p.body), err |-> err]
       [] OTHER -> [success |-> <<IF SuccessValueUsed(p.body) THEN "x" ELSE "">>, err |-> err]

(***************************************************************************)
(* The lowering.  A Go statement names the variables it reads, in order;   *)
(* "!" among them is a code generation error that stops the build.         *)
(***************************************************************************)
Go(g, args) == [g |-> g, args |-> args, cond |-> <<>>, body |-> <<>>, els |-> <<>>]
GoIf(cond, body, els) == [g |-> "if", args |-> <<>>, cond |-> cond, body |-> body, els |-> els]
GoOnce(g, body) == [g |-> g, args |-> <<>>, cond |-> <<>>, body |-> body, els |-> <<>>]

\* goExprForNarrowedResultSplitLocal: the variable that holds x where it is narrowed.
NarrowedSplitLocal(split, n) ==
  IF split.err = "" \/ split.success = <<>> \/ n = "whole" THEN "x"
  ELSE IF n = "ok" THEN split.success[1] ELSE split.err

\* What a mention of x becomes where the transformer finds it narrowed to n.
VarExpr(split, n) == IF Len(split.success) > 1 THEN "!" ELSE NarrowedSplitLocal(split, n)

\* x.0
SlotExpr(split, n) == IF split.err = "" /\ split.success # <<>> THEN split.success[1] ELSE VarExpr(split, n)

ErrIdent(split) == IF split.err = "" THEN "!" ELSE split.err

\* A condition <<"not" or "", error variable, its relation to nil, success variable compared
\* with 5 or "">>.  Ok() evaluates the success expression even when it compares nothing.
Discriminator(split, n, test) ==
  <<"", IF test # "Err" /\ VarExpr(split, n) = "!" THEN "!" ELSE ErrIdent(split),
    IF test = "Err" THEN "!=" ELSE "==",
    IF test = "OkV" THEN VarExpr(split, n) ELSE "">>

KeptCondition(cond) == cond

NegateCondition(cond) == [cond EXCEPT ![1] = "not"]

\* specializeEnsureForEmit: a bare ensure is resolved again from the type x has by then,
\* and only the error variable of a Result(Void) is remembered to be a Result.
SpecializedTest(split, n, test) ==
  IF test # "bare" THEN test ELSE IF split.success = <<>> \/ n = "whole" THEN "Ok" ELSE "!"

\* The error a failed ensure propagates (ensureFailureErrorExpr).
FailureExpr(split, s) ==
  CASE s.alt -> "elseErr"
    [] s.test \in {"Ok", "bare"} -> IF s.k = "ensure call" THEN "err" ELSE split.err
    [] OTHER -> "assertErr"

MainExit(split, s) == Go("exit", <<IF s.k = "ensure" THEN split.err ELSE FailureExpr(split, s)>>)

\* What the Fatalf of a failed ensure shows; a call subject has no local to look at.
TestFatal(split, n, s) ==
  Go("fatal", CASE s.alt -> <<"elseErr">>
                [] s.k = "ensure call" -> <<"call">>
                [] s.test = "OkV" -> <<split.err, VarExpr(split, n)>>
                [] OTHER -> <<split.err>>)

\* transformErrorStatement: what a failed ensure ends with.
ErrorStmt(p, split, ret, n, s) ==
  CASE p.fn = "main" -> MainExit(split, s)
    [] p.fn = "test" -> TestFatal(split, n, s)
    [] ret = "Void" -> IF s.alt THEN Go("blank", <<"elseErr">>) ELSE Go("panic", <<>>)
    [] ret = "Result" -> Go("return", <<"zero", FailureExpr(split, s)>>)
    [] ret = "ResultVoid" -> Go("return", <<FailureExpr(split, s)>>)
    [] OTHER -> Go("return", <<"zero">>)

\* padMissingReturnValues: a Result has no zero value of its own.
PaddedReturn(ret) == IF ret = "Void" THEN <<>> ELSE <<"!">>

\* maybeSingleResultReturnStmt: anything but a call that returns the Result is a success.
ReturnStmt(split, ret, n, v) ==
  Go("return",
     CASE v = "none" -> PaddedReturn(ret)
       [] v = "call" -> <<"call">>
       [] ret = "ResultVoid" -> <<"nil">>
       [] OTHER -> LET value == IF v = "x" THEN VarExpr(split, n) ELSE "lit"
                   IN IF ret = "Result" THEN <<value, "nil">> ELSE <<value>>)

\* transformPrintBuiltinCallArgs: a whole Result is shown as all its variables.
PrintArgs(split, n) ==
  IF split.err # "" /\ split.success # <<>> /\ n = "whole" THEN Append(split.success, split.err)
  ELSE <<VarExpr(split, n)>>

CallStmt(split, n, k) ==
  Go(k, CASE k = "slot" -> <<SlotExpr(split, n)>>
          [] k = "print" -> PrintArgs(split, n)
          [] OTHER -> <<VarExpr(split, n)>>)

EnsureStmt(p, split, ret, n, s, block) ==
  LET test == SpecializedTest(split, n, s.test)
      cond == IF test = "!" THEN <<"", "!", "==", "">> ELSE Discriminator(split, n, test)
  IN GoIf(NegateCondition(cond), Append(block, ErrorStmt(p, split, ret, n, s)), <<>>)

EnsureCallStmt(p, split, ret, n, s) ==
  GoIf(<<"", "err", IF s.test = "Ok" THEN "!=" ELSE "==", "">>, <<ErrorStmt(p, split, ret, n, s)>>, <<>>)

\* blankUnusedResultSuccessForIfCondition
BlankedSuccess(split, test) ==
  IF test = "Err" /\ split.success # <<>> THEN <<Go("blank", <<split.success[1]>>)>> ELSE <<>>

IfStmt(split, n, s, then, els) ==
  GoIf(Discriminator(split, n, s.test), BlankedSuccess(split, s.test) \o then, els)

\* An ensure block loses its own returns.
Kept(s) == IF s.k = "ensure" THEN SelectSeq(s.body, LAMBDA b : b.k # "return") ELSE s.body

\* The narrowing the scope ends up with: the last ensure that stands in it.
FinalNarrowing(stmts, entry) ==
  LET on == SelectSeq(stmts, LAMBDA s : s.k = "ensure")
  IN IF on = <<>> THEN entry ELSE Passing(Last(on).test)

RECURSIVE Lower(_, _, _, _, _, _)
\* The statements of one body.  An ensure, and what follows it, is looked up in the
\* scope of the body, whose types are the final ones; before it a loop or a switch
\* is still in the scope around it.
Lower(p, split, ret, stmts, before, within) ==
  FoldLeft(LAMBDA acc, s :
    LET n == IF acc.entered \/ s.k = "ensure" THEN within ELSE before
        own == FinalNarrowing(s.body, IF s.k = "ensure" THEN Failing(s.test) ELSE Passing(s.test))
        body == IF s.k \in {"ensure", "if"} THEN Lower(p, split, ret, Kept(s), own, own)
                ELSE Lower(p, split, ret, s.body, n, FinalNarrowing(s.body, n))
        els == FinalNarrowing(s.els, n)
    IN [entered |-> acc.entered \/ s.k = "ensure",
        go |-> Append(acc.go,
          CASE s.k \in Calls -> CallStmt(split, n, s.k)
            [] s.k = "return" -> ReturnStmt(split, ret, n, s.val)
            [] s.k = "ensure" -> EnsureStmt(p, split, ret, n, s, body)
            [] s.k = "ensure call" -> EnsureCallStmt(p, split, ret, n, s)
            [] s.k = "if" -> IfStmt(split, n, s, body, Lower(p, split, ret, s.els, els, els))
            [] OTHER -> GoOnce(s.k, body))],
    [entered |-> FALSE, go |-> <<>>], stmts).go

\* transformFunction: a call at the end of a function that returns something is its
\* value, and a function that returns only an error ends with `return nil`.
GoBody(p) ==
  LET split == Split(p)
      ret == ReturnType(p)
      final == FinalNarrowing(p.body, "whole")
      implicit == EndsInCall(p.body) /\ ret # "Void"
      stmts == IF implicit THEN Front(p.body) ELSE p.body
      endsInReturn == p.body # <<>> /\ Last(p.body).k = "return"
  IN Lower(p, split, ret, stmts, final, final)
     \o (IF implicit THEN <<Go("return", <<"nil">>)>> ELSE <<>>)
     \o (IF ret = "ResultVoid" /\ ~endsInReturn THEN <<Go("return", <<"nil">>)>> ELSE <<>>)

(***************************************************************************)
(* What the Go compiler accepts.                                           *)
(***************************************************************************)
Results(ret) ==
  CASE ret = "Result" -> <<"int", "error">>
    [] ret = "ResultVoid" -> <<"error">>
    [] ret = "Int" -> <<"int">>
    [] OTHER -> <<>>

GoType(p, name) ==
  CASE name \in {"xErr", "err", "elseErr", "assertErr"} -> {"error"}
    [] name = "nil" -> {"error"}
    [] name = "x" -> IF p.bind = "void" THEN {"error"} ELSE {"int"}
    [] OTHER -> {"int"}

RECURSIVE GoStatements(_)
GoStatements(stmts) ==
  UNION {{stmts[i]} \union GoStatements(stmts[i].body) \union GoStatements(stmts[i].els) : i \in DOMAIN stmts}

Reads(s) == Range(s.args) \union (IF s.cond = <<>> THEN {} ELSE {s.cond[2], s.cond[4]})

RECURSIVE Terminates(_)
Terminates(stmts) ==
  /\ stmts # <<>>
  /\ LET s == Last(stmts)
     IN \/ s.g \in {"return", "panic"}
        \/ s.g = "if" /\ Terminates(s.body) /\ Terminates(s.els)
        \/ s.g = "switch" /\ Terminates(s.body)

StmtCompiles(p, results, bound, s) ==
  LET fits(args, types) == Len(args) = Len(types) /\ \A i \in DOMAIN args : types[i] \in GoType(p, args[i])
  IN /\ "" \notin Range(s.args)
     /\ Reads(s) \ {""} \subseteq bound \union {"err", "elseErr", "assertErr", "lit", "zero", "nil", "call"}
     /\ CASE s.g \in {"sink", "slot"} -> fits(s.args, <<"int">>)
          [] s.g = "report" -> fits(s.args, <<"error">>)
          [] s.g = "fatal" -> "call" \in Range(s.args) => p.bind = "void"
          [] s.g = "return" ->
               IF s.args = <<"call">> THEN results = (IF p.bind = "void" THEN <<"error">> ELSE <<"int", "error">>)
               ELSE fits(s.args, results)
          [] s.g = "if" -> s.cond[4] # "" => "int" \in GoType(p, s.cond[4])
          [] OTHER -> TRUE

Bound(split) == (Range(split.success) \union {split.err}) \ {""}

Reported(go) == \E s \in GoStatements(go) : "!" \in Reads(s)

Compiles(p, go) ==
  /\ \A s \in GoStatements(go) : StmtCompiles(p, Results(ReturnType(p)), Bound(Split(p)), s)
  /\ Bound(Split(p)) \subseteq UNION {Reads(s) : s \in GoStatements(go)}
  /\ Results(ReturnType(p)) # <<>> => Terminates(go)

(***************************************************************************)
(* What the two bodies do: the calls they make, and how the function ends. *)
(***************************************************************************)
SuccessOf(o) == IF o = "fails" THEN "0" ELSE o
ErrorOf(o) == IF o = "fails" THEN "E" ELSE "nil"

Finished(value, error) == IF error = "nil" THEN <<"success", value>> ELSE <<"failure", error>>

Value(p, o, name) ==
  CASE name \in {"xErr", "err"} -> ErrorOf(o)
    [] name = "x" /\ p.bind = "void" -> ErrorOf(o)
    [] name \in {"x", "x0", "x1"} -> SuccessOf(o)
    [] OTHER -> name

Holds(p, o, cond) ==
  (cond[1] = "not") #
  (/\ (Value(p, o, cond[2]) = "nil") = (cond[3] = "==")
   /\ cond[4] # "" => Value(p, o, cond[4]) = "5")

RECURSIVE GoRun(_, _, _, _)
GoRun(p, o, stmts, start) ==
  FoldLeft(LAMBDA acc, s :
    LET args == [i \in DOMAIN s.args |-> Value(p, o, s.args[i])]
        results == Results(ReturnType(p))
    IN CASE acc.end # <<>> -> acc
         [] s.g \in Calls -> [acc EXCEPT !.calls = Append(@, <<s.g, args>>)]
         [] s.g = "return" ->
              [acc EXCEPT !.end =
                CASE s.args = <<"call">> -> Finished(IF p.bind = "void" THEN "" ELSE SuccessOf(o), ErrorOf(o))
                  [] results = <<"error">> -> Finished("", args[1])
                  [] results = <<>> -> Finished("", "nil")
                  [] OTHER -> Finished(args[1], IF Len(args) > 1 THEN args[2] ELSE "nil")]
         [] s.g \in {"exit", "fatal", "panic"} -> [acc EXCEPT !.end = <<s.g>>]
         [] s.g = "blank" -> acc
         [] s.g = "if" -> GoRun(p, o, IF Holds(p, o, s.cond) THEN s.body ELSE s.els, acc)
         [] OTHER -> GoRun(p, o, s.body, acc),
    start, stmts)

Passes(test, o) ==
  CASE test = "Err" -> o = "fails"
    [] test = "OkV" -> o = "5"
    [] OTHER -> o # "fails"

\* What println(x) shows and what a use of x passes.
Shown(p, o, n) ==
  CASE n = "err" \/ p.bind = "void" -> <<ErrorOf(o)>>
    [] n = "ok" \/ p.bind = "tuple" -> <<SuccessOf(o)>>
    [] OTHER -> <<SuccessOf(o), ErrorOf(o)>>

\* How a failed ensure ends the function; the returns of its block do not.
Failed(p, ret, o, s) ==
  CASE p.fn = "main" -> <<"exit">>
    [] p.fn = "test" -> <<"fatal">>
    [] ret = "Void" -> <<"panic">>
    [] s.alt -> <<"failure", "elseErr">>
    [] s.test \in {"Ok", "bare"} -> <<"failure", ErrorOf(o)>>
    [] OTHER -> <<"failure", "assertErr">>

RECURSIVE ForstRun(_, _, _, _, _)
ForstRun(p, ret, o, stmts, start) ==
  FoldLeft(LAMBDA acc, s :
    LET within(body, n) == ForstRun(p, ret, o, body, [acc EXCEPT !.n = n])
    IN CASE acc.end # <<>> -> acc
         [] s.k \in Calls -> [acc EXCEPT !.calls = Append(@, <<s.k, Shown(p, o, acc.n)>>)]
         [] s.k = "return" ->
              [acc EXCEPT !.end =
                CASE s.val = "none" -> Finished("", "nil")
                  [] s.val = "lit" -> Finished("lit", "nil")
                  [] OTHER -> Finished(IF ret = "ResultVoid" THEN "" ELSE SuccessOf(o), ErrorOf(o))]
         [] s.k \in {"ensure", "ensure call"} /\ Passes(s.test, o) ->
              [acc EXCEPT !.n = IF s.k = "ensure" THEN Passing(s.test) ELSE @]
         [] s.k \in {"ensure", "ensure call"} ->
              LET block == within(Kept(s), Failing(s.test))
              IN [block EXCEPT !.end = IF @ = <<>> THEN Failed(p, ret, o, s) ELSE @]
         [] s.k = "if" ->
              [(IF Passes(s.test, o) THEN within(s.body, Passing(s.test)) ELSE within(s.els, acc.n))
                 EXCEPT !.n = acc.n]
         [] OTHER -> [within(s.body, acc.n) EXCEPT !.n = acc.n],
    start, stmts)

Start == [calls |-> <<>>, end |-> <<>>, n |-> "whole"]
Did(r) == <<r.calls, IF r.end = <<>> THEN Finished("", "nil") ELSE r.end>>

CanHappen(p) == IF p.bind = "tuple" THEN {"5", "7"} ELSE Outcomes

SameMeaning(p, go) ==
  \A o \in CanHappen(p) :
    Did(GoRun(p, o, go, Start)) = Did(ForstRun(p, ReturnType(p), o, p.body, Start))

(***************************************************************************)
(* The bodies: one compound statement, or none, between simple ones.       *)
(***************************************************************************)
Simple == {Use(k) : k \in Calls} \union {Return(v) : v \in {"none", "lit", "x", "call"}}
Inner == {<<>>} \union {<<s>> : s \in Simple}
Checks == {Ensure(t, FALSE, <<>>) : t \in {"Ok", "Err"}}
Compound ==
  {Ensure(t, alt, b) : t \in {"Ok", "Err", "OkV", "bare"}, alt \in BOOLEAN, b \in Inner}
  \union {EnsureCall(t, alt) : t \in {"Ok", "Err"}, alt \in BOOLEAN}
  \union {If(t, b, e) : t \in {"Ok", "Err", "OkV"}, b \in Inner, e \in Inner \union {<<c>> : c \in Checks}}
  \union {Once(k, b) : k \in {"for", "switch"},
            b \in Inner \union {<<c>> : c \in Checks} \union {<<c, Use("print")>> : c \in Checks}
                  \union {<<If("Ok", <<Use("print")>>, <<>>)>>}}
Bodies ==
  {first \o last : first \in Inner \union {<<c>> : c \in Compound}
                              \union {<<Use("print"), c>> : c \in Checks}
                              \union {<<c, d>> : c \in Compound, d \in {Use("print"), Use("sink"), Ensure("Ok", FALSE, <<>>)}},
                   last \in {<<>>} \union {<<Return(v)>> : v \in {"none", "lit", "x"}}}

\* Main and tests return nothing; only a declared Result function returns x or f();
\* a body that returns x does not end in a call; nobody prints a Void.
Written(p) ==
  LET all == Statements(p.body)
      vals == {s.val : s \in {r \in all : r.k = "return"}}
  IN /\ p.fn \in {"main", "test"} => vals \subseteq {"none"}
     /\ p.fn \in {"undeclared", "Int"} => vals \subseteq {"none", "lit"}
     /\ "x" \in vals => p.bind \in {"int", "void"} /\ ~EndsInCall(p.body)
     /\ p.bind = "void" => \A s \in all : s.k = "print" => Narrowed(p, p.body, "whole") = "whole"

LoweringInputs ==
  {p \in [fn : {"main", "test", "Result", "ResultVoid", "undeclared", "Int"},
          bind : {"int", "void", "tuple", "pair"}, body : Bodies] :
     /\ p.bind \in {"tuple", "pair"} => p.fn \in {"main", "Result"}
     /\ Written(p) /\ Accepted(p)}

(***************************************************************************)
(* Where the lowering is known not to follow the source.                   *)
(***************************************************************************)
SiteSet(p) == Range(Sites(p.body, "whole"))

\* `ensure x` on a Result with a value is specialised from the type x has after it.
BareOnValue(p) == p.bind = "int" /\ \E s \in Statements(p.body) : s.k = "ensure" /\ s.test = "bare"

\* A Tuple success has no single Go name, yet Ok(), a print or a slot asks for one.
SeveralSlots(p) ==
  \/ p.bind = "pair"
  \/ p.bind = "tuple" /\ \E s \in Statements(p.body) : s.k = "print"

\* A test that only a switch or an ensure block contains is not seen by the walk.
TestNotSeen(p) ==
  p.bind # "void" /\ ~ErrSlotUsed(p.body) /\ \E s \in Statements(p.body) : s.k \in {"ensure", "if"}

\* A bare return where an error must be returned has no zero value to pad with.
BareReturn(p) == ReturnType(p) # "Void" /\ \E s \in Statements(p.body) : s.k = "return" /\ s.val = "none"

\* Nothing checks that every path of a function returns.
RECURSIVE EndsInReturn(_)
EndsInReturn(stmts) ==
  /\ stmts # <<>>
  /\ LET s == Last(stmts)
     IN \/ s.k = "return"
        \/ s.k = "if" /\ EndsInReturn(s.body) /\ EndsInReturn(s.els)
        \/ s.k = "switch" /\ EndsInReturn(s.body)
MissingReturn(p) == ReturnType(p) \in {"Result", "Int"} /\ ~EndsInReturn(p.body)

\* A trailing call of a function that returns Result(Void) becomes `return nil`, and a
\* return in an ensure block is left out, with the mention of x it held.
DroppedStatement(p) ==
  \/ EndsInCall(p.body) /\ ReturnType(p) # "Void"
  \/ \E s \in Statements(p.body) : s.k = "ensure" /\ Return("x") \in Range(s.body)

\* The variable bound for x is never read: x is only tested, not at all, or only
\* mentioned where it is the failure.
NotRead(p) ==
  IF p.bind = "void" THEN ~\E s \in Statements(p.body) : Mentions(s) \/ s.k \in {"ensure", "if"}
  ELSE /\ p.bind = "int" /\ SuccessValueUsed(p.body)
       /\ \A x \in SiteSet(p) :
            /\ Mentions(x.s) => x.n = "err"
            /\ x.s.test # "OkV" /\ ~(x.s.k = "if" /\ x.s.test = "Err")

\* `if x is Err()` blanks a success variable that was not bound.
BlanksUnbound(p) ==
  /\ p.bind = "int" /\ ~SuccessValueUsed(p.body)
  /\ \E s \in Statements(p.body) : s.k = "if" /\ s.test = "Err"

\* A failed `ensure f() is Ok()` of a test shows f(), which is two values.
TestShowsCall(p) ==
  p.fn = "test" /\ p.bind # "void" /\ \E s \in Statements(p.body) : s.k = "ensure call" /\ ~s.alt

\* `return x` of the whole Result or of its failure returns success.
FailureReturned(p) == \E x \in SiteSet(p) : x.s = Return("x") /\ x.n # "ok"

\* A mention before an ensure in the same scope is lowered as if it came after it.
SeesLater(p) ==
  \E i, j \in DOMAIN p.body :
    /\ i < j /\ p.body[j].k = "ensure"
    /\ \E x \in Range(Sites(<<p.body[i]>>, "whole")) : x.n = "whole" /\ Mentions(x.s)

\* A failed ensure with an else error goes on in a function that returns nothing.
FailureIgnored(p) ==
  ReturnType(p) = "Void" /\ p.fn = "undeclared" /\ \E s \in Statements(p.body) : s.alt

\* A failed ensure below the top level of a function that returns Int returns zero.
FailureZeroed(p) == ReturnType(p) = "Int" /\ \E s \in Statements(p.body) : s.k \in {"ensure", "ensure call"}

Followed(p) ==
  ~(\/ BareOnValue(p) \/ SeveralSlots(p) \/ TestNotSeen(p) \/ BareReturn(p)
    \/ MissingReturn(p) \/ DroppedStatement(p) \/ NotRead(p) \/ BlanksUnbound(p) \/ TestShowsCall(p)
    \/ FailureReturned(p) \/ SeesLater(p) \/ FailureIgnored(p) \/ FailureZeroed(p))

\* Outside those cases the transformer emits Go that the Go compiler accepts, and the
\* Go function makes the same calls with the same values and ends the same way as the
\* Forst function, whether f succeeds or fails.
LoweringSound(p) ==
  Followed(p) => LET go == GoBody(p) IN ~Reported(go) /\ Compiles(p, go) /\ SameMeaning(p, go)
=============================================================================
