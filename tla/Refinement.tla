----------------------------- MODULE Refinement -----------------------------
(***************************************************************************)
(* Refinement facts of the type checker: which access paths a write may    *)
(* clobber, the algebra of assertions, and the life of a fact (ensure and  *)
(* if-narrowing establish it; writes, aliases, calls, closures and         *)
(* goroutines drop it) beside the storage of the running program.          *)
(***************************************************************************)
EXTENDS Naturals, Sequences, FiniteSets, SequencesExt, Subject

CONSTANT MaxStatements
VARIABLES scopes,    \* innermost last: the bindings each scope has (re)registered
          facts,     \* refinementFacts: subject and the paths it reads
          proved,    \* RefinementContext: subjects with the predicate
          compound,  \* compoundNarrowingByIdentifier: dotted places with the guard
          depsCache, \* guardDepsCache for the guard, or NoCache
          aliases,   \* AliasContext.pathAliases, root to path
          captures,  \* closureCaptures of the one closure, or {}
          collector, \* the if statement: not yet, open or done, and the writes collected
          storage,   \* run time: the object each variable names, and its contents
          running,   \* run time: the statements of the open branch are executed
          holes,     \* history: the ways taken that the checker does not follow
          needless,  \* history: a write to an unrelated field dropped a fact
          statements \* how many statements the program has so far
flowVars == <<scopes, facts, proved, compound, depsCache, aliases, captures,
              collector, storage, running, holes, needless, statements>>
(***************************************************************************)
(* Access paths: a root and steps, a field name or the coarse element [*]. *)
(***************************************************************************)
IndexAny == "[*]"
PathsOverlap(write, dep) == IsPrefix(write, dep)
PathsOverlapIndexAny(write, read) ==
   LET n == IF Len(write) < Len(read) THEN Len(write) ELSE Len(read)
       indexed(i) == write[i] = IndexAny \/ read[i] = IndexAny
   IN /\ \A i \in 1..n : indexed(i) \/ write[i] = read[i]
      /\ \/ \E i \in 1..n : indexed(i)
         \/ \E i \in Len(read) + 1 .. Len(write) : write[i] = IndexAny
MayClobber(write, read) == PathsOverlap(write, read) \/ PathsOverlapIndexAny(write, read)
Steps == {"age", "name", IndexAny}
PathCases == {[part |-> "paths", write |-> <<"x">> \o w, read |-> <<"x">> \o r] :
                 w \in UNION {[1..n -> Steps] : n \in 0..3}, r \in UNION {[1..n -> Steps] : n \in 0..3}}
(***************************************************************************)
(* Assertions: atoms, All (a Meet chain) and Any (or).  An interned        *)
(* predicate is known by its key, here a sequence of token ranks.          *)
(***************************************************************************)
Atoms == 3..6
RECURSIVE Truth(_, _), MustAtoms(_), Key(_)
Truth(a, val) == CASE a.conn = "atom" -> a.atom \in val
                   [] a.conn = "all"  -> \A i \in DOMAIN a.kids : Truth(a.kids[i], val)
                   [] a.conn = "any"  -> \E i \in DOMAIN a.kids : Truth(a.kids[i], val)
MustAtoms(a) ==
   CASE a.conn = "atom" -> {a.atom}
     [] a.conn = "all"  -> UNION {MustAtoms(a.kids[i]) : i \in DOMAIN a.kids}
     [] a.conn = "any"  -> {k \in Atoms : \A i \in DOMAIN a.kids : k \in MustAtoms(a.kids[i])}
RECURSIVE KeyLess(_, _)
KeyLess(s, t) == IF s = <<>> THEN t # <<>> ELSE t # <<>> /\
                 (s[1] < t[1] \/ (s[1] = t[1] /\ KeyLess(Tail(s), Tail(t))))
FlattenPredChildren(a) == FlattenSeq([i \in DOMAIN a.kids |->
   IF a.kids[i].conn = a.conn THEN a.kids[i].kids ELSE <<a.kids[i]>>])
ComputePredicateKey(rank, keys) ==
   IF Cardinality(keys) = 1 THEN CHOOSE k \in keys : TRUE
   ELSE <<rank>> \o FlattenSeq(SetToSortSeq(keys, KeyLess))
Key(a) ==
   IF a.conn = "atom" THEN <<a.atom>>
   ELSE LET kids == FlattenPredChildren(a)
        IN ComputePredicateKey(IF a.conn = "all" THEN 1 ELSE 2, {Key(kids[i]) : i \in DOMAIN kids})
LowerMeetChain(s) == IF Len(s) = 1 THEN [conn |-> "atom", atom |-> s[1]]
                     ELSE [conn |-> "all", kids |-> [i \in DOMAIN s |-> [conn |-> "atom", atom |-> s[i]]]]
LowerAssertionNode(chains) ==
   IF Len(chains) = 1 THEN LowerMeetChain(chains[1])
   ELSE [conn |-> "any", kids |-> [i \in DOMAIN chains |-> LowerMeetChain(chains[i])]]
Chains == {<<3>>, <<5>>, <<6>>, <<4, 3>>, <<3, 4, 5>>}
Assertions(n) == {LowerAssertionNode(cs) : cs \in UNION {[1..m -> Chains] : m \in 1..n}}
\* Two assertions of one subject, or two ensures in sequence (All) and one.
AssertionCases ==
   {[part |-> "assertion", left |-> a, right |-> b] : a \in Assertions(2), b \in Assertions(3)} \cup
   {[part |-> "assertion", left |-> [conn |-> "all", kids |-> <<a, b>>], right |-> c] :
       a \in Assertions(2), b \in Assertions(1), c \in Assertions(2)}
(***************************************************************************)
(* The flow of facts.  One predicate, the guard Adult whose body ensures   *)
(* its subject's age; places are the variables x, y, p of one type, the    *)
(* nested x.boss and a variable b of its type.  With subject.ref x, y and  *)
(* p hold pointers, otherwise x, y and b are plain structs and p a pointer *)
(* taken with &.  Every statement is checked and, when its branch is       *)
(* taken, executed.                                                        *)
(***************************************************************************)
Users == {"x", "y", "p"}
FlowVariables == Users \cup {"b"}
Places == {<<v>> : v \in FlowVariables} \cup {<<"x", "boss">>}
NoCache == <<"none">>
Unbound == 0
NoAlias == <<>>
Objects == 1..5
FlowCases == {[part |-> "flow", ref |-> r] : r \in BOOLEAN}
TypeMayAlias(v) == subject.ref \/ v = "p"
(* Scopes: a narrowing in an inner scope registers a new symbol there.     *)
BoundIn(v) == {i \in DOMAIN scopes : v \in DOMAIN scopes[i]}
LookupSymbolID(v) == <<v, CHOOSE i \in BoundIn(v) : \A j \in BoundIn(v) : j <= i>>
Guards(v) == scopes[LookupSymbolID(v)[2]][v]
AccessPathForVariable(pl) == <<LookupSymbolID(pl[1])>> \o Tail(pl)
(* Dependencies.  The cache keeps the steps below the root of the first    *)
(* subject the guard was seen with, and later uses append them.            *)
GuardBody == <<"age">>
DepsForNamedGuard(path) ==
   IF depsCache # NoCache THEN path \o depsCache ELSE path \o GuardBody
NewDepsCache(path) == IF depsCache # NoCache THEN depsCache ELSE Tail(path) \o GuardBody
(* Invalidation.                                                           *)
WriteOnly(al, path) == {path}
ExpandWriteThroughAliases(al, path) ==
   {path} \cup IF al[path[1]] = NoAlias THEN {} ELSE {al[path[1]] \o Tail(path)}
\* A fact is dropped by a write to what it reads, by a write to the whole of
\* its subject's root, and, as soon as an element is written or read, by any
\* write under that root.
ContainsIndexAny(path) == \E i \in 2..Len(path) : path[i] = IndexAny
Clobbered(write, f) ==
   \/ \E r \in f.reads : MayClobber(write, r)
   \/ /\ write[1] = f.subj[1]
      /\ Len(write) = 1 \/ ContainsIndexAny(write) \/ \E r \in f.reads : ContainsIndexAny(r)
Dropped(al, writes) ==
   {f \in facts : \E w \in writes : \E e \in ExpandWriteThroughAliases(al, w) : Clobbered(e, f)}
\* clearNarrowingForFact takes the name of the guard from every symbol.
ClearNarrowing(drop, sc, comp, prov) ==
   /\ facts' = facts \ drop
   /\ scopes' = IF drop = {} THEN sc ELSE [i \in DOMAIN sc |-> [v \in DOMAIN sc[i] |-> FALSE]]
   /\ compound' = IF drop = {} THEN comp ELSE {}
   /\ proved' = prov \ {f.subj : f \in drop}
InvalidateOverlappingFacts(al, writes) == ClearNarrowing(Dropped(al, writes), scopes, compound, proved)
(* What the checker believes, and the storage it speaks about.             *)
ExprHasGuardFact(pl) ==
   \/ IF Len(pl) = 1 THEN Guards(pl[1]) ELSE pl \in compound
   \/ AccessPathForVariable(pl) \in proved
NameOf(v) == storage.env[v]
Object(pl) == storage.obj[NameOf(pl[1])]
IsAdult(pl) == IF Len(pl) = 1 THEN Object(pl).self ELSE Object(pl).boss
Usable(pl) == NameOf(pl[1]) # Unbound
Mutated(v, self, boss) == [storage EXCEPT !.obj[NameOf(v)] = [self |-> self, boss |-> boss]]
\* History: how facts about these places can survive a write to paths.  Of
\* aliases only the variable that the root written to was assigned is followed.
Sharing(v) == {pl \in Places : NameOf(pl[1]) = NameOf(v)}
Rooted(v) == {pl \in Places : pl[1] = v}
Overlooked(places, writes) ==
   LET assigned(w) == {aliases[w[1]][i] : i \in DOMAIN aliases[w[1]] \cap {1}}
       reached == UNION {{w[1]} \cup assigned(w) : w \in writes}
       touched == {pl \in places : Usable(pl) /\ ExprHasGuardFact(pl)}
       path(pl) == AccessPathForVariable(pl)
   IN (IF \E pl \in touched : path(pl)[1] \notin reached THEN {"alias"} ELSE {}) \cup
      (IF \E pl \in touched : \A f \in facts : f.subj # path(pl) THEN {"unrecorded"} ELSE {}) \cup
      (IF Len(scopes) > 1 /\ DOMAIN scopes[2] # {} THEN {"shadow"} ELSE {}) \cup
      (IF \E f \in facts : f.reads # {f.subj \o GuardBody} THEN {"cache"} ELSE {})
\* A program is followed up to the first such way.
Statement == /\ subject.part = "flow" /\ statements < MaxStatements /\ holes = {}
             /\ statements' = statements + 1 /\ UNCHANGED subject
NewHoles(hs) == holes' = IF running THEN holes \cup hs ELSE holes
Store(sts) == IF running THEN storage' \in sts ELSE UNCHANGED storage
(* Establishing facts.  Only an ensure records the fact for invalidation.  *)
RegisterSymbolWithNarrowing(pl, sc) ==
   LET top  == Len(sc)
       path == IF Len(pl) = 1 THEN <<<<pl[1], top>>>> ELSE AccessPathForVariable(pl)
   IN /\ scopes' = IF Len(pl) = 1
                   THEN [sc EXCEPT ![top] = [w \in DOMAIN sc[top] \cup {pl[1]} |-> w = pl[1] \/ sc[top][w]]]
                   ELSE sc
      /\ compound' = IF Len(pl) = 1 THEN compound ELSE compound \cup {pl}
      /\ proved' = proved \cup {path}
EnsureStatement(pl) ==
   LET path == IF Len(pl) = 1 THEN <<<<pl[1], Len(scopes)>>>> ELSE AccessPathForVariable(pl)
   IN /\ Statement /\ Usable(pl)
      /\ running => IsAdult(pl)           \* otherwise the function returns
      /\ RegisterSymbolWithNarrowing(pl, scopes)
      /\ facts' = facts \cup {[subj |-> path, reads |-> {DepsForNamedGuard(path)}]}
      /\ depsCache' = NewDepsCache(path)
      /\ holes' = IF Len(pl) = 2 /\ Len(scopes) = 2 THEN holes \cup {"leak"} ELSE holes
      /\ UNCHANGED <<aliases, captures, collector, storage, running, needless>>
IfIs(pl) ==
   /\ Statement /\ Usable(pl) /\ collector.state = "none"
   /\ RegisterSymbolWithNarrowing(pl, Append(scopes, <<>>))
   /\ collector' = [state |-> "open", writes |-> {}]
   /\ running' = IsAdult(pl)
   /\ holes' = IF Len(pl) = 2 THEN holes \cup {"leak"} ELSE holes
   /\ UNCHANGED <<facts, depsCache, aliases, captures, storage, needless>>
IfCondition ==
   /\ Statement /\ collector.state = "none"
   /\ scopes' = Append(scopes, <<>>)
   /\ collector' = [state |-> "open", writes |-> {}]
   /\ running' \in BOOLEAN
   /\ UNCHANGED <<facts, proved, compound, depsCache, aliases, captures, storage, holes, needless>>
EndIf ==
   /\ Statement /\ collector.state = "open"
   /\ ClearNarrowing(Dropped(aliases, collector.writes), Front(scopes), compound, proved)
   /\ collector' = [state |-> "done", writes |-> {}] /\ running' = TRUE
   /\ UNCHANGED <<depsCache, aliases, captures, storage, holes, needless>>
(* Mutation.  applyWriteInvalidation also feeds the collector of an open if. *)
Collect(path) == collector' = IF collector.state = "open"
                              THEN [collector EXCEPT !.writes = @ \cup {path}] ELSE collector
Written(pl) == AccessPathForVariable(<<pl[1]>>) \o Tail(pl)
AssignField(pl) ==
   LET drop == Dropped(aliases, {Written(pl)})
   IN /\ Statement /\ Usable(<<pl[1]>>)
      /\ InvalidateOverlappingFacts(aliases, {Written(pl)}) /\ Collect(Written(pl))
      /\ Store({Mutated(pl[1], IF pl[2] = "age" THEN b ELSE Object(<<pl[1]>>).self,
                               IF pl[2] = "boss" THEN b ELSE Object(<<pl[1]>>).boss) : b \in BOOLEAN})
      /\ NewHoles(IF pl[2] \in {"name", "tags"} THEN {} ELSE Overlooked(Sharing(pl[1]), {Written(pl)}))
      /\ needless' = (needless \/ (pl[2] = "name" /\ drop # {}))
      /\ UNCHANGED <<depsCache, aliases, captures, running>>
\* v = w: shares w's object when the type may alias, and copies it otherwise.
\* The alias is recorded before the write to v is applied.
AssignVariable(v, w) ==
   LET new == [aliases EXCEPT ![LookupSymbolID(v)] = IF TypeMayAlias(w) THEN <<LookupSymbolID(w)>> ELSE NoAlias]
   IN /\ Statement /\ v # w /\ Usable(<<w>>) /\ (subject.ref \/ "p" \notin {v, w})
      /\ aliases' = new
      /\ InvalidateOverlappingFacts(new, {Written(<<v>>)}) /\ Collect(Written(<<v>>))
      /\ Store({IF TypeMayAlias(w) THEN [storage EXCEPT !.env[v] = NameOf(w)]
                ELSE [storage EXCEPT !.obj[NameOf(v)] = Object(<<w>>)]})
      /\ NewHoles(Overlooked(IF TypeMayAlias(w) THEN Rooted(v) ELSE Sharing(v), {Written(<<v>>)}))
      /\ UNCHANGED <<depsCache, captures, running, needless>>
\* v = newUser(): the right-hand side is no path, so the alias set is kept.
AssignFresh(v) ==
   LET unused == Objects \ {NameOf(w) : w \in FlowVariables}
       some   == [self : BOOLEAN, boss : BOOLEAN]
   IN /\ Statement /\ (subject.ref \/ v # "p")
      /\ InvalidateOverlappingFacts(aliases, {Written(<<v>>)}) /\ Collect(Written(<<v>>))
      /\ Store(IF subject.ref
               THEN {[storage EXCEPT !.env[v] = o, !.obj[o] = c] : o \in {CHOOSE o \in unused : TRUE}, c \in some}
               ELSE {[storage EXCEPT !.obj[NameOf(v)] = c] : c \in some})
      /\ NewHoles(Overlooked(IF subject.ref THEN Rooted(v) ELSE Sharing(v), {Written(<<v>>)}))
      /\ UNCHANGED <<depsCache, aliases, captures, running, needless>>
\* p = &w (structs): takes the alias and drops the facts about w.
AssignReference(w) ==
   LET new == [aliases EXCEPT ![LookupSymbolID("p")] = <<LookupSymbolID(w)>>]
   IN /\ Statement /\ ~subject.ref /\ w # "p"
      /\ aliases' = new
      /\ InvalidateOverlappingFacts(new, {Written(<<w>>), Written(<<"p">>)}) /\ Collect(Written(<<"p">>))
      /\ Store({[storage EXCEPT !.env["p"] = NameOf(w)]})
      /\ NewHoles(Overlooked(Rooted("p"), {Written(<<"p">>)}))
      /\ UNCHANGED <<depsCache, captures, running, needless>>
\* b = x.boss (structs): a copy, which the checker takes for an alias.
ExtractField ==
   LET new == [aliases EXCEPT ![LookupSymbolID("b")] = AccessPathForVariable(<<"x", "boss">>)]
   IN /\ Statement /\ ~subject.ref
      /\ aliases' = new
      /\ InvalidateOverlappingFacts(new, {Written(<<"b">>)}) /\ Collect(Written(<<"b">>))
      /\ Store({Mutated("b", Object(<<"x">>).boss, TRUE)})
      /\ NewHoles(Overlooked(Rooted("b"), {Written(<<"b">>)}))
      /\ UNCHANGED <<depsCache, captures, running, needless>>
(* Calls.  A summary lists the parameter paths the body of the callee      *)
(* writes itself, and there is none for a callee that writes none; a       *)
(* callee that also passes its parameter on may change more.               *)
Summaries == {"age", "name", "none", "name and a call"}
ApplyCallSummaryInvalidation(v, sum) ==
   {Written(<<v>>) \o CASE sum = "age" -> <<"age">> [] sum = "none" -> <<>> [] OTHER -> <<"name">>}
CallForst(v, sum) ==
   LET writes == ApplyCallSummaryInvalidation(v, sum)
   IN /\ Statement /\ Usable(<<v>>)
      /\ InvalidateOverlappingFacts(aliases, writes)
      /\ Store(IF TypeMayAlias(v) /\ sum \in {"age", "name and a call"}
               THEN {Mutated(v, b, Object(<<v>>).boss) : b \in BOOLEAN} ELSE {storage})
      /\ NewHoles((IF sum = "name and a call" THEN {"summary"} ELSE {}) \cup
                  (IF sum = "age" THEN Overlooked(Sharing(v), writes) ELSE {}))
      /\ needless' = (needless \/ (sum = "name" /\ Dropped(aliases, writes) # {}))
      /\ UNCHANGED <<depsCache, aliases, captures, collector, running>>
\* A Go call, a go statement or a channel send that is given v, or &v.
InvalidateReachableMutableArg(v) == IF TypeMayAlias(v) THEN {Written(<<v>>)} ELSE {}
PassAbroad(v, byAddress) ==
   LET writes == InvalidateReachableMutableArg(v)
   IN /\ Statement /\ Usable(<<v>>)
      /\ InvalidateOverlappingFacts(aliases, writes)
      /\ Store(IF TypeMayAlias(v) \/ byAddress
               THEN {Mutated(v, b, c) : b \in BOOLEAN, c \in BOOLEAN} ELSE {storage})
      /\ NewHoles(IF writes # {} THEN Overlooked(Sharing(v), writes) ELSE IF byAddress THEN {"address"} ELSE {})
      /\ UNCHANGED <<depsCache, aliases, captures, collector, running, needless>>
(* A closure that writes v.age: only its calls drop facts.                 *)
BindClosureCaptures(v) ==
   /\ Statement /\ captures = {} /\ Usable(<<v>>)
   /\ captures' = {Written(<<v>>) \o <<"age">>}
   /\ UNCHANGED <<scopes, facts, proved, compound, depsCache, aliases, collector, storage, running, holes, needless>>
CallClosure ==
   \E w \in captures :
      LET v == w[1][1]
      IN /\ Statement
         /\ InvalidateOverlappingFacts(aliases, captures)
         /\ Store({Mutated(v, b, Object(<<v>>).boss) : b \in BOOLEAN})
         /\ NewHoles(Overlooked(Sharing(v), captures))
         /\ UNCHANGED <<depsCache, aliases, captures, collector, running, needless>>
RefinementIdle == /\ scopes = <<>> /\ facts = {} /\ proved = {} /\ compound = {} /\ depsCache = NoCache
          /\ aliases = <<>> /\ captures = {} /\ collector = <<>> /\ storage = <<>>
          /\ running = TRUE /\ holes = {} /\ needless = FALSE /\ statements = 0
FlowInit ==
   /\ subject \in FlowCases
   /\ scopes = <<[v \in FlowVariables |-> FALSE]>>
   /\ facts = {} /\ proved = {} /\ compound = {} /\ depsCache = NoCache
   /\ aliases = [id \in FlowVariables \X {1, 2} |-> NoAlias]
   /\ captures = {} /\ collector = [state |-> "none", writes |-> {}]
   /\ storage = [env |-> [x |-> 1, y |-> 2, p |-> IF subject.ref THEN 3 ELSE Unbound,
                             b |-> IF subject.ref THEN Unbound ELSE 5],
                 obj |-> [o \in Objects |-> [self |-> o # 2, boss |-> TRUE]]]
   /\ running = TRUE /\ holes = {} /\ needless = FALSE /\ statements = 0
RefinementInit == FlowInit \/ (subject \in PathCases \cup AssertionCases /\ RefinementIdle)
RefinementNext ==
   \/ \E pl \in Places : EnsureStatement(pl) \/ IfIs(pl)
   \/ IfCondition \/ EndIf
   \/ \E pl \in (FlowVariables \X {"age"}) \cup {<<"x", "name">>, <<"x", "tags", IndexAny>>,
                                           <<"x", "boss">>, <<"x", "boss", "age">>} : AssignField(pl)
   \/ \E v, w \in Users : AssignVariable(v, w)
   \/ ExtractField
   \/ \E v \in Users : \/ AssignFresh(v) \/ AssignReference(v) \/ BindClosureCaptures(v)
                       \/ \E sum \in Summaries : CallForst(v, sum)
                       \/ \E a \in BOOLEAN : PassAbroad(v, a)
   \/ CallClosure
-----------------------------------------------------------------------------
RECURSIVE Concrete(_)
Concrete(path) == IF path = <<>> THEN {<<>>} ELSE
   {<<h>> \o t : h \in IF path[1] = IndexAny THEN {"age", "name", "0"} ELSE {path[1]}, t \in Concrete(Tail(path))}
\* (MayClobber) A write that may replace storage a fact reads, for some choice
\* of the elements, clobbers it; and a clobbered path may share storage.  (The
\* stability rules also count a read that is a prefix of the write as an
\* overlap, the comment of PathsOverlap does not: neither is asked for.)
ClobberExact ==
   subject.part = "paths" =>
      LET may(P(_, _)) == \E w \in Concrete(subject.write), r \in Concrete(subject.read) : P(w, r)
          covers(w, r) == IsPrefix(w, r)
          shares(w, r) == IsPrefix(w, r) \/ IsPrefix(r, w)
      IN /\ may(covers) => MayClobber(subject.write, subject.read)
         /\ MayClobber(subject.write, subject.read) => may(shares)
Alternatives(a) == IF a.conn = "any" THEN Cardinality({Key(a.kids[i]) : i \in DOMAIN a.kids}) ELSE 1
\* (MustAtoms, PredicateInterner) An atom exported by must() holds whenever
\* the assertion does, and two assertions with as many alternatives that are
\* interned as one predicate mean the same.  (With different numbers they
\* need not: joinPredKeys does not delimit the keys it joins.)
PredicatesFaithful ==
   subject.part = "assertion" =>
      /\ \A val \in SUBSET Atoms : Truth(subject.left, val) => MustAtoms(subject.left) \subseteq val
      /\ Key(subject.left) = Key(subject.right) /\ Alternatives(subject.left) = Alternatives(subject.right) =>
            \A val \in SUBSET Atoms : Truth(subject.left, val) <=> Truth(subject.right, val)
\* examples/in/rfc/refinements/13-refinement-stability.md: "A refinement remains
\* valid until an operation may modify any value on which that refinement
\* depends", and then it is removed: a fact the checker holds is true.
FactsHold ==
   subject.part = "flow" /\ running =>
      \A pl \in Places : Usable(pl) /\ ExprHasGuardFact(pl) => IsAdult(pl)
\* Of the ways a fact survives what makes it false, the one the comment "&x ->
\* invalidate x" rules out: a struct whose address a Go call is given.
AddressInvalidates == holes \subseteq {"address"} => FactsHold
\* (invalidateOverlappingFactsWithReason) Facts hold in programs that take
\* none of the ways the checker does not follow, and a write to a field that
\* no fact reads never drops one.
RefinementSound == /\ ClobberExact /\ PredicatesFaithful
                   /\ holes = {} => FactsHold
                   /\ ~needless
=============================================================================
