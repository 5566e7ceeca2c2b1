------------------------------ MODULE EvalExpr ------------------------------
(***************************************************************************)
(* Expressions compiled to opcodes (parser.y, jsiCode.c) and their         *)
(* evaluation on the stack of values (jsiEval.c, jsiValue.c, jsiFunc.c),   *)
(* against an evaluator that follows the expression as it is written.      *)
(*                                                                         *)
(* A variable is pushed as a reference to the cell of its value; opcodes   *)
(* that need values replace the references by what the cells hold then     *)
(* (VarDeref).  The object of a method call is kept beside the stack       *)
(* (Obj_this), at the place of the function, until the call takes it.      *)
(*                                                                         *)
(* Numbers are integers or NaN; a string is a text.  Objects have          *)
(* properties in cells, a prototype, and for functions the code and the    *)
(* scopes where they were made.  Arrays are in JsiArray, the statements    *)
(* other than those needed here in EvalCode.                               *)
(***************************************************************************)
EXTENDS Integers, Sequences, SequencesExt, TLC

CONSTANTS
    Prelude,     \* the statements run before a program
    Programs,    \* sequences of statements
    Reached      \* how many places of the stack the prelude has used

VARIABLES
    program,     \* the program that was compiled
    frames,      \* the activations of _jsi_evalcode, outermost first
    stack,       \* interp->Stack up to Sp
    reached,     \* the places of the stack that have been allocated
    obj_this,    \* interp->Obj_this: the places that hold an object, and which
    heap, cells, \* the objects, and the values of variables and properties
    trace,       \* what the program has reported
    outcome,     \* "running", or how it ended
    surprises    \* what has happened that the text of the program does not say

vars == <<program, frames, stack, reached, obj_this, heap, cells, trace, outcome, surprises>>

-----------------------------------------------------------------------------
(* Values. *)

Undef   == [vt |-> "undef"]
NaN     == [vt |-> "nan"]
Num(n)  == [vt |-> "number", num |-> n]
Bool(b) == [vt |-> "bool", val |-> b]
Str(s)  == [vt |-> "string", str |-> s]
Ref(o)  == [vt |-> "object", obj |-> o]
Variable(c, v) == [vt |-> "variable", lval |-> c, was |-> v]

Global == 1          \* interp->Top_object, which is also the outermost scope
NoProto == 0

IsFunction(hp, v) == v.vt = "object" /\ hp[v.obj].ot = "function"

NewObj(ot, proto) == [ot |-> ot, props |-> <<>>, proto |-> proto, fn |-> <<>>, scope |-> <<>>]

\* Jsi_ValueToPrimitive
ToPrimitive(hp, v) ==
    IF v.vt # "object" THEN v
    ELSE CASE hp[v.obj].ot = "wrapper" -> Num(0)
           [] hp[v.obj].ot = "function" -> Str("function")
           [] hp[v.obj].ot = "object" -> Str("[object Object]")

\* Jsi_ValueToString
ToText(v) ==
    CASE v.vt = "string" -> v.str
      [] v.vt = "undef"  -> "undefined"
      [] v.vt = "bool"   -> IF v.val THEN "true" ELSE "false"
      [] v.vt = "number" -> ToString(v.num)
      [] v.vt = "nan"    -> "NaN"
      [] v.vt = "object" -> "[object Object]"

\* Jsi_ValueToNumber: a text is a number if all of it is (those that occur are small)
ToNumber(v) ==
    CASE v.vt \in {"number", "nan"} -> v
      [] v.vt = "undef"  -> NaN
      [] v.vt = "bool"   -> Num(IF v.val THEN 1 ELSE 0)
      [] v.vt = "object" -> Num(0)
      [] v.vt = "string" ->
           LET denoted == {n \in -99 .. 99 : ToString(n) = v.str}
           IN IF v.str = "" THEN Num(0)
              ELSE IF denoted = {} THEN NaN ELSE Num(CHOOSE n \in denoted : TRUE)

\* Jsi_ValueIsTrue
IsTrue(v) ==
    CASE v.vt \in {"undef", "nan"} -> FALSE
      [] v.vt = "bool"   -> v.val
      [] v.vt = "number" -> v.num # 0
      [] v.vt = "string" -> v.str # ""
      [] v.vt = "object" -> TRUE

\* Jsi_ValueCmp, whether two values are equal
Same(hp, v1, v2, exact) ==
    LET p1 == IF v1.vt = v2.vt THEN v1 ELSE ToPrimitive(hp, v1)
        p2 == IF v1.vt = v2.vt THEN v2 ELSE ToPrimitive(hp, v2)
        kind(v) == IF v.vt = "nan" THEN "number" ELSE v.vt
    IN IF kind(p1) = kind(p2) THEN p1 = p2 /\ p1 # NaN
       ELSE /\ ~ exact
            /\ ToNumber(p1) = ToNumber(p2)
            /\ ToNumber(p1) # NaN

\* logic_less on numbers; with a text for one operand that is no number the
\* result is undefined, and its negation too.
Less(hp, v1, v2) ==
    LET n1 == ToNumber(ToPrimitive(hp, v1))
        n2 == ToNumber(ToPrimitive(hp, v2))
    IN IF NaN \in {n1, n2} THEN Undef ELSE Bool(n1.num < n2.num)

Negated(v) == IF v.vt = "bool" THEN Bool(~ v.val) ELSE v

\* Jsi_ValueTypeStr
TypeStr(hp, v) ==
    CASE v.vt = "undef" -> "undefined"
      [] v.vt = "nan" -> "number"
      [] v.vt = "bool" -> "boolean"
      [] v.vt \in {"number", "string"} -> v.vt
      [] v.vt = "object" -> hp[v.obj].ot

\* The objects from o on along the prototypes; a prototype is the cell that held it
\* when the object was made.
RECURSIVE Chain(_, _, _)
Chain(hp, cl, o) ==
    LET p == hp[o].proto
    IN IF p = NoProto \/ cl[p].vt # "object" THEN <<o>>
       ELSE <<o>> \o Chain(hp, cl, cl[p].obj)

\* Jsi_ValueInstanceOf: prototypes are the same when their cells are.
InstanceOf(hp, cl, v1, v2) ==
    /\ v1.vt = "object" /\ IsFunction(hp, v2)
    /\ "prototype" \in DOMAIN hp[v2.obj].props
    /\ \E i \in DOMAIN Chain(hp, cl, v1.obj) :
          hp[Chain(hp, cl, v1.obj)[i]].proto = hp[v2.obj].props["prototype"]

\* The operators of two values.
Arith(n1, n2, result) == IF NaN \in {n1, n2} THEN NaN ELSE Num(result)

Operate(op, hp, cl, l, r) ==
    LET pl == ToPrimitive(hp, l)
        pr == ToPrimitive(hp, r)
    IN CASE op = "ADD" /\ "string" \in {pl.vt, pr.vt} -> Str(ToText(pl) \o ToText(pr))
         [] op = "ADD" /\ "string" \notin {pl.vt, pr.vt} ->
              Arith(ToNumber(pl), ToNumber(pr), ToNumber(pl).num + ToNumber(pr).num)
         [] op = "SUB" -> Arith(ToNumber(l), ToNumber(r), ToNumber(l).num - ToNumber(r).num)
         [] op = "MUL" -> Arith(ToNumber(l), ToNumber(r), ToNumber(l).num * ToNumber(r).num)
         [] op = "LESS" -> Less(hp, l, r)
         [] op = "GREATER" -> Less(hp, r, l)
         [] op = "LESSEQU" -> Negated(Less(hp, r, l))
         [] op = "GREATEREQU" -> Negated(Less(hp, l, r))
         [] op = "EQUAL" -> Bool(Same(hp, r, l, FALSE))
         [] op = "NOTEQUAL" -> Bool(~ Same(hp, r, l, FALSE))
         [] op = "STRICTEQU" -> Bool(Same(hp, r, l, TRUE))
         [] op = "STRICTNEQ" -> Bool(~ Same(hp, r, l, TRUE))
         [] op = "INSTANCEOF" -> Bool(InstanceOf(hp, cl, l, r))

Unary(op, v) ==
    CASE op = "NEG" -> IF ToNumber(v) = NaN THEN NaN ELSE Num(- ToNumber(v).num)
      [] op = "POS" -> ToNumber(v)
      [] op = "NOT" -> Bool(~ IsTrue(v))

-----------------------------------------------------------------------------
(* Objects, properties and scopes, over a store of heap and cells. *)

\* Jsi_ValueToObject: what is no object is wrapped.
ToObject(st, v) ==
    IF v.vt = "object" THEN [st |-> st, v |-> v]
    ELSE [st |-> [st EXCEPT !.heap = Append(@, NewObj("wrapper", NoProto))],
          v |-> Ref(Len(st.heap) + 1)]

\* jsi_ValueObjKeyAssign: a property is given a new cell.
KeyAssign(st, o, key, v) ==
    [st EXCEPT !.cells = Append(@, v),
               !.heap[o].props = (key :> Len(st.cells) + 1) @@ @]

\* jsi_ValueSubscript: the cell of a property, of the object or of its prototypes.
Found(st, o, key) ==
    LET chain == Chain(st.heap, st.cells, o)
        i == SelectInSeq(chain, LAMBDA p : key \in DOMAIN st.heap[p].props)
    IN IF i = 0 THEN 0 ELSE st.heap[chain[i]].props[key]
Property(st, o, key) ==
    IF Found(st, o, key) = 0 THEN Undef ELSE st.cells[Found(st, o, key)]

\* Where a variable is found: the current scope, then the chain from its end.
ScopeOf(hp, scopes, x) ==
    SelectLastInSeq(scopes, LAMBDA o : x \in DOMAIN hp[o].props)

\* A variable that is nowhere is made in the outermost scope.
WithVar(st, scopes, x) ==
    IF ScopeOf(st.heap, scopes, x) # 0 THEN st ELSE KeyAssign(st, scopes[1], x, Undef)
CellOf(st, scopes, x) == st.heap[scopes[ScopeOf(st.heap, scopes, x)]].props[x]

\* ValueObjDelete
Deleted(st, o, key) ==
    [st EXCEPT !.heap[o].props = Restrict(@, DOMAIN @ \ {key})]

\* A function made in a scope, with a new object as its prototype.
WithFunction(st, fn, scopes) ==
    LET f == Len(st.heap) + 1
        made == [st EXCEPT !.heap = @ \o <<[NewObj("function", NoProto) EXCEPT
                                              !.fn = fn, !.scope = scopes],
                                           NewObj("object", NoProto)>>]
    IN [st |-> KeyAssign(made, f, "prototype", Ref(f + 1)), v |-> Ref(f)]

\* The scope of a call: the parameters with the arguments that there are, and
\* the local variables, which hide a parameter of the same name.
RECURSIVE Bound(_, _, _, _)
Bound(st, o, names, values) ==
    IF names = <<>> THEN st
    ELSE Bound(KeyAssign(st, o, Head(names), IF values = <<>> THEN Undef ELSE Head(values)),
               o, Tail(names), IF values = <<>> THEN <<>> ELSE Tail(values))

CallScope(st, fn, args) ==
    LET o == Len(st.heap) + 1
        made == [st EXCEPT !.heap = Append(@, NewObj("object", NoProto))]
    IN [st |-> Bound(Bound(made, o, fn.params, args), o, fn.locals, <<>>), o |-> o]

\* The object that new makes, with the prototype of its constructor.
NewThis(st, f) ==
    LET props == st.heap[f].props
        has == /\ "prototype" \in DOMAIN props
               /\ st.cells[props["prototype"]].vt = "object"
    IN [st |-> [st EXCEPT !.heap = Append(@, NewObj("object",
                    IF has THEN props["prototype"] ELSE NoProto))],
        v |-> Ref(Len(st.heap) + 1)]

\* Jsi_ObjNewObj
WithObject(st, names, values) ==
    [st |-> Bound([st EXCEPT !.heap = Append(@, NewObj("object", NoProto))],
                  Len(st.heap) + 1, names, values),
     v |-> Ref(Len(st.heap) + 1)]

\* What there is before a program runs: the commands, and what the prelude makes.
Command(name) == [native |-> name, params |-> <<>>, locals |-> <<>>, body |-> <<>>]

FirstStore ==
    LET none == [heap |-> <<NewObj("object", NoProto)>>, cells |-> <<>>, trace |-> <<>>,
                 exc |-> FALSE, done |-> FALSE]
        puts == WithFunction(none, Command("puts"), <<>>)
        fail == WithFunction(puts.st, Command("fail"), <<>>)
    IN KeyAssign(KeyAssign(fail.st, Global, "puts", puts.v), Global, "fail", fail.v)

-----------------------------------------------------------------------------
(* The compiler.  An expression is a tuple that begins with its kind; the  *)
(* member o.x is <<"get", o, <<"str", "x">> >>.                            *)

Op(op, arg) == <<[op |-> op, arg |-> arg]>>

RECURSIVE Code(_), CodeOf(_), Statement(_), Statements(_)

\* An lvalue: a variable, this, or an object and a key.
LvalueCode(e) ==
    CASE e[1] = "var"  -> Op("PUSHVAR", e[2])
      [] e[1] = "this" -> Op("PUSHTHS", 0)
      [] e[1] = "get"  -> Code(e[2]) \o Code(e[3])

LvalueFlag(e) == IF e[1] = "get" THEN 2 ELSE 1

\* The codes of a list of expressions.
CodeOf(es) == IF es = <<>> THEN <<>> ELSE Code(Head(es)) \o CodeOf(Tail(es))

\* opassign
OpAssign(op, lv, e) ==
    IF LvalueFlag(lv) = 1
    THEN LvalueCode(lv) \o Op("PUSHTOP", 0) \o Code(e) \o Op(op, 0) \o Op("ASSIGN", 1)
    ELSE LvalueCode(lv) \o Op("PUSHTOP2", 0) \o Op("SUBSCRIPT", 1) \o Code(e) \o Op(op, 0)
           \o Op("ASSIGN", 2)

\* Faulty: a member is pushed by value, as it is when it is only read.
IncOfValue(op, post, lv) ==
    LvalueCode(lv) \o (IF LvalueFlag(lv) = 2 THEN Op("SUBSCRIPT", 1) ELSE <<>>)
      \o Op(op, post)

\* lvalue INC, INC lvalue, and those of DEC
IncCode(op, post, lv) ==
    LvalueCode(lv) \o (IF LvalueFlag(lv) = 2 THEN Op("SUBSCRIPT", 0) ELSE <<>>)
      \o Op(op, post)

\* fcall_exprs, and the forms of new
CallCode(callee, args) ==
    (IF callee[1] = "get"
     THEN LvalueCode(callee) \o Op("CHTHIS", 1) \o Op("SUBSCRIPT", 1)
     ELSE Code(callee) \o Op("CHTHIS", 0))
      \o CodeOf(args) \o Op("FCALL", [argc |-> Len(args), method |-> callee[1] = "get"])

NewCode(callee, args) ==
    Code(callee) \o CodeOf(args) \o Op("NEWFCALL", [argc |-> Len(args), method |-> FALSE])

ObjectCode(names, es) ==
    CodeOf(FlattenSeq([i \in DOMAIN names |-> << <<"str", names[i]>>, es[i] >>]))
      \o Op("OBJECT", Len(names))

\* and, or and the conditional, with relative jumps
BranchCode(e) ==
    LET second == Op("POP", 1) \o Code(e[3])
        yes == Code(e[3]) \o Op("JMP", Len(Code(e[4])) + 1)
    IN CASE e[1] = "and"  -> Code(e[2]) \o Op("JFALSE_NP", Len(second) + 1) \o second
         [] e[1] = "or"   -> Code(e[2]) \o Op("JTRUE_NP", Len(second) + 1) \o second
         [] e[1] = "cond" -> Code(e[2]) \o Op("JFALSE", Len(yes) + 1) \o yes \o Code(e[4])

\* expr
Code(e) ==
    CASE e[1] = "num" -> Op("PUSHNUM", e[2])
      [] e[1] = "str" -> Op("PUSHSTR", e[2])
      [] e[1] = "undef" -> Op("PUSHUND", 0)
      [] e[1] = "fn"  -> Op("PUSHFUN", e[2])
      [] e[1] \in {"var", "this"} -> LvalueCode(e)
      [] e[1] = "get" -> LvalueCode(e) \o Op("SUBSCRIPT", 1)
      [] e[1] = "assign" -> LvalueCode(e[2]) \o Code(e[3]) \o Op("ASSIGN", LvalueFlag(e[2]))
      [] e[1] = "opassign" -> OpAssign(e[2], e[3], e[4])
      [] e[1] = "inc" -> IncCode(e[2], e[3], e[4])
      [] e[1] = "bin" -> Code(e[3]) \o Code(e[4]) \o Op(e[2], 0)
      [] e[1] = "un" -> Code(e[3]) \o Op(e[2], 0)
      [] e[1] = "comma" -> Code(e[2]) \o Op("POP", 1) \o Code(e[3])
      [] e[1] \in {"and", "or", "cond"} -> BranchCode(e)
      [] e[1] = "call" -> CallCode(e[2], e[3])
      [] e[1] = "new" -> NewCode(e[2], e[3])
      [] e[1] = "object" -> ObjectCode(e[2], e[3])

\* The statements that are needed here.
Statement(s) ==
    CASE s[1] = "expr"   -> Code(s[2]) \o Op("POP", 1)
      [] s[1] = "return" -> Code(s[2]) \o Op("RET", 1)
      [] s[1] = "throw"  -> Code(s[2]) \o Op("THROW", 0)
      [] s[1] = "delete" -> LvalueCode(s[2]) \o Op("DELETE", LvalueFlag(s[2]))
      [] s[1] = "try"    ->
           LET body == Statements(s[2])
               handler == Statements(s[3])
           IN Op("STRY", Len(body) + 2) \o body \o Op("ETRY", Len(handler) + 1) \o handler

Statements(ss) == FlattenSeq([i \in DOMAIN ss |-> Statement(ss[i])])

-----------------------------------------------------------------------------
(* The evaluator that follows the text.  It changes a store with what was  *)
(* reported and whether an exception is on its way; done is set by return. *)

Result(st, v) == [st |-> st, v |-> v]
Raise(st) == Result([st EXCEPT !.exc = TRUE], Undef)

\* What follows an expression, if it did not throw.
Then(r, Next1(_, _)) == IF r.st.exc THEN r ELSE Next1(r.st, r.v)

\* A place is a variable, or a member of an object: it is read, written and removed.
Fetch(st, env, place) ==
    IF place[1] = "var" THEN Result(st, st.cells[CellOf(st, env, place[2])])
    ELSE LET w == ToObject(st, place[2])
         IN Result(w.st, Property(w.st, w.v.obj, ToText(place[3])))

Store(st, env, place, v) ==
    Result(CASE place[1] = "var" -> [st EXCEPT !.cells[CellOf(st, env, place[2])] = v]
             [] place[1] = "get" /\ place[2].vt = "object" ->
                  KeyAssign(st, place[2].obj, ToText(place[3]), v)
             [] OTHER -> st,
           v)

Emptied(st, env, place) ==
    CASE place[1] = "var" -> Store(st, env, place, Undef)
      [] place[1] = "get" /\ place[2].vt = "object" ->
           Result(Deleted(st, place[2].obj, ToText(place[3])), Undef)
      [] OTHER -> Result(st, Undef)

\* The values and places of expressions, from left to right, and what statements and
\* calls do; the value of statements is that of return.
RECURSIVE Ev(_, _, _, _)
Ev(e, env, this, st) ==
    CASE e[1] = "num" -> Result(st, Num(e[2]))
      [] e[1] = "str" -> Result(st, Str(e[2]))
      [] e[1] = "undef" -> Result(st, Undef)
      [] e[1] = "this" -> Result(st, this)
      [] e[1] = "fn" -> WithFunction(st, e[2], env)
      [] e[1] = "list" ->
           IF e[2] = <<>> THEN Result(st, <<>>)
           ELSE Then(Ev(Head(e[2]), env, this, st), LAMBDA s, v :
                  Then(Ev(<<"list", Tail(e[2])>>, env, this, s), LAMBDA t, w :
                    Result(t, <<v>> \o w)))
      [] e[1] = "place" ->
           IF e[2][1] = "var" THEN Result(WithVar(st, env, e[2][2]), e[2])
           ELSE Then(Ev(<<"list", Tail(e[2])>>, env, this, st), LAMBDA s, v :
                  Result(s, <<"get">> \o v))
      [] e[1] \in {"var", "get"} ->
           Then(Ev(<<"place", e>>, env, this, st), LAMBDA s, p : Fetch(s, env, p))
      [] e[1] = "assign" ->
           Then(Ev(<<"place", e[2]>>, env, this, st), LAMBDA s, p :
             Then(Ev(e[3], env, this, s), LAMBDA t, v : Store(t, env, p, v)))
      [] e[1] = "opassign" ->
           Then(Ev(<<"place", e[3]>>, env, this, st), LAMBDA s, p :
             Then(Fetch(s, env, p), LAMBDA t, old :
               Then(Ev(e[4], env, this, t), LAMBDA u, v :
                 Store(u, env, p, Operate(e[2], u.heap, u.cells, old, v)))))
      [] e[1] = "inc" ->
           Then(Ev(<<"place", e[4]>>, env, this, st), LAMBDA s, p :
             Then(Fetch(s, env, p), LAMBDA t, old :
               LET n == ToNumber(old)
                   new == Operate(IF e[2] = "INC" THEN "ADD" ELSE "SUB", t.heap, t.cells,
                                  n, Num(1))
               IN Result(Store(t, env, p, new).st, IF e[3] = 1 THEN n ELSE new)))
      [] e[1] = "bin" ->
           Then(Ev(<<"list", <<e[3], e[4]>> >>, env, this, st), LAMBDA s, v :
             Result(s, Operate(e[2], s.heap, s.cells, v[1], v[2])))
      [] e[1] = "un" ->
           Then(Ev(e[3], env, this, st), LAMBDA s, v :
             Result(s, IF e[2] = "TYPEOF" THEN Str(TypeStr(s.heap, v)) ELSE Unary(e[2], v)))
      [] e[1] = "comma" -> Then(Ev(e[2], env, this, st), LAMBDA s, v : Ev(e[3], env, this, s))
      [] e[1] \in {"and", "or"} ->
           Then(Ev(e[2], env, this, st), LAMBDA s, v :
             IF IsTrue(v) = (e[1] = "and") THEN Ev(e[3], env, this, s) ELSE Result(s, v))
      [] e[1] = "cond" ->
           Then(Ev(e[2], env, this, st), LAMBDA s, v :
             Ev(IF IsTrue(v) THEN e[3] ELSE e[4], env, this, s))
      [] e[1] = "object" ->
           Then(Ev(<<"list", e[3]>>, env, this, st), LAMBDA s, v : WithObject(s, e[2], v))
      [] e[1] = "new" ->
           Then(Ev(<<"list", <<e[2]>> \o e[3]>>, env, this, st), LAMBDA s, v :
             Ev(<<"apply", Head(v), Tail(v), TRUE>>, env, this, s))
      [] e[1] = "call" /\ e[2][1] # "get" ->
           Then(Ev(<<"list", <<e[2]>> \o e[3]>>, env, this, st), LAMBDA s, v :
             Ev(<<"apply", Head(v), Tail(v), FALSE>>, env, Ref(Global), s))
      [] e[1] = "call" /\ e[2][1] = "get" ->
           Then(Ev(<<"place", e[2]>>, env, this, st), LAMBDA s, p :
             LET w == ToObject(s, p[2])
             IN Then(Fetch(w.st, env, p), LAMBDA t, f :
                  Then(Ev(<<"list", e[3]>>, env, this, t), LAMBDA u, v :
                    Ev(<<"apply", f, v, FALSE>>, env, w.v, u))))
      [] e[1] = "apply" ->
           IF ~ IsFunction(st.heap, e[2]) THEN Raise(st)
           ELSE LET fn == st.heap[e[2].obj].fn
                    t == IF e[4] THEN NewThis(st, e[2].obj) ELSE Result(st, this)
                    sc == CallScope(t.st, fn, e[3])
                    r == Ev(<<"run", fn.body>>, st.heap[e[2].obj].scope \o <<sc.o>>, t.v, sc.st)
                IN IF fn.native = "fail" THEN Raise(st)
                   ELSE IF fn.native = "puts"
                        THEN Result([t.st EXCEPT !.trace = @ \o e[3]], Undef)
                        ELSE Result([r.st EXCEPT !.done = FALSE],
                                    IF e[4] /\ r.v.vt # "object" THEN t.v ELSE r.v)
      [] e[1] = "run" ->
           IF e[2] = <<>> THEN Result(st, Undef)
           ELSE LET r == Ev(Head(e[2]), env, this, st)
                IN IF r.st.exc \/ r.st.done THEN r
                   ELSE Ev(<<"run", Tail(e[2])>>, env, this, r.st)
      [] e[1] = "expr" -> Ev(e[2], env, this, st)
      [] e[1] = "return" ->
           Then(Ev(e[2], env, this, st), LAMBDA s, v : Result([s EXCEPT !.done = TRUE], v))
      [] e[1] = "throw" -> Then(Ev(e[2], env, this, st), LAMBDA s, v : Raise(s))
      [] e[1] = "delete" ->
           Then(Ev(<<"place", e[2]>>, env, this, st), LAMBDA s, p : Emptied(s, env, p))
      [] e[1] = "try" ->
           LET b == Ev(<<"run", e[2]>>, env, this, st)
           IN IF b.st.exc THEN Ev(<<"run", e[3]>>, env, this, [b.st EXCEPT !.exc = FALSE])
              ELSE b

Run(ss, st) == Ev(<<"run", ss>>, <<Global>>, Ref(Global), st).st

-----------------------------------------------------------------------------
(* The interpreter. *)

Frame(ops, scopes, this, sp, isNew) ==
    [ops |-> ops, ip |-> 1, scopes |-> scopes, this |-> this, tries |-> <<>>,
     sp |-> sp, isNew |-> isNew]

Started == Run(Prelude, FirstStore)

Init ==
    /\ program \in Programs
    /\ frames = <<Frame(Statements(program), <<Global>>, Ref(Global), 0, FALSE)>>
    /\ stack = <<>>
    /\ reached = Reached
    /\ obj_this = <<>>
    /\ heap = Started.heap
    /\ cells = Started.cells
    /\ trace = <<>>
    /\ outcome = "running"
    /\ surprises = {}

This == Last(frames)
Ended == This.ip > Len(This.ops)
Arg == This.ops[This.ip].arg
At(ops) == outcome = "running" /\ ~ Ended /\ This.ops[This.ip].op \in ops

Memory == [heap |-> heap, cells |-> cells]
SetStore(st) == heap' = st.heap /\ cells' = st.cells

Goto(n) == frames' = [frames EXCEPT ![Len(frames)].ip = n]
Continue == Goto(This.ip + 1)

Popped(s, n) == SubSeq(s, 1, Len(s) - n)
Top == Last(stack)
Toq == stack[Len(stack) - 1]

\* Push: the place above the new top is allocated too.
Push(s) ==
    /\ stack' = s
    /\ reached' = IF Len(s) + 1 > reached THEN Len(s) + 1 ELSE reached

\* VarDeref of one element, and of the last n; what was read late was changed since
\* it was pushed.
Value(v) == IF v.vt = "variable" THEN cells[v.lval] ELSE v
VarDeref(n) == [i \in DOMAIN stack |->
                  IF i > Len(stack) - n THEN Value(stack[i]) ELSE stack[i]]
Late(places) ==
    IF \E i \in places : stack[i].vt = "variable" /\ Value(stack[i]) # stack[i].was
    THEN {"late"} ELSE {}
LateOf(n) == Late(Len(stack) - n + 1 .. Len(stack))

\* A cell that is no property of any object: what is stored there is lost.
Detached(c) ==
    IF \E o \in DOMAIN heap : c \in Range(heap[o].props) THEN {} ELSE {"detached"}

Surprise(s) == surprises' = surprises \cup s

Quiet == UNCHANGED <<program, trace, outcome>>
Pure == UNCHANGED <<obj_this, heap, cells, surprises>>

-----------------------------------------------------------------------------
(* One action per opcode. *)

PushLiteral ==
    /\ At({"PUSHNUM", "PUSHSTR", "PUSHUND"})
    /\ LET op == This.ops[This.ip].op
       IN Push(Append(stack, CASE op = "PUSHNUM" -> Num(Arg)
                               [] op = "PUSHSTR" -> Str(Arg)
                               [] op = "PUSHUND" -> Undef))
    /\ Continue /\ Quiet /\ Pure

PushVar ==
    /\ At({"PUSHVAR"})
    /\ LET st == WithVar(Memory, This.scopes, Arg)
           c == CellOf(st, This.scopes, Arg)
       IN /\ Push(Append(stack, Variable(c, st.cells[c])))
          /\ SetStore(st)
    /\ Continue /\ Quiet /\ UNCHANGED <<obj_this, surprises>>

PushFun ==
    /\ At({"PUSHFUN"})
    /\ LET r == WithFunction(Memory, Arg, This.scopes)
       IN Push(Append(stack, r.v)) /\ SetStore(r.st)
    /\ Continue /\ Quiet /\ UNCHANGED <<obj_this, surprises>>

PushThs ==
    /\ At({"PUSHTHS"})
    /\ Push(Append(stack, This.this))
    /\ Continue /\ Quiet /\ Pure

PushTop ==
    /\ At({"PUSHTOP"})
    /\ Push(Append(stack, Top))
    /\ Continue /\ Quiet /\ Pure

\* Copies to the place above the stack, and to the one above it, which need not exist.
PushTop2 ==
    /\ At({"PUSHTOP2"})
    /\ IF Len(stack) + 2 > reached
       THEN /\ outcome' = "crashed"
            /\ Surprise({"noplace"})
            /\ UNCHANGED <<frames, stack, reached>>
       ELSE /\ Push(stack \o <<Toq, Top>>)
            /\ Continue
            /\ UNCHANGED <<outcome, surprises>>
    /\ UNCHANGED <<program, trace, obj_this, heap, cells>>

\* The object below the key is kept for the call of its method.
ChThis ==
    /\ At({"CHTHIS"})
    /\ IF Arg = 0 THEN UNCHANGED <<obj_this, heap, cells, surprises>>
       ELSE LET at == Len(stack) - 1
                w == ToObject(Memory, Value(Toq))
            IN /\ obj_this' = (at :> w.v) @@ obj_this
               /\ SetStore(w.st)
               /\ Surprise(Late({at}))
    /\ Continue /\ Quiet /\ UNCHANGED <<stack, reached>>

\* For a value (argument 1) or for the cell of the property; the cell of a property
\* that the object itself has not is not the one that it is given.
Subscript ==
    /\ At({"SUBSCRIPT"})
    /\ LET w == ToObject(Memory, Value(Toq))
           o == w.v.obj
           key == ToText(Value(Top))
           v == Property(w.st, o, key)
           own == key \in DOMAIN w.st.heap[o].props
           c == w.st.heap[o].props[key]
           made == KeyAssign(w.st, o, key, v)
           loose == [made EXCEPT !.cells = Append(@, v)]
           put(x) == stack' = Append(Popped(stack, 2), x)
       IN CASE Arg = 1 -> put(v) /\ SetStore(w.st)
            [] Arg = 0 /\ own -> put(Variable(c, v)) /\ SetStore(w.st)
            [] Arg = 0 /\ ~ own -> put(Variable(Len(loose.cells), v)) /\ SetStore(loose)
    /\ Surprise(LateOf(2))
    /\ Continue /\ Quiet /\ UNCHANGED <<reached, obj_this>>

Binary ==
    /\ At({"ADD", "SUB", "MUL", "LESS", "GREATER", "LESSEQU", "GREATEREQU", "EQUAL",
           "NOTEQUAL", "STRICTEQU", "STRICTNEQ", "INSTANCEOF"})
    /\ stack' = Append(Popped(stack, 2),
                       Operate(This.ops[This.ip].op, heap, cells, Value(Toq), Value(Top)))
    /\ Surprise(LateOf(2))
    /\ Continue /\ Quiet /\ UNCHANGED <<reached, obj_this, heap, cells>>

UnaryOp ==
    /\ At({"NEG", "POS", "NOT", "TYPEOF"})
    /\ LET op == This.ops[This.ip].op
       IN stack' = Append(Popped(stack, 1),
                          IF op = "TYPEOF" THEN Str(TypeStr(heap, Value(Top)))
                          ELSE Unary(op, Value(Top)))
    /\ Surprise(LateOf(1))
    /\ Continue /\ Quiet /\ UNCHANGED <<reached, obj_this, heap, cells>>

\* The cell is changed first; the old value is computed back from the new one.
IncDec ==
    /\ At({"INC", "DEC"})
    /\ IF Top.vt # "variable" THEN UNCHANGED <<stack, cells, surprises>>
       ELSE LET by == Num(IF This.ops[This.ip].op = "INC" THEN 1 ELSE -1)
                new == Operate("ADD", heap, cells, ToNumber(Value(Top)), by)
            IN /\ cells' = [cells EXCEPT ![Top.lval] = new]
               /\ stack' = Append(Popped(stack, 1),
                                  IF Arg = 1 THEN Operate("SUB", heap, cells, new, by)
                                  ELSE new)
               /\ Surprise(Detached(Top.lval))
    /\ Continue /\ Quiet /\ UNCHANGED <<reached, obj_this, heap>>

\* The result of an assignment to a variable is the variable.
Assign ==
    /\ At({"ASSIGN"})
    /\ LET v == Value(Top)
           o == Value(stack[Len(stack) - 2])
       IN CASE Arg = 1 /\ Toq.vt = "variable" ->
                 /\ cells' = [cells EXCEPT ![Toq.lval] = v]
                 /\ stack' = Append(Popped(stack, 2), Variable(Toq.lval, v))
                 /\ Surprise(LateOf(1) \cup Detached(Toq.lval))
                 /\ UNCHANGED heap
            [] Arg = 1 /\ Toq.vt # "variable" ->
                 /\ stack' = Popped(stack, 1)
                 /\ Surprise(LateOf(1))
                 /\ UNCHANGED <<heap, cells>>
            [] Arg = 2 ->
                 /\ SetStore(IF o.vt = "object"
                             THEN KeyAssign(Memory, o.obj, ToText(Value(Toq)), v) ELSE Memory)
                 /\ stack' = Append(Popped(stack, 3), v)
                 /\ Surprise(LateOf(3))
    /\ Continue /\ Quiet /\ UNCHANGED <<reached, obj_this>>

Object ==
    /\ At({"OBJECT"})
    /\ LET items == SubSeq(VarDeref(2 * Arg), Len(stack) - 2 * Arg + 1, Len(stack))
           r == WithObject(Memory, [i \in 1..Arg |-> items[2 * i - 1].str],
                           [i \in 1..Arg |-> items[2 * i]])
       IN stack' = Append(Popped(stack, 2 * Arg), r.v) /\ SetStore(r.st)
    /\ Surprise(LateOf(2 * Arg))
    /\ Continue /\ Quiet /\ UNCHANGED <<reached, obj_this>>

Pop ==
    /\ At({"POP"})
    /\ stack' = Popped(stack, Arg)
    /\ Continue /\ Quiet /\ Pure /\ UNCHANGED reached

CondJump ==
    /\ At({"JFALSE", "JFALSE_NP", "JTRUE_NP"})
    /\ LET op == This.ops[This.ip].op
           jumps == IsTrue(Value(Top)) = (op = "JTRUE_NP")
       IN /\ stack' = IF op = "JFALSE" THEN Popped(stack, 1) ELSE VarDeref(1)
          /\ Goto(IF jumps THEN This.ip + Arg ELSE This.ip + 1)
    /\ Surprise(LateOf(1))
    /\ Quiet /\ UNCHANGED <<reached, obj_this, heap, cells>>

Jmp ==
    /\ At({"JMP"})
    /\ Goto(This.ip + Arg)
    /\ Quiet /\ Pure /\ UNCHANGED <<stack, reached>>

\* A variable is not removed, but has no value any longer.
Delete ==
    /\ At({"DELETE"})
    /\ stack' = Popped(stack, Arg)
    /\ CASE Arg = 1 /\ Top.vt = "variable" ->
              /\ cells' = [cells EXCEPT ![Top.lval] = Undef]
              /\ UNCHANGED <<heap, surprises>>
         [] Arg = 1 /\ Top.vt # "variable" -> UNCHANGED <<heap, cells, surprises>>
         [] Arg = 2 ->
              /\ SetStore(IF Value(Toq).vt = "object"
                          THEN Deleted(Memory, Value(Toq).obj, ToText(Value(Top)))
                          ELSE Memory)
              /\ Surprise(LateOf(2))
    /\ Continue /\ Quiet /\ UNCHANGED <<reached, obj_this>>

-----------------------------------------------------------------------------
(* Calls and exceptions. *)

\* An error is caught in the innermost activation that is in a try block: those above
\* it end, and its stack gets the size that it had.
Raised(frs, s) ==
    LET d == SelectLastInSeq(frs, LAMBDA f : f.tries # <<>>)
    IN IF d = 0
       THEN outcome' = "threw" /\ frames' = frs /\ stack' = s
       ELSE LET t == Head(frs[d].tries)
            IN /\ frames' = Append(SubSeq(frs, 1, d - 1),
                                   [frs[d] EXCEPT !.ip = t.handler, !.tries = Tail(@)])
               /\ stack' = SubSeq(s, 1, t.sp)
               /\ UNCHANGED outcome

\* The place of the function, what it is, and the arguments.
Place == Len(stack) - Arg.argc
Callee == Value(stack[Place])
Arguments == SubSeq(VarDeref(Arg.argc), Place + 1, Len(stack))

\* What Obj_this holds at this place is the object of the call, whoever left it there.
ThisOfCall == IF Place \in DOMAIN obj_this THEN obj_this[Place] ELSE Ref(Global)
ThisTaken == obj_this' = Restrict(obj_this, DOMAIN obj_this \ {Place})
Stale ==
    IF At({"FCALL"}) /\ ~ Arg.method /\ Place \in DOMAIN obj_this THEN {"stale"} ELSE {}
IsNew == At({"NEWFCALL"})

CallFails ==
    /\ At({"FCALL", "NEWFCALL"})
    /\ IsFunction(heap, Callee) => heap[Callee.obj].fn.native = "fail"
    /\ Raised(frames, Append(Popped(stack, Arg.argc + 1), Undef))
    /\ IF IsFunction(heap, Callee) THEN ThisTaken ELSE UNCHANGED obj_this
    /\ Surprise(LateOf(Arg.argc + 1))
    /\ UNCHANGED <<program, reached, heap, cells, trace>>

CallPuts ==
    /\ At({"FCALL"})
    /\ IsFunction(heap, Callee)
    /\ heap[Callee.obj].fn.native = "puts"
    /\ trace' = trace \o Arguments
    /\ stack' = Append(Popped(stack, Arg.argc + 1), Undef)
    /\ ThisTaken
    /\ Surprise(LateOf(Arg.argc + 1) \cup Stale)
    /\ Continue
    /\ UNCHANGED <<program, reached, heap, cells, outcome>>

CallFunction ==
    /\ At({"FCALL", "NEWFCALL"})
    /\ IsFunction(heap, Callee)
    /\ heap[Callee.obj].fn.native = ""
    /\ LET f == heap[Callee.obj]
           t == IF IsNew THEN NewThis(Memory, Callee.obj) ELSE Result(Memory, ThisOfCall)
           sc == CallScope(t.st, f.fn, Arguments)
       IN /\ frames' = Append(frames, Frame(Statements(f.fn.body), f.scope \o <<sc.o>>,
                                            t.v, Place, IsNew))
          /\ SetStore(sc.st)
    /\ stack' = Popped(stack, Arg.argc)
    /\ ThisTaken
    /\ Surprise(LateOf(Arg.argc + 1) \cup Stale)
    /\ UNCHANGED <<program, reached, trace, outcome>>

\* The activation ends, with the value of return or without one; the caller goes on.
Returned(v) ==
    LET res == IF This.isNew /\ v.vt # "object" THEN This.this ELSE v
        n == Len(frames) - 1
    IN IF n = 0
       THEN outcome' = "done" /\ stack' = SubSeq(stack, 1, 0) /\ UNCHANGED frames
       ELSE /\ stack' = Append(SubSeq(stack, 1, This.sp - 1), res)
            /\ frames' = [Popped(frames, 1) EXCEPT ![n].ip = @ + 1]
            /\ UNCHANGED outcome

Ret ==
    /\ At({"RET"})
    /\ Returned(Value(Top))
    /\ Surprise(LateOf(1))
    /\ UNCHANGED <<program, reached, obj_this, heap, cells, trace>>

Finish ==
    /\ outcome = "running" /\ Ended
    /\ Returned(Undef)
    /\ UNCHANGED <<program, reached, obj_this, heap, cells, trace, surprises>>

STry ==
    /\ At({"STRY"})
    /\ frames' = [frames EXCEPT ![Len(frames)] =
                    [@ EXCEPT !.ip = @ + 1,
                              !.tries = <<[handler |-> This.ip + Arg, sp |-> Len(stack)]>>
                                          \o @]]
    /\ Quiet /\ Pure /\ UNCHANGED <<stack, reached>>

ETry ==
    /\ At({"ETRY"})
    /\ frames' = [frames EXCEPT ![Len(frames)] =
                    [@ EXCEPT !.ip = @ + Arg, !.tries = Tail(@)]]
    /\ Quiet /\ Pure /\ UNCHANGED <<stack, reached>>

Throw ==
    /\ At({"THROW"})
    /\ Raised(frames, VarDeref(1))
    /\ Surprise(LateOf(1))
    /\ UNCHANGED <<program, reached, obj_this, heap, cells, trace>>

Next ==
    \/ PushLiteral \/ PushVar \/ PushFun \/ PushThs \/ PushTop \/ PushTop2
    \/ ChThis \/ Subscript \/ Binary \/ UnaryOp \/ IncDec \/ Assign \/ Object
    \/ Pop \/ CondJump \/ Jmp \/ Delete
    \/ CallFails \/ CallPuts \/ CallFunction \/ Ret \/ Finish
    \/ STry \/ ETry \/ Throw

Spec == Init /\ [][Next]_vars

-----------------------------------------------------------------------------
\* A program reports what its text says, and ends as the text says, unless a variable
\* was changed between the place where it is written and the opcode that reads it, an
\* object of an earlier call was taken for this, a property was stored where no object
\* has it, or the stack had no place.  The stack, too, ends as it began.
Expected == Run(program, Started)

ExprsAsWritten ==
    /\ outcome \in {"done", "threw"} /\ surprises = {} =>
         /\ trace = Expected.trace
         /\ (outcome = "threw") = Expected.exc
    /\ outcome = "crashed" => surprises # {}
    /\ outcome = "running" /\ Len(frames) = 1 /\ Ended => stack = <<>>

\* Types: references point to cells, and what is kept for calls is at places that exist.
TypeOK ==
    /\ program \in Programs
    /\ \A i \in DOMAIN stack : stack[i].vt = "variable" => stack[i].lval \in DOMAIN cells
    /\ DOMAIN obj_this \subseteq 1..reached
    /\ outcome \in {"running", "done", "threw", "crashed"}
    /\ surprises \subseteq {"late", "stale", "detached", "noplace"}
=============================================================================
