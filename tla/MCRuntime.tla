------------------------------ MODULE MCRuntime ------------------------------
(***************************************************************************)
(* Parts of the interpreter that do not interact are checked in one run,   *)
(* statements, expressions, the trees of properties, arrays, exec(), and   *)
(* libraries, given by the constants: a behaviour is one of one of them,   *)
(* and part says of which.                                                 *)
(*                                                                         *)
(* The programs are statements nested two and three deep around a core: in *)
(* every body the nested statement is followed by a report, so that a jump *)
(* to a wrong place shows, and the other parts of a try statement hold one *)
(* of a few statements of their own.                                       *)
(***************************************************************************)
EXTENDS Extensions, ExecPipeline

VARIABLES part,
          program, opcodes, ip, stack, trylist, scope, last_exception,
          decisions, trace, outcome, warned,
          frames, reached, obj_this, heap, cells, surprises,
          keyType, tree, live, numEntries, dict, search,
          obj, val, iter, js, tainted, odd, crashed, calls

bothVars == <<program, stack, trace, outcome>>
codeVars == <<opcodes, ip, trylist, scope, last_exception, decisions, warned>>
exprVars == <<frames, reached, obj_this, heap, cells, surprises>>
evalVars == <<bothVars, codeVars, exprVars>>
treeVars == <<keyType, tree, live, numEntries, dict, search>>
arrayVars == <<obj, val, iter, js, tainted, odd, crashed, calls>>

-----------------------------------------------------------------------------
Say(n) == <<"say", n>>
ThrowIt == <<"throw", "e2">>
Label(depth) == IF depth = 1 THEN "L1" ELSE "inner"

\* The kinds of statement around another, with the statement x elsewhere in them.
Around(kind, x, depth, inner) ==
    LET body == <<"block", <<inner, Say(10 + depth)>> >>
        l == Label(depth)
        say == Say(20 + depth)
    IN CASE kind = "while"    -> <<"while", l, body>>
         [] kind = "do"       -> <<"do", l, body>>
         [] kind = "for"      -> <<"for", l, say, body>>
         [] kind = "forin"    -> <<"forin", l, body>>
         [] kind = "case"     -> <<"switch", l, body, say, say>>
         [] kind = "default"  -> <<"switch", l, say, say, body>>
         [] kind = "if"       -> <<"if", body, say>>
         [] kind = "with"     -> <<"with", body>>
         [] kind = "guarded"  -> <<"catch", body, say>>
         [] kind = "catch"    -> <<"catch", ThrowIt, body>>
         [] kind = "try"      -> <<"try", body, x, say>>
         [] kind = "tryfinal" -> <<"finally", body, x>>
         [] kind = "trycatch" -> <<"try", ThrowIt, body, x>>
         [] kind = "final"    -> <<"finally", x, body>>
         [] kind = "allfinal" -> <<"try", ThrowIt, x, body>>

Plain == {"while", "do", "for", "forin", "case", "default", "if", "with",
          "guarded", "catch"}
Tries == {"try", "tryfinal", "trycatch", "final", "allfinal"}

Cores == {Say(0), <<"fail">>, <<"throw", "e0">>, <<"return">>,
          <<"break", "">>, <<"continue", "">>, <<"break", "L1">>, <<"continue", "L1">>}

\* Those that leave more than one statement.
FarCores == {<<"fail">>, <<"return">>, <<"break", "L1">>, <<"continue", "L1">>}

\* The kinds, each with a statement x, of programs two and three deep.
Kinds2 == (Plain \X {Say(1)}) \cup (Tries \X {Say(1), <<"throw", "e1">>, <<"break", "">>})
Kinds3 == ({"for", "forin", "case", "with", "catch"} \X {Say(1)})
            \cup ({"try", "tryfinal", "final"} \X {Say(1), <<"throw", "e1">>})

Whole(s) == <<"block", <<s, Say(9)>> >>

AllPrograms ==
    {Whole(Around(a[1], a[2], 1, Around(b[1], b[2], 2, core))) :
        a \in Kinds2, b \in Kinds2, core \in Cores}
    \cup
    {Whole(Around(a[1], a[2], 1, Around(b[1], b[2], 2, Around(c[1], c[2], 3, core)))) :
        a \in Kinds3, b \in Kinds3, c \in Kinds3, core \in FarCores}

\* Expressions: two that change what the other reads, in every form of expression that
\* has two, as the argument of a call; then a call without an object, and two values.
V(x) == <<"var", x>>
N(n) == <<"num", n>>
Key(k) == <<"str", k>>
Member(o, k) == <<"get", V(o), k>>
Of(e, k) == <<"get", e, Key(k)>>
Set(lv, e) == <<"assign", lv, e>>
Add(lv, e) == <<"opassign", "ADD", lv, e>>
Inc(lv) == <<"inc", "INC", 1, lv>>
Call(f, es) == <<"call", f, es>>
New(c, e) == <<"new", V(c), <<e>> >>
Fn(params, locals, body) ==
    <<"fn", [native |-> "", params |-> params, locals |-> locals, body |-> body]>>
Do(e) == <<"expr", e>>
Return(e) == <<"return", e>>
Puts(e) == Do(Call(V("puts"), <<e>>))
ThisX == Of(<<"this">>, "x")

ExprPrelude ==
    << Do(Set(V("a"), N(1))), Do(Set(V("x"), N(7))), Do(Set(V("k"), Key("x"))),
       Do(Set(V("o"), <<"object", <<"x", "m">>,
            <<N(5), Fn(<<"p", "q">>, <<>>, <<Return(<<"bin", "ADD", ThisX, V("p")>>)>>)>> >>)),
       Do(Set(V("f"), Fn(<<>>, <<>>, <<Do(Inc(V("a"))), Return(ThisX)>>))),
       Do(Set(V("C"), Fn(<<"p">>, <<"l">>, <<Do(Set(V("l"), V("p"))), Do(Set(ThisX, V("l")))>>))),
       Do(Set(Of(Of(V("C"), "prototype"), "y"), N(4))) >>

Changes == {Set(V("a"), N(5)), Inc(V("a")), Call(V("f"), <<>>), Set(V("o"), New("C", V("a"))),
            <<"opassign", "SUB", Member("o", Key("x")), V("a")>>, Set(V("k"), Key("z")),
            Call(V("fail"), <<>>), Set(Of(<<"this">>, "a"), N(6))}
Reads == {V("a"), Inc(V("a")), Member("o", V("k")), Call(V("f"), <<>>), <<"undef">>}
Others == {<<"inc", "DEC", 0, V("a")>>, Add(V("a"), N(2)), Call(Of(V("o"), "m"), <<V("a")>>),
           Inc(Member("o", Key("x"))), Of(New("C", N(3)), "y"), Inc(Of(New("C", N(3)), "y")),
           <<"un", "NOT", ThisX>>, <<"un", "TYPEOF", V("nowhere")>>,
           <<"bin", "INSTANCEOF", New("C", N(3)), V("C")>>,
           Call(Fn(<<>>, <<>>, << <<"throw", N(3)>> >>), <<>>)} \cup Changes

Sum(e1, e2) == <<"bin", "ADD", e1, e2>>
Method(e1, e2) == Call(Of(V("o"), "m"), <<e1, e2>>)
Forms(e1, e2) ==
    {<<"bin", op, e1, e2>> : op \in {"LESSEQU", "STRICTEQU"}} \cup
    {Sum(e1, e2), Method(e1, e2),
     <<"and", e1, e2>>, <<"or", e1, e2>>, <<"cond", e1, e2, N(8)>>, <<"comma", e1, e2>>,
     Set(Member("o", e1), e2), Add(Member("o", e1), e2),
     Add(V("a"), <<"bin", "SUB", e1, e2>>), Of(<<"object", <<"x", "y">>, <<e1, e2>> >>, "y"),
     Call(Fn(<<"a", "z">>, <<"w">>, <<Do(Set(V("w"), e2)), Return(Sum(V("a"), V("w")))>>), <<e1>>)}

ExprPrograms ==
    {<< <<"try", <<Puts(w)>>, <<<<"delete", Member("o", Key("x"))>>, Puts(N(0))>> >>,
        Puts(Call(V("f"), <<>>)), Puts(Member("o", Key("x"))), Puts(V("a")) >> :
        w \in UNION {Forms(e1, e2) : e1 \in Reads, e2 \in Changes}
               \cup {Sum(e1, e2) : e1 \in Others, e2 \in Changes}
               \cup {Method(e1, e2) : e1 \in Others, e2 \in Changes}}

KeysOf == [string |-> 7, word |-> 5]

\* The words of exec(): one to three commands, redirections, & at the end; and lines that
\* are illegal or odd.
Shapes == {<<"cmd">>, <<"cmd", "|", "cmd">>, <<"cmd", "|&", "cmd">>,
           <<"cmd", "|", "cmd", "|&", "cmd">>}
Redirections == {<<>>, <<"<f">>, <<"<@c", ">f">>, <<"<<t", "2>@1">>, <<">", "f">>,
                 <<">@c", "2>f">>, <<">&f">>, <<"2>@c">>}
OddLines == {<<>>, <<"|", "cmd">>, <<"cmd", "|">>, <<"cmd", ">">>, <<"&">>,
             <<"cmd", "|x", "cmd">>, <<"cmd", "|", "<f">>, <<"cmd", "|", "<f", "|", "cmd">>}
AllLines == OddLines \cup {s \o r \o b : s \in Shapes, r \in Redirections, b \in {<<>>, <<"&">>}}
\* The program has one descriptor open from 3 on, with a hole before it.
SomeHosts == {{4}}

\* Two files of one library's name, and another.
LibraryNames == [x |-> "X", x2 |-> "X", y |-> "Y"]

-----------------------------------------------------------------------------
E == INSTANCE EvalCode WITH Programs <- AllPrograms, MaxTrue <- 2
Y == INSTANCE EvalExpr WITH Prelude <- ExprPrelude, Programs <- ExprPrograms, Reached <- 4
T == INSTANCE JsiTree WITH MaxKey <- KeysOf
A == INSTANCE JsiArray WITH Names <- {"p", "q"}, Data <- {1, 2},
                            Lists <- {<<>>, <<2>>, <<2, 1>>}, MOD <- 2, MaxLen <- 3,
                            MaxCalls <- 4

NoBoth == program = <<>> /\ stack = <<>> /\ trace = <<>> /\ outcome = "none"

NoCode == /\ opcodes = <<>> /\ ip = 1 /\ trylist = <<>> /\ scope = <<>>
          /\ last_exception = E!Undef /\ decisions = <<>> /\ warned = FALSE

NoExpr == /\ frames = <<>> /\ reached = 0 /\ obj_this = <<>> /\ heap = <<>> /\ cells = <<>>
          /\ surprises = {}

NoEval == NoBoth /\ NoCode /\ NoExpr

NoTree == /\ keyType = "string" /\ tree = <<>> /\ live = {} /\ numEntries = 0
          /\ dict = {} /\ search = T!NoSearch

NoExec == ExecFrom({})

NoArray == A!Init

RuntimeInit ==
    /\ Init
    /\ \/ part = "code" /\ E!Init /\ NoExpr /\ NoTree /\ NoExec /\ NoArray
       \/ part = "expr" /\ Y!Init /\ NoCode /\ NoTree /\ NoExec /\ NoArray
       \/ part = "tree" /\ T!Init /\ NoEval /\ NoExec /\ NoArray
       \/ part = "exec" /\ ExecInit /\ NoEval /\ NoTree /\ NoArray
       \/ part = "array" /\ A!Init /\ NoEval /\ NoTree /\ NoExec
       \/ part = "libraries" /\ NoEval /\ NoTree /\ NoExec /\ NoArray

RuntimeNext ==
    \/ /\ part = "code" /\ E!Next
       /\ UNCHANGED <<part, exprVars, treeVars, execVars, arrayVars, vars>>
    \/ /\ part = "expr" /\ Y!Next
       /\ UNCHANGED <<part, codeVars, treeVars, execVars, arrayVars, vars>>
    \/ part = "tree" /\ T!Next /\ UNCHANGED <<part, evalVars, execVars, arrayVars, vars>>
    \/ part = "exec" /\ ExecNext /\ UNCHANGED <<part, evalVars, treeVars, arrayVars, vars>>
    \/ part = "array" /\ A!Next /\ UNCHANGED <<part, evalVars, treeVars, execVars, vars>>
    \/ part = "libraries" /\ Next /\ UNCHANGED <<part, evalVars, treeVars, execVars, arrayVars>>

allVars == <<part, evalVars, treeVars, execVars, arrayVars, vars>>
RuntimeSpec == RuntimeInit /\ [][RuntimeNext]_allVars

\* The arrays alone.
ArrayInit == part = "array" /\ A!Init /\ NoEval /\ NoTree /\ NoExec /\ Init
ArraySpec == ArrayInit /\ [][RuntimeNext]_allVars

\* The properties of the other parts, under the names they have there.
RunsAsWritten == /\ part = "code" => E!RunsAsWritten
                 /\ part = "expr" => Y!TypeOK /\ Y!ExprsAsWritten
TreeSound == part = "tree" => T!TreeSound /\ T!SearchSound
ArraysSound == part = "array" => A!ArraysAsWritten /\ A!SlotsSound
PushPushes == part = "array" => A!PushPushes
=============================================================================
