------------------------------- MODULE EvalCode -------------------------------
(***************************************************************************)
(* Statements compiled to opcodes (parser.y, jsiCode.c) and the loop that  *)
(* runs the opcodes of one function (_jsi_evalcode, jsiEval.c).            *)
(*                                                                         *)
(* The parser joins the codes of the parts of a statement and computes     *)
(* relative jumps from their lengths.  A break or a continue is compiled   *)
(* to OP_RESERVED and replaced when the loop or switch around it is        *)
(* complete; it counts on its way outwards the stack elements that the     *)
(* for-in loops and switches it leaves have pushed (topop).  At run time a *)
(* list (trylist) holds the try and with statements being executed: a      *)
(* throw and a jump walk it to find the catch or finally block to run and  *)
(* the scope to restore.                                                   *)
(*                                                                         *)
(* A statement is a tuple whose first element is its kind.  Expressions    *)
(* are abstracted to what control sees: a truth value, decided when it is  *)
(* tested and recorded in decisions, a call that reports where it was made *)
(* and which scope it saw, a call that fails.                              *)
(***************************************************************************)
EXTENDS Integers, Sequences, SequencesExt

CONSTANTS
    Programs,    \* the statements that are compiled and run
    MaxTrue      \* how many tests may succeed in a run: bounds the loops

VARIABLES
    program,     \* the statement that was compiled
    opcodes,     \* its opcodes
    ip,          \* the index of the next opcode
    stack,       \* the elements of the stack of values, oldest first
    trylist,     \* the try and with statements in execution, innermost first
    scope,       \* the objects in scope that this code has put there
    last_exception, \* ps->last_exception
    decisions,   \* the results of the tests made so far
    trace,       \* the reports made so far
    outcome,     \* "running", or how the code ended
    warned       \* an unsupported statement was run, and logged

vars == <<program, opcodes, ip, stack, trylist, scope, last_exception,
          decisions, trace, outcome, warned>>

Undef == "undefined"
Message == "message"    \* the text that Jsi_LogError leaves in errMsgBuf

-----------------------------------------------------------------------------
(* The compiler. *)

Op(op, n) == <<[op |-> op, n |-> n]>>

Reserved(type, label) ==
    <<[op |-> "RESERVED", type |-> type, label |-> label, topop |-> 0]>>

\* The jump that replaces a reserved opcode.
JumpOver(n, topop) ==
    IF topop > 0 THEN [op |-> "JMPPOP", n |-> n, topop |-> topop]
    ELSE [op |-> "JMP", n |-> n]

\* Faulty: the continue that leaves a switch forgets the value on the stack.
ForgetsPop(ops, step, breakOnly, label, topop) ==
    [i \in DOMAIN ops |->
        LET r == ops[i]
            rest == Len(ops) - i + 1
        IN CASE r.op # "RESERVED" -> r
             [] r.op = "RESERVED" /\ r.label # "" /\ r.label # label ->
                  [r EXCEPT !.topop = @ + topop]
             [] r.op = "RESERVED" /\ r.label \in {"", label}
                /\ r.type = "continue" /\ breakOnly -> r
             [] OTHER -> JumpOver(IF r.type = "break" THEN step + rest ELSE rest,
                                  r.topop)]

\* code_reserved_replace
ReservedReplace(ops, step, breakOnly, label, topop) ==
    [i \in DOMAIN ops |->
        LET r == ops[i]
            rest == Len(ops) - i + 1
        IN CASE r.op # "RESERVED" -> r
             [] r.op = "RESERVED"
                /\ \/ r.label # "" /\ r.label # label
                   \/ r.type = "continue" /\ breakOnly ->
                  [r EXCEPT !.topop = @ + topop]
             [] OTHER -> JumpOver(IF r.type = "break" THEN step + rest ELSE rest,
                                  r.topop)]

\* A test: an expression whose value is decided when it is evaluated.
Test == Op("TEST", 0)

WhileCode(label, body) ==
    LET stat == ReservedReplace(body, 1, FALSE, label, 0)
    IN Test \o Op("JFALSE", Len(stat) + 2) \o stat
            \o Op("JMP", -(Len(stat) + Len(Test) + 1))

DoCode(label, body) ==
    LET stat == ReservedReplace(body, Len(Test) + 1, FALSE, label, 0)
    IN stat \o Test \o Op("JTRUE", -(Len(stat) + Len(Test)))

ForCode(label, step, body) ==
    LET stat == ReservedReplace(body, Len(step) + 1, FALSE, label, 0)
    IN Test \o Op("JFALSE", Len(step) + Len(stat) + 2) \o stat \o step
            \o Op("JMP", -(Len(Test) + Len(step) + Len(stat) + 1))

ForInCode(label, body) ==
    LET stat == ReservedReplace(body, 1, FALSE, label, 2)
        cond == Op("PUSH", "lval") \o Op("NEXT", 0) \o Op("JFALSE", Len(body) + 2)
    IN Op("PUSH", "object") \o Op("KEY", 0) \o cond \o stat
            \o Op("JMP", -(Len(cond) + Len(body))) \o Op("POP", 2)

\* A switch of two cases and a default, in this order.
SwitchCode(label, first, second, default) ==
    LET stats == ReservedReplace(first \o second \o default, 0, TRUE, label, 1)
        jmp   == Op("JMP", Len(stats) + 1)
        to3   == Op("JMP", Len(jmp) + Len(first) + Len(second) + 1) \o jmp
        to2   == Test \o Op("JTRUE", Len(to3) + Len(first) + 1) \o to3
        to1   == Test \o Op("JTRUE", Len(to2) + 1) \o to2
    IN Op("PUSH", "value") \o to1 \o stats \o Op("POP", 1)

IfCode(body, other) ==
    LET block == body \o Op("JMP", Len(other) + 1)
    IN Test \o Op("JFALSE", Len(block) + 1) \o block \o other

WithCode(body) ==
    Op("PUSH", "object") \o Op("WITH", Len(body) + 1) \o body \o Op("EWITH", 0)

TryCode(body, hasCatch, catch, final) ==
    LET tryblock     == body \o Op("ETRY", 0)
        catchblock   == Op("SCATCH", hasCatch) \o catch \o Op("ECATCH", 0)
        finallyblock == Op("SFINAL", 0) \o final \o Op("EFINAL", 0)
    IN <<[op |-> "STRY", trylen |-> Len(tryblock), catchlen |-> Len(catchblock),
          finallen |-> Len(finallyblock)]>>
          \o tryblock \o catchblock \o finallyblock

RECURSIVE Code(_)
Code(s) ==
    CASE s[1] = "say"      -> Op("SAY", s[2])
      [] s[1] = "fail"     -> Op("FAIL", 0)
      [] s[1] = "throw"    -> Op("PUSH", s[2]) \o Op("THROW", 0)
      [] s[1] = "return"   -> Op("RET", 0)
      [] s[1] = "break"    -> Reserved("break", s[2])
      [] s[1] = "continue" -> Reserved("continue", s[2])
      [] s[1] = "block"    -> FlattenSeq([i \in DOMAIN s[2] |-> Code(s[2][i])])
      [] s[1] = "if"       -> IfCode(Code(s[2]), Code(s[3]))
      [] s[1] = "while"    -> WhileCode(s[2], Code(s[3]))
      [] s[1] = "do"       -> DoCode(s[2], Code(s[3]))
      [] s[1] = "for"      -> ForCode(s[2], Code(s[3]), Code(s[4]))
      [] s[1] = "forin"    -> ForInCode(s[2], Code(s[3]))
      [] s[1] = "switch"   -> SwitchCode(s[2], Code(s[3]), Code(s[4]), Code(s[5]))
      [] s[1] = "with"     -> WithCode(Code(s[2]))
      \* try with a catch block, with a finally block, with both
      [] s[1] = "catch"    -> TryCode(Code(s[2]), TRUE, Code(s[3]), <<>>)
      [] s[1] = "finally"  -> TryCode(Code(s[2]), FALSE, <<>>, Code(s[3]))
      [] s[1] = "try"      -> TryCode(Code(s[2]), TRUE, Code(s[3]), Code(s[4]))

-----------------------------------------------------------------------------
(* The interpreter. *)

Init ==
    /\ program \in Programs
    /\ opcodes = Code(program)
    /\ ip = 1
    /\ stack = <<>>
    /\ trylist = <<>>
    /\ scope = <<>>
    /\ last_exception = Undef
    /\ decisions = <<>>
    /\ trace = <<>>
    /\ outcome = "running"
    /\ warned = FALSE

\* The opcode at ip is one of ops.
At(ops) ==
    /\ outcome = "running"
    /\ ip <= Len(opcodes)
    /\ opcodes[ip].op \in ops

Arg == opcodes[ip].n
Top == Last(stack)
Popped(s, n) == SubSeq(s, 1, Len(s) - n)

\* The stack with n elements: a throw sets it to the size it had when the try
\* statement began, whether it has grown or shrunk since.
Resized(s, n) == [i \in 1..n |-> IF i <= Len(s) THEN s[i] ELSE Undef]

InTry(t, at)     == at \in t.tstart .. t.tend - 1
InCatch(t, at)   == at \in t.cstart .. t.cend - 1
InFinally(t, at) == at \in t.fstart .. t.fend - 1

\* The state of the walks along the trylist, and where they go.
Place(at, list, stk, scp) == [ip |-> at, trylist |-> list, stack |-> stk, scope |-> scp]

Goto(p) ==
    /\ ip' = p.ip
    /\ trylist' = p.trylist
    /\ stack' = p.stack
    /\ scope' = p.scope

Continue == ip' = ip + 1

-----------------------------------------------------------------------------
(* Throwing: _do_throw *)

Uncaught == 0

RECURSIVE Thrown(_)
Thrown(p) ==
    IF p.trylist = <<>> THEN [p EXCEPT !.ip = Uncaught]
    ELSE LET t == Head(p.trylist)
             out == [p EXCEPT !.trylist = Tail(@)]
             cut == Resized(p.stack, t.tsp)
         IN CASE t.type = "with" -> Thrown([out EXCEPT !.scope = t.scope])
              [] t.type = "try" /\ InTry(t, p.ip) ->
                   [p EXCEPT !.stack = cut, !.ip = t.cstart]
              [] t.type = "try" /\ InCatch(t, p.ip) ->
                   [p EXCEPT !.stack = cut, !.ip = t.fstart,
                             !.trylist[1].last_op = "throw"]
              [] t.type = "try" /\ InFinally(t, p.ip) ->
                   Thrown([out EXCEPT !.stack = cut])

DoThrow(p) ==
    LET to == Thrown(p)
    IN /\ Goto(to)
       /\ outcome' = IF to.ip = Uncaught THEN "threw" ELSE outcome

-----------------------------------------------------------------------------
(* Jumping: OP_JMP, OP_JMPPOP and the end of a finally block.  The target  *)
(* is the opcode before the one that runs next, as in the code.            *)

RECURSIVE Jumped(_, _)
Jumped(p, tojmp) ==
    IF p.trylist = <<>> THEN [p EXCEPT !.ip = tojmp + 1]
    ELSE LET t == Head(p.trylist)
             out == [p EXCEPT !.trylist = Tail(@)]
         IN CASE t.type = "try" /\ tojmp \in t.tstart .. t.fend - 1 ->
                   [p EXCEPT !.ip = tojmp + 1]
              [] t.type = "try" /\ tojmp \notin t.tstart .. t.fend - 1
                 /\ p.ip \in t.tstart .. t.cend - 1 ->
                   [p EXCEPT !.ip = t.fstart, !.trylist[1].last_op = "jmp",
                             !.trylist[1].tojmp = tojmp]
              [] t.type = "try" /\ tojmp \notin t.tstart .. t.fend - 1
                 /\ InFinally(t, p.ip) -> Jumped(out, tojmp)
              [] t.type = "with" /\ tojmp \in t.wstart .. t.wend - 1 ->
                   [p EXCEPT !.ip = tojmp + 1]
              [] t.type = "with" /\ tojmp \notin t.wstart .. t.wend - 1 ->
                   Jumped([out EXCEPT !.scope = t.scope], tojmp)

-----------------------------------------------------------------------------
(* One action per opcode. *)

\* A call that reports its number and the scope it sees.
Say ==
    /\ At({"SAY"})
    /\ trace' = Append(trace, <<Arg, scope>>)
    /\ Continue
    /\ UNCHANGED <<stack, trylist, scope, last_exception, decisions, outcome, warned>>

\* The tests that succeed are bounded.
MayBeTrue == Len(SelectSeq(decisions, LAMBDA d : d)) < MaxTrue

\* An expression whose value the next opcode tests.
Evaluate ==
    /\ At({"TEST"})
    /\ \E d \in IF MayBeTrue THEN BOOLEAN ELSE {FALSE} :
          /\ decisions' = Append(decisions, d)
          /\ stack' = Append(stack, IF d THEN "true" ELSE "false")
    /\ Continue
    /\ UNCHANGED <<trylist, scope, last_exception, trace, outcome, warned>>

Push ==
    /\ At({"PUSH"})
    /\ stack' = Append(stack, Arg)
    /\ Continue
    /\ UNCHANGED <<trylist, scope, last_exception, decisions, trace, outcome, warned>>

Pop ==
    /\ At({"POP"})
    /\ stack' = Popped(stack, Arg)
    /\ Continue
    /\ UNCHANGED <<trylist, scope, last_exception, decisions, trace, outcome, warned>>

\* The keys of the object on top of the stack, above it.
Key ==
    /\ At({"KEY"})
    /\ stack' = Append(stack, "iterator")
    /\ Continue
    /\ UNCHANGED <<trylist, scope, last_exception, decisions, trace, outcome, warned>>

\* The next key of a for-in loop: the variable on top of the stack is replaced
\* by whether there was one.  Below it must be the iterator.
NextKey ==
    /\ At({"NEXT"})
    /\ IF stack[Len(stack) - 1] # "iterator"
       THEN /\ outcome' = "crashed"
            /\ UNCHANGED <<stack, decisions, ip>>
       ELSE /\ \E d \in IF MayBeTrue THEN BOOLEAN ELSE {FALSE} :
                  /\ decisions' = Append(decisions, d)
                  /\ stack' = Append(Popped(stack, 1), IF d THEN "true" ELSE "false")
            /\ Continue
            /\ UNCHANGED outcome
    /\ UNCHANGED <<trylist, scope, last_exception, trace, warned>>

CondJump ==
    /\ At({"JTRUE", "JFALSE"})
    /\ stack' = Popped(stack, 1)
    /\ ip' = IF (opcodes[ip].op = "JTRUE") = (Top = "true") THEN ip + Arg ELSE ip + 1
    /\ UNCHANGED <<trylist, scope, last_exception, decisions, trace, outcome, warned>>

Jmp ==
    /\ At({"JMP", "JMPPOP"})
    /\ LET stk == IF opcodes[ip].op = "JMPPOP" THEN Popped(stack, opcodes[ip].topop)
                  ELSE stack
       IN Goto(Jumped(Place(ip, trylist, stk, scope), ip + Arg - 1))
    /\ UNCHANGED <<last_exception, decisions, trace, outcome, warned>>

Ret ==
    /\ At({"RET"})
    /\ outcome' = "returned"
    /\ warned' = (warned \/ \E i \in DOMAIN trylist : trylist[i].type = "try")
    /\ trylist' = <<>>
    /\ UNCHANGED <<ip, stack, scope, last_exception, decisions, trace>>

STry ==
    /\ At({"STRY"})
    /\ LET o == opcodes[ip]
           tend == ip + o.trylen
           cend == tend + o.catchlen
       IN trylist' = <<[type |-> "try", tstart |-> ip, tend |-> tend,
                        cstart |-> tend + 1, cend |-> cend,
                        fstart |-> cend + 1, fend |-> cend + o.finallen,
                        tsp |-> Len(stack), last_op |-> "noop", tojmp |-> 0,
                        scope |-> scope]>> \o trylist
    /\ Continue
    /\ UNCHANGED <<stack, scope, last_exception, decisions, trace, outcome, warned>>

\* The end of the try block or of the catch block: on to the finally block.
ETryOrECatch ==
    /\ At({"ETRY", "ECATCH"})
    /\ ip' = trylist[1].fstart
    /\ UNCHANGED <<stack, trylist, scope, last_exception, decisions, trace, outcome, warned>>

\* The start of the catch block: the exception is put in a scope of its own.  An
\* exception that was not thrown by a statement is the last error message.
SCatch ==
    /\ At({"SCATCH"}) /\ Arg
    /\ scope' = Append(scope, IF last_exception # Undef THEN last_exception ELSE Message)
    /\ last_exception' = Undef
    /\ Continue
    /\ UNCHANGED <<stack, trylist, decisions, trace, outcome, warned>>

SNoCatch ==
    /\ At({"SCATCH"}) /\ ~Arg
    /\ DoThrow(Place(ip, trylist, stack, scope))
    /\ UNCHANGED <<last_exception, decisions, trace, warned>>

SFinal ==
    /\ At({"SFINAL"})
    /\ scope' = trylist[1].scope
    /\ Continue
    /\ UNCHANGED <<stack, trylist, last_exception, decisions, trace, outcome, warned>>

\* The end of the finally block: what had to be done after it.
EFinal ==
    /\ At({"EFINAL"})
    /\ LET t == Head(trylist)
           out == Place(ip, Tail(trylist), stack, scope)
       IN CASE t.last_op = "throw" -> DoThrow(out)
            [] t.last_op = "jmp"   -> Goto(Jumped(out, t.tojmp)) /\ UNCHANGED outcome
            [] t.last_op = "noop"  -> Goto([out EXCEPT !.ip = ip + 1]) /\ UNCHANGED outcome
    /\ UNCHANGED <<last_exception, decisions, trace, warned>>

Throw ==
    /\ At({"THROW"})
    /\ last_exception' = Top
    /\ DoThrow(Place(ip, trylist, stack, scope))
    /\ UNCHANGED <<decisions, trace, warned>>

\* A call that fails: EvalFunction returns an error, whose text is logged.
Fail ==
    /\ At({"FAIL"})
    /\ DoThrow(Place(ip, trylist, stack, scope))
    /\ UNCHANGED <<last_exception, decisions, trace, warned>>

With ==
    /\ At({"WITH"})
    /\ trylist' = <<[type |-> "with", wstart |-> ip, wend |-> ip + Arg, tsp |-> 0,
                     scope |-> scope]>> \o trylist
    /\ scope' = Append(scope, "with")
    /\ stack' = Popped(stack, 1)
    /\ Continue
    /\ UNCHANGED <<last_exception, decisions, trace, outcome, warned>>

EWith ==
    /\ At({"EWITH"})
    /\ scope' = trylist[1].scope
    /\ trylist' = Tail(trylist)
    /\ Continue
    /\ UNCHANGED <<stack, last_exception, decisions, trace, outcome, warned>>

\* A break or continue that no statement around it has replaced: an error is
\* logged and the next opcode runs.
NotReplaced ==
    /\ At({"RESERVED"})
    /\ warned' = TRUE
    /\ Continue
    /\ UNCHANGED <<stack, trylist, scope, last_exception, decisions, trace, outcome>>

Finish ==
    /\ outcome = "running"
    /\ ip > Len(opcodes)
    /\ outcome' = "finished"
    /\ UNCHANGED <<ip, stack, trylist, scope, last_exception, decisions, trace, warned>>

Next ==
    /\ \/ Say \/ Evaluate \/ Push \/ Pop \/ Key \/ NextKey \/ CondJump \/ Jmp \/ Ret
       \/ STry \/ ETryOrECatch \/ SCatch \/ SNoCatch \/ SFinal \/ EFinal
       \/ Throw \/ Fail \/ With \/ EWith \/ NotReplaced \/ Finish
    /\ UNCHANGED <<program, opcodes>>

Spec == Init /\ [][Next]_vars

-----------------------------------------------------------------------------
(* What the statements mean.  A statement s that runs with the objects sc  *)
(* in scope, when the tests give the results ds, has a completion c; ds    *)
(* are then the results not used, tr the reports and errs says whether     *)
(* something was thrown, a call failed or a jump out of a finally block    *)
(* dropped an exception.  lost says that the code is known not to follow:  *)
(* there is one last_exception, so that an exception is lost when another  *)
(* is raised and caught in a finally block before it is thrown on, and it  *)
(* is taken for the error of a call that fails after it was dropped; and a *)
(* finally block may throw after a jump to a label has shortened the stack. *)

Completion(c, ds, tr, errs) ==
    [c |-> c, ds |-> ds, tr |-> tr, errs |-> errs, lost |-> FALSE]

Normal == <<"normal">>
NoStatement == <<"block", <<>>>>

\* m, then r, which ran with what m left.
Then(m, r) ==
    [r EXCEPT !.tr = m.tr \o @,
              !.errs = m.errs \cup @,
              !.lost = m.lost \/ @ \/ ("dropped" \in m.errs /\ "fail" \in r.errs)]

\* A loop with this label ends at the completion c, goes on after it.
Breaks(c, label)    == c[1] = "break" /\ c[2] \in {"", label}
Continues(c, label) == c = Normal \/ (c[1] = "continue" /\ c[2] \in {"", label})

Broken(m, label) == IF Breaks(m.c, label) THEN [m EXCEPT !.c = Normal] ELSE m

RECURSIVE Meaning(_, _, _), MeaningSeq(_, _, _), Loop(_, _, _, _, _, _)

MeaningSeq(list, sc, ds) ==
    IF list = <<>> THEN Completion(Normal, ds, <<>>, {})
    ELSE LET m == Meaning(Head(list), sc, ds)
         IN IF m.c = Normal THEN Then(m, MeaningSeq(Tail(list), sc, m.ds)) ELSE m

\* A loop before its test, or before its body when first is set.
Loop(label, step, body, sc, ds, first) ==
    IF ~first /\ ~Head(ds) THEN Completion(Normal, Tail(ds), <<>>, {})
    ELSE LET m == Meaning(body, sc, IF first THEN ds ELSE Tail(ds))
             n == Then(m, Meaning(step, sc, m.ds))
         IN IF Continues(m.c, label)
            THEN Then(n, Loop(label, step, body, sc, n.ds, FALSE))
            ELSE Broken(m, label)

\* The catch block of m's exception, and the finally block after m.
Caught(m, catch, sc) ==
    IF m.c[1] = "throw" THEN Then(m, Meaning(catch, Append(sc, m.c[2]), m.ds)) ELSE m

Finally(m, final, sc) ==
    LET r == Meaning(final, sc, m.ds)
        jumps(c) == c[1] \in {"break", "continue"}
        pending == m.c[1] = "throw"
    IN [Then(m, r) EXCEPT
          !.c = IF r.c = Normal THEN m.c ELSE r.c,
          !.errs = @ \cup IF pending /\ jumps(r.c) THEN {"dropped"} ELSE {},
          !.lost = \/ @
                   \/ pending /\ "fail" \in r.errs
                   \/ pending /\ "throw" \in r.errs /\ r.c[1] # "throw"
                   \/ jumps(m.c) /\ m.c[2] # "" /\ r.c[1] = "throw"]

Switch(s, sc, ds) ==
    CASE Head(ds)             -> MeaningSeq(<<s[3], s[4], s[5]>>, sc, Tail(ds))
      [] ~Head(ds) /\ ds[2]   -> MeaningSeq(<<s[4], s[5]>>, sc, Tail(Tail(ds)))
      [] ~Head(ds) /\ ~ds[2]  -> Meaning(s[5], sc, Tail(Tail(ds)))

Meaning(s, sc, ds) ==
    CASE s[1] = "say"     -> Completion(Normal, ds, << <<s[2], sc>> >>, {})
      [] s[1] = "fail"    -> Completion(<<"throw", Message>>, ds, <<>>, {"fail"})
      [] s[1] = "throw"   -> Completion(s, ds, <<>>, {"throw"})
      [] s[1] \in {"break", "continue", "return"} -> Completion(s, ds, <<>>, {})
      [] s[1] = "block"   -> MeaningSeq(s[2], sc, ds)
      [] s[1] = "if"      -> Meaning(IF Head(ds) THEN s[2] ELSE s[3], sc, Tail(ds))
      [] s[1] \in {"while", "forin"} -> Loop(s[2], NoStatement, s[3], sc, ds, FALSE)
      [] s[1] = "do"      -> Loop(s[2], NoStatement, s[3], sc, ds, TRUE)
      [] s[1] = "for"     -> Loop(s[2], s[3], s[4], sc, ds, FALSE)
      [] s[1] = "switch"  -> Broken(Switch(s, sc, ds), s[2])
      [] s[1] = "with"    -> Meaning(s[2], Append(sc, "with"), ds)
      [] s[1] = "catch"   -> Caught(Meaning(s[2], sc, ds), s[3], sc)
      [] s[1] = "finally" -> Finally(Meaning(s[2], sc, ds), s[3], sc)
      [] s[1] = "try"     -> Finally(Caught(Meaning(s[2], sc, ds), s[3], sc), s[4], sc)

Ended(c) == CASE c[1] = "throw"  -> "threw"
              [] c[1] = "return" -> "returned"
              [] OTHER           -> "finished"

(* Whatever way control takes through the compiled code, by jumps out of   *)
(* loops, switches, with, try, catch and finally blocks and by exceptions, *)
(* the calls made, the scopes they see and the way the code ends are those *)
(* of the statements; and code that ends normally leaves the stack, the    *)
(* list of try statements and the scope as it found them.                  *)
RunsAsWritten ==
    outcome # "running" /\ ~warned =>
        LET m == Meaning(program, <<>>, decisions)
        IN m.lost \/ /\ trace = m.tr
                     /\ outcome = Ended(m.c)
                     /\ outcome = "finished" =>
                          stack = <<>> /\ trylist = <<>> /\ scope = <<>>
=============================================================================
