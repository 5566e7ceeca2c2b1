------------------------- MODULE InterpQueues_proofs -------------------------
(***************************************************************************)
(* Theorems about InterpQueues, for every number of scripts, evals, calls  *)
(* and messages and every depth of nested callbacks.                       *)
(***************************************************************************)
EXTENDS InterpQueues, SequenceTheorems, FiniteSetTheorems, WellFoundedInduction, TLAPS

USE QueuesAssumption DEF Scripts, Nodes

-----------------------------------------------------------------------------
(* What the operations on the stack of activations do to it.               *)

\* An activation working on a record has one, and runs synchronous evals only; one
\* working on a text runs one of its scripts.
FrameOK(f) ==
  /\ f.pc = "eval" => f.cur \in Scripts
  /\ f.pc \in {"event", "exec", "unlink", "wake"} => f.se \in Nodes
  /\ f.pc \in {"exec", "wake"} => f.se \in Syncs
  /\ f.pc = "unlink" /\ f.ex => f.se \in Syncs

\* frames has the shape TypeOK and FrameOK describe.
FramesOK == /\ frames \in Seq(Frame) /\ Len(frames) <= MaxDepth
            /\ \A d \in 1..Len(frames) : FrameOK(frames[d])

\* The innermost activation is an element of the stack.
LEMMA TopOK ==
  ASSUME FramesOK, frames # <<>>
  PROVE  /\ Len(frames) \in 1..MaxDepth
         /\ Top \in Frame /\ FrameOK(Top)
  BY LenProperties, EmptySeq DEF FramesOK, Top

\* Replacing the innermost activation keeps the others.
LEMMA SetTopStep ==
  ASSUME FramesOK, frames # <<>>, NEW f \in Frame, SetTop(f)
  PROVE  /\ frames' \in Seq(Frame) /\ Len(frames') = Len(frames)
         /\ frames'[Len(frames)] = f
         /\ \A d \in 1..(Len(frames) - 1) : frames'[d] = frames[d]
         /\ FrameOK(f) => FramesOK'
<1>1. Len(frames) \in 1..MaxDepth
  BY TopOK
<1>2. /\ frames' \in Seq(Frame) /\ Len(frames') = Len(frames)
      /\ \A d \in 1..Len(frames) :
           frames'[d] = IF d = Len(frames) THEN f ELSE frames[d]
  BY <1>1, ExceptSeq DEF FramesOK, SetTop
<1> QED
  BY <1>1, <1>2 DEF FramesOK, FrameOK

\* Leaving a callback keeps the activations below it.
LEMMA ReturnStep ==
  ASSUME FramesOK, frames # <<>>, Return
  PROVE  /\ frames' \in Seq(Frame) /\ Len(frames') = Len(frames) - 1
         /\ \A d \in 1..(Len(frames) - 1) : frames'[d] = frames[d]
         /\ FramesOK'
<1>1. Len(frames) \in 1..MaxDepth
  BY TopOK
<1>2. \A i \in 1..(Len(frames) - 1) : frames[i] \in Frame
  BY <1>1, ElementOfSeq DEF FramesOK
<1>3. /\ frames' \in Seq(Frame) /\ Len(frames') = Len(frames) - 1
      /\ \A d \in 1..(Len(frames) - 1) : frames'[d] = frames[d]
  <2> DEFINE m == Len(frames) - 1
  <2>1. m \in Int /\ 1 \in Int /\ \A i \in 1..m : frames[i] \in Frame
    BY <1>1, <1>2
  <2>2. /\ SubSeq(frames, 1, m) \in Seq(Frame)
        /\ Len(SubSeq(frames, 1, m)) = IF 1 <= m THEN m - 1 + 1 ELSE 0
        /\ \A i \in 1..(m - 1 + 1) : SubSeq(frames, 1, m)[i] = frames[1 + i - 1]
    BY <2>1, SubSeqProperties
  <2>3. m \in Nat /\ m - 1 + 1 = m /\ \A i \in 1..m : 1 + i - 1 = i
    BY <1>1
  <2>4. Len(SubSeq(frames, 1, m)) = m
    BY <2>2, <2>3
  <2>5. frames' = SubSeq(frames, 1, m)
    BY DEF Return
  <2> HIDE DEF m
  <2>6. \A d \in 1..m : SubSeq(frames, 1, m)[d] = frames[d]
    BY <2>2, <2>3
  <2>7. frames' \in Seq(Frame) /\ Len(frames') = m /\ \A d \in 1..m : frames'[d] = frames[d]
    BY <2>2, <2>4, <2>5, <2>6
  <2> QED
    BY <2>7 DEF m
<1> QED
  BY <1>1, <1>3 DEF FramesOK, FrameOK

\* Going on with record nxt, or leaving.
LEMMA ContinueStep ==
  ASSUME FramesOK, frames # <<>>, NEW nxt \in Nodes \cup {None}, Continue(nxt)
  PROVE  FramesOK'
<1>1. CASE nxt = None
  BY <1>1, ReturnStep DEF Continue
<1>2. CASE nxt # None
  <2> DEFINE f == [Top EXCEPT !.pc = "event", !.se = nxt, !.nxt = None]
  <2>1. f \in Frame /\ FrameOK(f)
    BY <1>2, TopOK DEF Frame, FrameOK, PCs
  <2> HIDE DEF f
  <2>2. SetTop(f)
    BY <1>2 DEF Continue, f
  <2> QED
    BY <2>1, <2>2, SetTopStep
<1> QED
  BY <1>1, <1>2

\* Moving on to a point of the callback that concerns no record.
LEMMA GoToStep ==
  ASSUME FramesOK, frames # <<>>, NEW pc \in {"msgs", "clear", "events"}, GoTo(pc)
  PROVE  FramesOK'
<1> DEFINE f == [Top EXCEPT !.pc = pc]
<1>1. f \in Frame /\ FrameOK(f)
  BY TopOK DEF Frame, FrameOK, PCs
<1> HIDE DEF f
<1>2. SetTop(f)
  BY DEF GoTo, f
<1> QED
  BY <1>1, <1>2, SetTopStep

-----------------------------------------------------------------------------
(* Type correctness.                                                       *)

\* TypeOK is not inductive: that iret stays a script or a synchronous eval needs
\* FrameOK, which says whose value a callback is about to leave there.
TypeInv == TypeOK /\ FramesOK

\* Every step that leaves the stack alone keeps FramesOK.
LEMMA SameFrames == FramesOK /\ UNCHANGED frames => FramesOK'
  BY DEF FramesOK, FrameOK

LEMMA TypeInit == Init => TypeInv
<1> SUFFICES ASSUME Init PROVE TypeInv
  OBVIOUS
<1>1. FramesOK
  BY EmptySeq DEF Init, FramesOK
<1>2. evalQ \in Seq(Scripts) /\ msgQ \in Seq(Msgs) /\ ran \in Seq(Scripts)
  BY EmptySeq DEF Init
<1>3. parent \in Asking /\ fault \in Faults
  BY DEF Init, Asking, Faults
<1>4. /\ next \in [Nodes -> Nodes \cup {None}]
      /\ heap \in [Nodes -> {"none", "live", "freed"}]
      /\ isExec \in [Syncs -> BOOLEAN]
      /\ result \in [Syncs -> Scripts \cup Syncs \cup {0, Failed, None}]
      /\ execs \in [Syncs -> 0..2]
  BY DEF Init
<1>5. posted \in 0..NumScripts /\ head \in Nodes \cup {None} /\ sent \subseteq Msgs
  BY DEF Init
<1> QED
  BY <1>1, <1>2, <1>3, <1>4, <1>5 DEF Init, TypeInv, TypeOK, FramesOK

\* What the parent's thread is doing determines the kind of its argument.
LEMMA ParentShape ==
  ASSUME NEW p \in Asking
  PROVE  /\ p.st = "posting" /\ p.op = "script" => p.arg \in Scripts
         /\ p.st = "posting" /\ p.op = "sync" =>
              \E s \in Syncs : p = [st |-> "posting", op |-> "sync", arg |-> s]
         /\ p.st = "posting" /\ p.op = "call" => p.arg \in Calls
         /\ p.st = "posting" /\ p.op = "send" => p.arg \in Msgs
         /\ p.st \in {"waiting", "reading"} =>
              \E s \in Syncs : p = [st |-> p.st, op |-> "sync", arg |-> s]
  BY DEF Asking, Idle

LEMMA TypeParent == TypeInv /\ ParentStep => TypeInv'
<1> SUFFICES ASSUME TypeInv, ParentStep PROVE TypeInv'
  OBVIOUS
<1> USE DEF TypeInv, TypeOK, queueVars, msgVars, listVars, recVars, runVars
<1>1. FramesOK'
  <2>1. UNCHANGED frames
    BY DEF ParentStep, ParentFetch, PostScript, PostSync, PostCall, PostSend, Sent,
           PostFails, WaitDone, ReadResult
  <2> QED
    BY <2>1, SameFrames
<1>2. CASE ParentFetch
  <2>1. parent' \in Asking
    BY <1>2 DEF ParentFetch, Requests, Asking
  <2> QED
    BY <1>1, <1>2, <2>1 DEF ParentFetch, vars, askVars, Faults, FramesOK
<1>3. CASE PostScript
  <2>1. parent.arg \in Scripts
    BY <1>3 DEF PostScript, Posting, Asking, Idle
  <2> QED
    BY <1>1, <1>3, <2>1 DEF PostScript, FramesOK, Asking, Idle
<1>4. ASSUME NEW n \in Nodes, NewRecord(n)
      PROVE  /\ heap' \in [Nodes -> {"none", "live", "freed"}]
             /\ head' \in Nodes \cup {None} /\ next' \in [Nodes -> Nodes \cup {None}]
  <2>1. CASE head = None
    BY <1>4, <2>1 DEF NewRecord, LinkLast
  <2>2. CASE head # None
    <3>1. next' = [next EXCEPT ![LastNode] = n] /\ head' = head
      BY <1>4, <2>2 DEF NewRecord, LinkLast
    <3>2. next' \in [Nodes -> Nodes \cup {None}]
      BY <3>1
    <3> QED
      BY <1>4, <3>1, <3>2 DEF NewRecord
  <2> QED
    BY <2>1, <2>2
<1>5. CASE PostSync
  <2>1. PICK s \in Syncs : parent = [st |-> "posting", op |-> "sync", arg |-> s]
    BY <1>5, ParentShape DEF PostSync, Posting
  <2>2. parent' = [st |-> "waiting", op |-> "sync", arg |-> s]
    BY <1>5, <2>1 DEF PostSync
  <2>3. parent' \in Asking
    BY <2>2 DEF Asking
  <2> QED
    BY <1>1, <1>4, <1>5, <2>1, <2>3 DEF PostSync, MarkExec, FramesOK
<1>6. CASE PostCall
  <2>1. parent.arg \in Calls
    BY <1>6 DEF PostCall, Posting, Asking, Idle
  <2> QED
    BY <1>1, <1>4, <1>6, <2>1 DEF PostCall, FramesOK, Asking, Idle
<1>7. CASE PostSend
  <2>1. parent.arg \in Msgs
    BY <1>7 DEF PostSend, Posting, Asking, Idle
  <2> QED
    BY <1>1, <1>7, <2>1 DEF PostSend, Sent, Enqueue, FramesOK, Asking, Idle
<1>8. CASE PostFails
  BY <1>1, <1>8 DEF PostFails, FramesOK, Asking, Idle
<1>9. CASE WaitDone
  <2>1. PICK s \in Syncs : parent = [st |-> "waiting", op |-> "sync", arg |-> s]
    BY <1>9, ParentShape DEF WaitDone
  <2>2. parent' = [st |-> "reading", op |-> "sync", arg |-> s]
    BY <1>9, <2>1 DEF WaitDone
  <2>3. parent' \in Asking
    BY <2>2 DEF Asking
  <2> QED
    BY <1>1, <1>9, <2>1, <2>3 DEF WaitDone, FramesOK
<1>10. CASE ReadResult
  <2>1. parent.arg \in Syncs
    BY <1>10 DEF ReadResult, Asking, Idle
  <2> QED
    BY <1>1, <1>10, <2>1 DEF ReadResult, FramesOK, Asking, Idle
<1> QED
  BY <1>2, <1>3, <1>5, <1>6, <1>7, <1>8, <1>9, <1>10 DEF ParentStep

\* Taking the messages, from either of the two sections that do.
LEMMA TypeTakeMsgs ==
  ASSUME TypeInv, frames # <<>>, TakeMsgs
  PROVE  FramesOK' /\ evalQ' \in Seq(Scripts) /\ fault' \in Faults
<1>1. FramesOK'
  BY GoToStep DEF TypeInv, TakeMsgs
<1>2. <<>> \in Seq(Scripts)
  BY EmptySeq
<1>3. evalQ' = evalQ \/ evalQ' = <<>>
  BY DEF TakeMsgs
<1>4. fault' = fault \/ fault' = "nullRet"
  BY Zenon DEF TakeMsgs
<1> QED
  BY <1>1, <1>2, <1>3, <1>4 DEF TypeInv, TypeOK, Faults

\* Starting the next script of a text.
LEMMA TextStep ==
  ASSUME TypeInv, frames # <<>>, NEW h \in Scripts, NEW t \in Seq(Scripts),
         NEW f, f = [Top EXCEPT !.pc = "eval", !.cur = h, !.buf = t]
  PROVE  /\ f \in Frame /\ FrameOK(f) /\ f.pc = "eval" /\ f.buf = t
         /\ SetTop(f) => FramesOK'
<1>0. Top \in Frame
  BY TopOK DEF TypeInv
<1>1. f \in Frame /\ FrameOK(f) /\ f.pc = "eval" /\ f.buf = t
  <2>1. h \in 0..NumScripts /\ "eval" \in PCs
    BY DEF PCs
  <2>2. f \in Frame
    BY <1>0, <2>1 DEF Frame
  <2>3. f.pc = "eval" /\ f.buf = t
    BY <1>0 DEF Frame
  <2> QED
    BY <2>2, <2>3 DEF FrameOK
<1> QED
  BY <1>1, SetTopStep DEF TypeInv

LEMMA TypeCallback == TypeInv /\ CallbackStep => TypeInv'
<1> SUFFICES ASSUME TypeInv, CallbackStep PROVE TypeInv'
  OBVIOUS
<1> USE DEF TypeInv, TypeOK, queueVars, msgVars, listVars, recVars, runVars, askVars
<1>1. ASSUME NEW pc, At(pc)
      PROVE  frames # <<>> /\ Top \in Frame /\ FrameOK(Top) /\ Top.pc = pc
  BY <1>1, TopOK DEF At
<1>2. CASE TakeEvals
  <2>1. CASE evalQ = <<>> /\ TakeMsgs /\ UNCHANGED runVars
    BY <1>1, <1>2, <2>1, TypeTakeMsgs DEF TakeEvals, FramesOK
  <2>2. CASE evalQ # <<>>
    <3>1. Head(evalQ) \in Scripts /\ Tail(evalQ) \in Seq(Scripts)
      BY <2>2, HeadTailProperties
    <3> DEFINE f == [Top EXCEPT !.pc = "eval", !.cur = Head(evalQ),
                                !.buf = Tail(evalQ)]
    <3>3. SetTop(f) => FramesOK'
      BY <1>1, <1>2, <3>1, TextStep DEF TakeEvals
    <3> HIDE DEF f
    <3>4. GoTo("msgs") => FramesOK'
      BY <1>1, <1>2, GoToStep DEF TakeEvals
    <3>5. Append(ran, Head(evalQ)) \in Seq(Scripts) /\ <<>> \in Seq(Scripts)
      BY <3>1, EmptySeq, AppendProperties
    <3> QED
      BY <1>2, <2>2, <3>3, <3>4, <3>5 DEF TakeEvals, EmptyEvalQ, FramesOK, f
  <2> QED
    BY <1>2, <2>1, <2>2 DEF TakeEvals
<1>3. CASE EvalStep
  <2> DEFINE f == [Top EXCEPT !.pc = "msgs", !.buf = <<>>]
             g == [Top EXCEPT !.cur = Head(Top.buf), !.buf = Tail(Top.buf)]
             h == [Top EXCEPT !.pc = "eval", !.cur = Head(Top.buf),
                              !.buf = Tail(Top.buf)]
  <2>1. f \in Frame /\ FrameOK(f)
    BY <1>1, <1>3, EmptySeq DEF EvalStep, Frame, FrameOK, PCs
  <2>2. SetTop(f) => FramesOK'
    BY <1>1, <1>3, <2>1, SetTopStep DEF EvalStep
  <2>3. ASSUME Top.buf # <<>>
        PROVE  /\ Head(Top.buf) \in Scripts /\ Tail(Top.buf) \in Seq(Scripts)
               /\ Append(ran, Head(Top.buf)) \in Seq(Scripts)
    BY <1>1, <1>3, <2>3, HeadTailProperties, AppendProperties DEF EvalStep, Frame
  <2>4. ASSUME Top.buf # <<>> PROVE SetTop(g) => FramesOK'
    <3>1. SetTop(h) => FramesOK'
      BY <1>1, <1>3, <2>3, <2>4, TextStep DEF EvalStep
    <3>2. g = h
      BY <1>1, <1>3 DEF EvalStep, Frame
    <3> QED
      BY <3>1, <3>2
  <2>5. GoTo("msgs") => FramesOK'
    BY <1>1, <1>3, GoToStep DEF EvalStep
  <2>6. Top.cur \in 0..NumScripts
    BY <1>1, <1>3 DEF EvalStep, Frame
  <2>7. FramesOK'
    BY <1>3, <2>2, <2>4, <2>5 DEF EvalStep
  <2>8. ran' \in Seq(Scripts)
    BY <1>3, <2>3 DEF EvalStep
  <2>9. iret' = iret \/ iret' = Top.cur
    BY <1>3 DEF EvalStep
  <2>10. iret' \in Scripts \cup Syncs \cup {0}
    BY <2>6, <2>9
  <2> QED
    BY <1>3, <2>7, <2>8, <2>10 DEF EvalStep, FramesOK
<1>4. CASE ReadMsgs
  BY <1>1, <1>4, TypeTakeMsgs DEF ReadMsgs, FramesOK
<1>5. CASE ClearMsgs
  <2>1. FramesOK'
    BY <1>1, <1>5, GoToStep DEF ClearMsgs
  <2>2. <<>> \in Seq(Msgs) /\ \A m \in Msgs : <<m>> \in Seq(Msgs)
    BY EmptySeq
  <2>3. torn' \in BOOLEAN /\ sent' \subseteq Msgs /\ msgQ' \in Seq(Msgs)
    <3>1. torn' = FALSE \/ torn' = TRUE
      BY <1>5, Zenon DEF ClearMsgs
    <3>2. sent' \subseteq Msgs
      BY <1>5 DEF ClearMsgs
    <3>3. msgQ' = <<>> \/ \E m \in Msgs : msgQ' = <<m>>
      BY <1>5, Zenon DEF ClearMsgs
    <3>4. msgQ' \in Seq(Msgs)
      <4>1. CASE msgQ' = <<>>
        BY <2>2, <4>1
      <4>2. ASSUME NEW m \in Msgs, msgQ' = <<m>> PROVE msgQ' \in Seq(Msgs)
        <5>1. <<m>> \in Seq(Msgs)
          BY <2>2
        <5> QED
          BY <4>2, <5>1, Zenon
      <4> QED
        BY <3>3, <4>1, <4>2
    <3>5. torn' \in BOOLEAN
      BY <3>1, Zenon
    <3> QED
      BY <3>2, <3>4, <3>5, Zenon
  <2>4. parent' = parent \/ parent' = Idle
    BY <1>5 DEF ClearMsgs
  <2>5. parent' \in Asking
    BY <2>4 DEF Asking
  <2> QED
    BY <1>5, <2>1, <2>3, <2>5 DEF ClearMsgs, FramesOK
<1>6. CASE TakeEvent
  <2>1. FramesOK'
    BY <1>1, <1>6, ContinueStep DEF TakeEvent
  <2> QED
    BY <1>6, <2>1 DEF TakeEvent, FramesOK
<1>7. CASE RunEvent
  <2> DEFINE f == [Top EXCEPT !.pc = "exec", !.ex = TRUE]
             g == [Top EXCEPT !.pc = "unlink", !.ex = FALSE]
  <2>1. Top.se \in Syncs => f \in Frame /\ FrameOK(f)
    BY <1>1, <1>7 DEF RunEvent, Frame, FrameOK, PCs
  <2>2. g \in Frame /\ FrameOK(g)
    BY <1>1, <1>7 DEF RunEvent, Frame, FrameOK, PCs
  <2>3. FramesOK'
    BY <1>1, <1>7, <2>1, <2>2, SetTopStep DEF RunEvent
  <2>4. execs' \in [Syncs -> 0..2] /\ iret' \in Scripts \cup Syncs \cup {0} /\ ran' = ran
    <3>1. \/ \E s \in Syncs : execs' = [execs EXCEPT ![s] = IF @ < 2 THEN @ + 1 ELSE @]
          \/ execs' = execs
      BY <1>7 DEF RunEvent
    <3>2. \A s \in Syncs : [execs EXCEPT ![s] = IF @ < 2 THEN @ + 1 ELSE @]
                             \in [Syncs -> 0..2]
      OBVIOUS
    <3>3. (iret' = 0 \/ iret' = iret) /\ ran' = ran
      BY <1>7 DEF RunEvent
    <3> QED
      BY <3>1, <3>2, <3>3
  <2>5. fault' = fault \/ fault' = "nullRet"
    BY <1>7, Zenon DEF RunEvent
  <2>6. fault' \in Faults
    BY <2>5 DEF Faults
  <2> QED
    BY <1>7, <2>3, <2>4, <2>6 DEF RunEvent, FramesOK
<1>8. CASE ExecDone
  <2> DEFINE f == [Top EXCEPT !.pc = "unlink"]
  <2>1. f \in Frame /\ FrameOK(f) /\ Top.se \in Syncs
    BY <1>1, <1>8 DEF ExecDone, Frame, FrameOK, PCs
  <2>2. FramesOK'
    BY <1>1, <1>8, <2>1, SetTopStep DEF ExecDone, GoTo
  <2> QED
    BY <1>8, <2>1, <2>2 DEF ExecDone, FramesOK
<1>9. CASE Unlink
  <2>1. Top.se \in Nodes /\ next[Top.se] \in Nodes \cup {None}
    BY <1>1, <1>9 DEF Unlink, FrameOK
  <2> DEFINE f == [Top EXCEPT !.pc = "wake", !.nxt = next[Top.se]]
  <2>2. Top.ex => f \in Frame /\ FrameOK(f)
    BY <1>1, <1>9, <2>1 DEF Unlink, Frame, FrameOK, PCs
  <2>3. FramesOK'
    BY <1>1, <1>9, <2>1, <2>2, SetTopStep, ContinueStep DEF Unlink
  <2> QED
    BY <1>9, <2>1, <2>3 DEF Unlink, FreeServed, FramesOK
<1>10. CASE Wake
  <2>1. FramesOK'
    BY <1>1, <1>10, ContinueStep DEF Wake, Frame
  <2> QED
    BY <1>10, <2>1 DEF Wake, Release, FramesOK
<1>11. CASE LockFails
  <2>1. FramesOK'
    BY <1>1, <1>11, ReturnStep DEF LockFails
  <2> QED
    BY <1>11, <2>1 DEF LockFails, FramesOK
<1> QED
  BY <1>2, <1>3, <1>4, <1>5, <1>6, <1>7, <1>8, <1>9, <1>10, <1>11 DEF CallbackStep

LEMMA TypeNext == TypeInv /\ [Next]_vars => TypeInv'
<1> SUFFICES ASSUME TypeInv, [Next]_vars PROVE TypeInv'
  OBVIOUS
<1> USE DEF TypeInv, TypeOK, vars, queueVars, msgVars, listVars, recVars, runVars, askVars
<1>1. CASE ChildSend
  BY <1>1, SameFrames, AppendProperties DEF ChildSend, Sent, Enqueue, FramesOK
<1>2. CASE StartPass
  <2>1. NewFrame \in Frame /\ FrameOK(NewFrame)
    BY EmptySeq DEF NewFrame, Frame, FrameOK, PCs
  <2>2. /\ frames' \in Seq(Frame) /\ Len(frames') = Len(frames) + 1
        /\ \A d \in 1..Len(frames') :
             frames'[d] = IF d = Len(frames) + 1 THEN NewFrame ELSE frames[d]
    BY <1>2, <2>1, AppendProperties DEF StartPass
  <2>3. FramesOK'
    BY <1>2, <2>1, <2>2, LenProperties DEF StartPass, FramesOK, FrameOK
  <2> QED
    BY <1>2, <2>3 DEF StartPass, FramesOK
<1>3. CASE ThreadEnd
  BY <1>3, SameFrames DEF ThreadEnd, FramesOK
<1>4. CASE UseFreed
  BY <1>4, SameFrames DEF UseFreed, FramesOK, Faults
<1>5. CASE UNCHANGED vars
  BY <1>5, SameFrames DEF FramesOK
<1> QED
  BY <1>1, <1>2, <1>3, <1>4, <1>5, TypeParent, TypeCallback DEF Next

\* The variables of InterpQueues keep their types in every execution, whatever
\* the numbers of scripts and requests and the nesting of callbacks.
THEOREM TypeCorrect == Spec => []TypeOK
<1>1. TypeInv => TypeOK
  BY DEF TypeInv
<1> QED
  BY <1>1, TypeInit, TypeNext, PTL DEF Spec

-----------------------------------------------------------------------------
(* Scripts start in order, and at most once.                               *)

\* Where a script comes before another one.  Nested callbacks keep texts apart but
\* not in order: the outer callback goes on with its older text after the inner
\* one has finished a younger one.
Before(a, b) == IF MaxDepth = 1 THEN a < b ELSE a # b

Sorted(t)       == \A i, j \in 1..Len(t) : i < j => t[i] < t[j]
UpTo(t, n)      == \A i \in 1..Len(t) : t[i] <= n
AllBefore(t, u) == \A i \in 1..Len(t), j \in 1..Len(u) : Before(t[i], u[j])
Chained(t)      == \A i, j \in 1..Len(t) : i < j => Before(t[i], t[j])

\* Every script posted is in at most one of: the queue, the private text of one
\* callback, and the scripts that have run; and these are ordered among each other.
QueueInv == Sorted(evalQ) /\ UpTo(evalQ, posted)
RanInv   == Chained(ran) /\ UpTo(ran, posted) /\ AllBefore(ran, evalQ)
TextInv  == \A d \in 1..Len(frames) :
              /\ Sorted(frames[d].buf) /\ UpTo(frames[d].buf, posted)
              /\ AllBefore(ran, frames[d].buf) /\ AllBefore(frames[d].buf, evalQ)
NestInv  == \A d, e \in 1..Len(frames) :
              d < e => AllBefore(frames[d].buf, frames[e].buf)
NumberInv == parent.st = "posting" /\ parent.op = "script" => parent.arg = posted + 1
ScriptsInv == QueueInv /\ RanInv /\ TextInv /\ NestInv /\ NumberInv

\* The empty text.
LEMMA EmptyText ==
  /\ <<>> \in Seq(Nat) /\ Sorted(<<>>)
  /\ \A n : UpTo(<<>>, n)
  /\ \A t : AllBefore(<<>>, t) /\ AllBefore(t, <<>>)
  BY EmptySeq DEF Sorted, UpTo, AllBefore

\* The rest of a text.
LEMMA RestOfText ==
  ASSUME NEW t \in Seq(Nat), t # <<>>
  PROVE  /\ Head(t) \in Nat /\ Tail(t) \in Seq(Nat)
         /\ Sorted(t) => /\ Sorted(Tail(t))
                         /\ \A j \in 1..Len(Tail(t)) : Before(Head(t), Tail(t)[j])
         /\ \A n : UpTo(t, n) => UpTo(Tail(t), n) /\ Head(t) <= n
         /\ \A u : AllBefore(t, u) =>
              AllBefore(Tail(t), u) /\ \A j \in 1..Len(u) : Before(Head(t), u[j])
         /\ \A u : AllBefore(u, t) =>
              AllBefore(u, Tail(t)) /\ \A j \in 1..Len(u) : Before(u[j], Head(t))
<1> DEFINE h == Head(t)
           r == Tail(t)
<1>1. /\ h = t[1] /\ 1 \in 1..Len(t) /\ r \in Seq(Nat) /\ Len(r) = Len(t) - 1
      /\ \A i \in 1..Len(r) : r[i] = t[i + 1]
      /\ Len(t) \in Nat
  BY HeadTailProperties, LenProperties, EmptySeq
<1>2. \A i \in 1..Len(t) : t[i] \in Nat
  BY ElementOfSeq
<1>3. \A i \in 1..Len(r) : i + 1 \in 1..Len(t) /\ 1 < i + 1
  BY <1>1
<1> HIDE DEF h, r
<1>4. Sorted(t) => Sorted(r) /\ \A j \in 1..Len(r) : Before(h, r[j])
  <2> SUFFICES ASSUME Sorted(t)
               PROVE  Sorted(r) /\ \A j \in 1..Len(r) : Before(h, r[j])
    OBVIOUS
  <2>1. ASSUME NEW i \in 1..Len(r), NEW j \in 1..Len(r), i < j PROVE r[i] < r[j]
    <3>1. i + 1 < j + 1
      BY <2>1, <1>1
    <3> QED
      BY <1>1, <1>3, <3>1 DEF Sorted
  <2>2. ASSUME NEW j \in 1..Len(r) PROVE Before(h, r[j])
    <3>1. h < r[j] /\ h \in Nat /\ r[j] \in Nat
      BY <1>1, <1>2, <1>3 DEF Sorted
    <3> QED
      BY <3>1 DEF Before
  <2> QED
    BY <2>1, <2>2 DEF Sorted
<1>5. \A n : UpTo(t, n) => UpTo(r, n) /\ h <= n
  BY <1>1, <1>3 DEF UpTo
<1>6. \A u : AllBefore(t, u) => AllBefore(r, u) /\ \A j \in 1..Len(u) : Before(h, u[j])
  BY <1>1, <1>3 DEF AllBefore
<1>7. \A u : AllBefore(u, t) => AllBefore(u, r) /\ \A j \in 1..Len(u) : Before(u[j], h)
  BY <1>1, <1>3 DEF AllBefore
<1>8. h \in Nat
  BY <1>1, <1>2
<1> QED
  BY <1>1, <1>4, <1>5, <1>6, <1>7, <1>8 DEF h, r

\* A text with one more script at its end.
LEMMA LongerText ==
  ASSUME NEW t \in Seq(Nat), NEW h \in Nat
  PROVE  /\ Append(t, h) \in Seq(Nat)
         /\ Sorted(t) /\ (\A i \in 1..Len(t) : t[i] < h) => Sorted(Append(t, h))
         /\ Chained(t) /\ (\A i \in 1..Len(t) : Before(t[i], h)) => Chained(Append(t, h))
         /\ \A n : UpTo(t, n) /\ h <= n => UpTo(Append(t, h), n)
         /\ \A u : AllBefore(t, u) /\ (\A j \in 1..Len(u) : Before(h, u[j])) =>
              AllBefore(Append(t, h), u)
         /\ \A u : AllBefore(u, t) /\ (\A j \in 1..Len(u) : Before(u[j], h)) =>
              AllBefore(u, Append(t, h))
<1> DEFINE a == Append(t, h)
<1>1. /\ a \in Seq(Nat) /\ Len(a) = Len(t) + 1 /\ Len(t) \in Nat
      /\ \A i \in 1..Len(t) : a[i] = t[i]
      /\ a[Len(t) + 1] = h
  BY AppendProperties, LenProperties
<1>2. \A i \in 1..Len(a) : i = Len(t) + 1 \/ i \in 1..Len(t)
  BY <1>1
<1> HIDE DEF a
<1>3. Sorted(t) /\ (\A i \in 1..Len(t) : t[i] < h) => Sorted(a)
  <2> SUFFICES ASSUME Sorted(t), \A i \in 1..Len(t) : t[i] < h,
                      NEW i \in 1..Len(a), NEW j \in 1..Len(a), i < j
               PROVE  a[i] < a[j]
    BY DEF Sorted
  <2>1. i \in 1..Len(t)
    BY <1>1
  <2>2. CASE j \in 1..Len(t)
    BY <1>1, <2>1, <2>2 DEF Sorted
  <2>3. CASE j = Len(t) + 1
    BY <1>1, <2>1, <2>3
  <2> QED
    BY <1>2, <2>2, <2>3
<1>4. Chained(t) /\ (\A i \in 1..Len(t) : Before(t[i], h)) => Chained(a)
  <2> SUFFICES ASSUME Chained(t), \A i \in 1..Len(t) : Before(t[i], h),
                      NEW i \in 1..Len(a), NEW j \in 1..Len(a), i < j
               PROVE  Before(a[i], a[j])
    BY DEF Chained
  <2>1. i \in 1..Len(t)
    BY <1>1
  <2>2. CASE j \in 1..Len(t)
    BY <1>1, <2>1, <2>2 DEF Chained
  <2>3. CASE j = Len(t) + 1
    BY <1>1, <2>1, <2>3
  <2> QED
    BY <1>2, <2>2, <2>3
<1>5. \A n : UpTo(t, n) /\ h <= n => UpTo(a, n)
  BY <1>1, <1>2 DEF UpTo
<1>6. \A u : AllBefore(t, u) /\ (\A j \in 1..Len(u) : Before(h, u[j])) => AllBefore(a, u)
  BY <1>1, <1>2 DEF AllBefore
<1>7. \A u : AllBefore(u, t) /\ (\A j \in 1..Len(u) : Before(u[j], h)) => AllBefore(u, a)
  BY <1>1, <1>2 DEF AllBefore
<1> QED
  BY <1>1, <1>3, <1>4, <1>5, <1>6, <1>7 DEF a

\* The texts of the callbacks are what they were, or empty.
TextsKept ==
  \A d \in 1..Len(frames') :
    \/ frames'[d].buf = <<>>
    \/ d \in 1..Len(frames) /\ frames'[d].buf = frames[d].buf

\* The types of the variables that ScriptsInv is about.
LEMMA TextTypes ==
  ASSUME TypeInv
  PROVE  /\ posted \in Nat /\ evalQ \in Seq(Nat) /\ ran \in Seq(Nat)
         /\ Len(frames) \in Nat /\ Len(frames) <= MaxDepth
         /\ \A d \in 1..Len(frames) : frames[d].buf \in Seq(Nat)
<1>1. Scripts \subseteq Nat
  OBVIOUS
<1>2. \A t \in Seq(Scripts) : t \in Seq(Nat)
  BY <1>1, SeqMonotonic, Zenon
<1>3. \A d \in 1..Len(frames) : frames[d].buf \in Seq(Scripts)
  <2> TAKE d \in 1..Len(frames)
  <2>1. frames[d] \in Frame
    BY ElementOfSeq DEF TypeInv, FramesOK
  <2> QED
    BY <2>1 DEF Frame
<1> QED
  BY <1>2, <1>3, LenProperties DEF TypeInv, TypeOK, FramesOK

\* Steps that start no script and post none.
LEMMA QuietStep ==
  ASSUME TypeInv, TypeInv', ScriptsInv, NumberInv', TextsKept,
         UNCHANGED <<posted, ran>>, evalQ' = evalQ \/ evalQ' = <<>>
  PROVE  ScriptsInv'
<1>1. QueueInv' /\ RanInv'
  BY EmptyText DEF ScriptsInv, QueueInv, RanInv
<1>2. TextInv'
  <2> SUFFICES ASSUME NEW d \in 1..Len(frames')
               PROVE  /\ Sorted(frames'[d].buf) /\ UpTo(frames'[d].buf, posted')
                      /\ AllBefore(ran', frames'[d].buf)
                      /\ AllBefore(frames'[d].buf, evalQ')
    BY DEF TextInv
  <2>1. CASE frames'[d].buf = <<>>
    BY <2>1, EmptyText
  <2>2. CASE d \in 1..Len(frames) /\ frames'[d].buf = frames[d].buf
    BY <2>2, EmptyText DEF ScriptsInv, TextInv
  <2> QED
    BY <2>1, <2>2 DEF TextsKept
<1>3. NestInv'
  <2> SUFFICES ASSUME NEW d \in 1..Len(frames'), NEW e \in 1..Len(frames'), d < e
               PROVE  AllBefore(frames'[d].buf, frames'[e].buf)
    BY DEF NestInv
  <2>1. CASE frames'[d].buf = <<>> \/ frames'[e].buf = <<>>
    BY <2>1, EmptyText
  <2>2. CASE /\ d \in 1..Len(frames) /\ frames'[d].buf = frames[d].buf
             /\ e \in 1..Len(frames) /\ frames'[e].buf = frames[e].buf
    BY <2>2 DEF ScriptsInv, NestInv
  <2> QED
    BY <2>1, <2>2 DEF TextsKept
<1> QED
  BY <1>1, <1>2, <1>3 DEF ScriptsInv

\* The step that takes the first script of text t and keeps the rest of t as the
\* text of the innermost callback.
LEMMA StartScript ==
  ASSUME TypeInv, TypeInv', ScriptsInv, NumberInv', UNCHANGED posted, frames # <<>>,
         NEW t \in Seq(Nat), t # <<>>,
         Sorted(t), UpTo(t, posted), AllBefore(ran, t), AllBefore(t, evalQ'),
         \A d \in 1..(Len(frames) - 1) : AllBefore(frames[d].buf, t),
         evalQ' = evalQ \/ evalQ' = <<>>,
         ran' = Append(ran, Head(t)),
         Len(frames') = Len(frames),
         frames'[Len(frames)].buf = Tail(t),
         \A d \in 1..(Len(frames) - 1) : frames'[d].buf = frames[d].buf
  PROVE  ScriptsInv'
<1>1. /\ Head(t) \in Nat /\ Tail(t) \in Seq(Nat) /\ Sorted(Tail(t))
      /\ \A j \in 1..Len(Tail(t)) : Before(Head(t), Tail(t)[j])
      /\ UpTo(Tail(t), posted) /\ Head(t) <= posted
      /\ AllBefore(Tail(t), evalQ') /\ \A j \in 1..Len(evalQ') : Before(Head(t), evalQ'[j])
      /\ AllBefore(ran, Tail(t)) /\ \A j \in 1..Len(ran) : Before(ran[j], Head(t))
  BY RestOfText
<1>2. /\ Len(frames) \in Nat /\ Len(frames) <= MaxDepth /\ ran \in Seq(Nat)
  BY TextTypes
<1>3. QueueInv'
  BY EmptyText DEF ScriptsInv, QueueInv
<1>4. RanInv'
  <2>1. AllBefore(ran, evalQ')
    BY EmptyText DEF ScriptsInv, RanInv
  <2>2. Chained(ran') /\ UpTo(ran', posted) /\ AllBefore(ran', evalQ')
    BY <1>1, <1>2, <2>1, LongerText DEF ScriptsInv, RanInv
  <2> QED
    BY <2>2 DEF RanInv
<1>5. AllBefore(ran', Tail(t))
  BY <1>1, <1>2, LongerText
<1>6. ASSUME NEW d \in 1..(Len(frames) - 1)
      PROVE  /\ Sorted(frames'[d].buf) /\ UpTo(frames'[d].buf, posted')
             /\ AllBefore(ran', frames'[d].buf) /\ AllBefore(frames'[d].buf, evalQ')
             /\ AllBefore(frames'[d].buf, Tail(t))
  <2> DEFINE b == frames[d].buf
  <2>1. d \in 1..Len(frames) /\ MaxDepth # 1
    BY <1>2
  <2>2. b \in Seq(Nat)
    BY <2>1, TextTypes
  <2>3. Sorted(b) /\ UpTo(b, posted) /\ AllBefore(ran, b) /\ AllBefore(b, evalQ')
    BY <2>1, EmptyText DEF ScriptsInv, TextInv
  <2>4. AllBefore(b, Tail(t)) /\ \A j \in 1..Len(b) : Before(b[j], Head(t))
    BY RestOfText
  <2>5. \A j \in 1..Len(b) : Before(Head(t), b[j])
    BY <2>1, <2>4 DEF Before
  <2>6. AllBefore(ran', b)
    BY <1>1, <1>2, <2>3, <2>5, LongerText
  <2> QED
    BY <2>3, <2>4, <2>6
<1>7. TextInv'
  <2> SUFFICES ASSUME NEW d \in 1..Len(frames')
               PROVE  /\ Sorted(frames'[d].buf) /\ UpTo(frames'[d].buf, posted')
                      /\ AllBefore(ran', frames'[d].buf)
                      /\ AllBefore(frames'[d].buf, evalQ')
    BY DEF TextInv
  <2>1. CASE d = Len(frames)
    BY <1>1, <1>5, <2>1
  <2>2. CASE d \in 1..(Len(frames) - 1)
    BY <1>6, <2>2
  <2> QED
    BY <1>2, <2>1, <2>2
<1>8. NestInv'
  <2> SUFFICES ASSUME NEW d \in 1..Len(frames'), NEW e \in 1..Len(frames'), d < e
               PROVE  AllBefore(frames'[d].buf, frames'[e].buf)
    BY DEF NestInv
  <2>1. d \in 1..(Len(frames) - 1) /\ d \in 1..Len(frames)
    BY <1>2
  <2>2. CASE e = Len(frames)
    BY <1>6, <2>1, <2>2
  <2>3. CASE e \in 1..(Len(frames) - 1)
    <3>1. e \in 1..Len(frames)
      BY <1>2, <2>3
    <3> QED
      BY <2>1, <2>3, <3>1 DEF ScriptsInv, NestInv
  <2> QED
    BY <1>2, <2>2, <2>3
<1> QED
  BY <1>3, <1>4, <1>7, <1>8 DEF ScriptsInv

\* What each operation on the stack does to the texts.
LEMMA KeptByStack ==
  ASSUME TypeInv
  PROVE  /\ UNCHANGED frames => TextsKept
         /\ frames # <<>> /\ Return => TextsKept
         /\ \A f \in Frame : frames # <<>> /\ SetTop(f)
                             /\ (f.buf = Top.buf \/ f.buf = <<>>) => TextsKept
<1>1. Len(frames) \in Nat
  BY TextTypes
<1>2. ASSUME frames # <<>>, Return PROVE TextsKept
  BY <1>1, <1>2, ReturnStep DEF TextsKept, TypeInv
<1>3. ASSUME NEW f \in Frame, frames # <<>>, SetTop(f),
             f.buf = Top.buf \/ f.buf = <<>>
      PROVE  TextsKept
  BY <1>1, <1>3, SetTopStep, TopOK DEF TextsKept, TypeInv, Top
<1> QED
  BY <1>2, <1>3 DEF TextsKept

\* Serving the next record or leaving.
LEMMA KeptByContinue ==
  ASSUME TypeInv, frames # <<>>, NEW nxt \in Nodes \cup {None}, Continue(nxt)
  PROVE  TextsKept
<1>1. CASE nxt = None
  BY <1>1, KeptByStack DEF Continue
<1>2. CASE nxt # None
  <2> DEFINE f == [Top EXCEPT !.pc = "event", !.se = nxt, !.nxt = None]
  <2>0. Top \in Frame
    BY TopOK DEF TypeInv
  <2>1. f \in Frame /\ f.buf = Top.buf
    BY <1>2, <2>0 DEF Frame, PCs
  <2>2. SetTop(f)
    BY <1>2 DEF Continue
  <2> QED
    BY <2>1, <2>2, KeptByStack
<1> QED
  BY <1>1, <1>2

\* Going to another point of the callback.
LEMMA KeptByGoTo ==
  ASSUME TypeInv, frames # <<>>, NEW pc \in PCs, GoTo(pc)
  PROVE  TextsKept
<1> DEFINE f == [Top EXCEPT !.pc = pc]
<1>0. Top \in Frame
  BY TopOK DEF TypeInv
<1>1. f \in Frame /\ f.buf = Top.buf
  BY <1>0 DEF Frame
<1>2. SetTop(f)
  BY DEF GoTo
<1> QED
  BY <1>1, <1>2, KeptByStack

LEMMA ScriptsInit == Init => ScriptsInv
<1> SUFFICES ASSUME Init PROVE ScriptsInv
  OBVIOUS
<1>1. Len(frames) = 0 /\ Len(ran) = 0
  BY EmptySeq DEF Init
<1>2. QueueInv /\ RanInv
  BY <1>1, EmptyText DEF Init, QueueInv, RanInv, Chained
<1>3. TextInv /\ NestInv
  BY <1>1 DEF TextInv, NestInv
<1> QED
  BY <1>2, <1>3 DEF Init, Idle, ScriptsInv, NumberInv

LEMMA ScriptsParent ==
  ASSUME TypeInv, TypeInv', ScriptsInv, ParentStep
  PROVE  ScriptsInv'
<1> USE DEF queueVars, msgVars, listVars, recVars, runVars, askVars
<1>1. UNCHANGED <<ran, frames>>
  BY DEF ParentStep, ParentFetch, PostScript, PostSync, PostCall, PostSend, Sent,
         PostFails, WaitDone, ReadResult
<1>2. TextsKept
  BY <1>1, KeptByStack
<1>3. CASE PostScript
  <2>1. parent.arg = posted + 1 /\ posted \in Nat
    BY <1>3, TextTypes DEF PostScript, Posting, ScriptsInv, NumberInv
  <2>2. evalQ' = Append(evalQ, posted + 1) /\ posted' = posted + 1
    BY <1>3, <2>1 DEF PostScript
  <2>3. ASSUME NEW t \in Seq(Nat), UpTo(t, posted)
        PROVE  /\ \A i \in 1..Len(t) : t[i] < posted + 1 /\ Before(t[i], posted + 1)
               /\ UpTo(t, posted + 1)
    <3>1. ASSUME NEW i \in 1..Len(t)
          PROVE  t[i] < posted + 1 /\ Before(t[i], posted + 1) /\ t[i] <= posted + 1
      <4>1. t[i] \in Nat /\ t[i] <= posted
        BY <2>3, <3>1, ElementOfSeq DEF UpTo
      <4> QED
        BY <2>1, <4>1 DEF Before
    <3> QED
      BY <3>1 DEF UpTo
  <2>4. QueueInv'
    <3>1. posted + 1 \in Nat /\ posted + 1 <= posted + 1
      BY <2>1
    <3>2. Sorted(evalQ') /\ UpTo(evalQ', posted + 1)
      BY <2>2, <2>3, <3>1, TextTypes, LongerText DEF ScriptsInv, QueueInv
    <3> QED
      BY <2>2, <3>2 DEF QueueInv
  <2>5. RanInv'
    BY <1>1, <2>1, <2>2, <2>3, TextTypes, LongerText DEF ScriptsInv, RanInv
  <2>6. TextInv'
    <3> SUFFICES ASSUME NEW d \in 1..Len(frames)
                 PROVE  /\ Sorted(frames[d].buf) /\ UpTo(frames[d].buf, posted')
                        /\ AllBefore(ran, frames[d].buf)
                        /\ AllBefore(frames[d].buf, evalQ')
      BY <1>1 DEF TextInv
    <3>1. frames[d].buf \in Seq(Nat)
      BY TextTypes
    <3>2. /\ Sorted(frames[d].buf) /\ UpTo(frames[d].buf, posted)
          /\ AllBefore(ran, frames[d].buf) /\ AllBefore(frames[d].buf, evalQ)
      BY DEF ScriptsInv, TextInv
    <3> QED
      BY <2>1, <2>2, <2>3, <3>1, <3>2, TextTypes, LongerText
  <2>7. NestInv'
    BY <1>1 DEF ScriptsInv, NestInv
  <2>8. NumberInv'
    BY <1>3 DEF PostScript, NumberInv, Idle
  <2> QED
    BY <2>4, <2>5, <2>6, <2>7, <2>8 DEF ScriptsInv
<1>4. CASE ~PostScript
  <2>1. UNCHANGED <<posted, evalQ>>
    BY <1>4 DEF ParentStep, ParentFetch, PostSync, PostCall, PostSend, Sent, Enqueue,
                PostFails, WaitDone, ReadResult
  <2>2. NumberInv'
    <3>1. CASE ParentFetch
      BY <2>1, <3>1 DEF ParentFetch, Requests, ScriptsInv, NumberInv
    <3>2. CASE ~ParentFetch
      BY <1>4, <3>2 DEF ParentStep, PostSync, PostCall, PostSend, PostFails, WaitDone,
                        ReadResult, NumberInv, Idle, TypeInv, TypeOK, Asking
    <3> QED
      BY <3>1, <3>2
  <2> QED
    BY <1>1, <1>2, <2>1, <2>2, QuietStep
<1> QED
  BY <1>3, <1>4

\* The two steps of a callback that start a script.
LEMMA ScriptsStarted ==
  ASSUME TypeInv, TypeInv', ScriptsInv, TakeEvals \/ EvalStep, ran' # ran
  PROVE  ScriptsInv'
<1> USE DEF queueVars, msgVars, listVars, recVars, runVars, askVars
<1>1. frames # <<>> /\ Top \in Frame /\ Len(frames) \in 1..MaxDepth
  BY TopOK DEF TakeEvals, EvalStep, At, TypeInv
<1>2. UNCHANGED <<posted, parent>>
  BY DEF TakeEvals, EvalStep
<1>3. NumberInv'
  BY <1>2 DEF ScriptsInv, NumberInv
<1>4. Top = frames[Len(frames)] /\ Top.buf \in Seq(Nat)
  BY <1>1, TextTypes DEF Top
<1>5. CASE TakeEvals
  <2> DEFINE f == [Top EXCEPT !.pc = "eval", !.cur = Head(evalQ), !.buf = Tail(evalQ)]
  <2>1. /\ evalQ # <<>> /\ evalQ' = <<>> /\ SetTop(f)
        /\ ran' = Append(ran, Head(evalQ))
    BY <1>5 DEF TakeEvals, EmptyEvalQ
  <2>2. Head(evalQ) \in Scripts /\ Tail(evalQ) \in Seq(Scripts)
    BY <2>1, HeadTailProperties DEF TypeInv, TypeOK
  <2>3. f \in Frame /\ f.buf = Tail(evalQ)
    BY <1>1, <2>2, TextStep
  <2> HIDE DEF f
  <2>4. /\ Len(frames') = Len(frames) /\ frames'[Len(frames)] = f
        /\ \A d \in 1..(Len(frames) - 1) : frames'[d] = frames[d]
    BY <1>1, <2>1, <2>3, SetTopStep DEF TypeInv
  <2>5. \A d \in 1..(Len(frames) - 1) : AllBefore(frames[d].buf, evalQ)
    BY <1>1 DEF ScriptsInv, TextInv
  <2>6. Sorted(evalQ) /\ UpTo(evalQ, posted) /\ AllBefore(ran, evalQ)
    BY DEF ScriptsInv, QueueInv, RanInv
  <2>7. AllBefore(evalQ, evalQ')
    BY <2>1, EmptyText
  <2> QED
    BY <1>1, <1>2, <1>3, <2>1, <2>3, <2>4, <2>5, <2>6, <2>7, TextTypes, StartScript
<1>6. CASE EvalStep
  <2> DEFINE f == [Top EXCEPT !.pc = "eval", !.cur = Head(Top.buf),
                              !.buf = Tail(Top.buf)]
  <2>1. /\ Top.buf # <<>> /\ UNCHANGED evalQ /\ Top.pc = "eval"
        /\ SetTop([Top EXCEPT !.cur = Head(Top.buf), !.buf = Tail(Top.buf)])
        /\ ran' = Append(ran, Head(Top.buf))
    BY <1>6 DEF EvalStep, At
  <2>2. Head(Top.buf) \in Scripts /\ Tail(Top.buf) \in Seq(Scripts)
    BY <1>1, <2>1, HeadTailProperties DEF Frame
  <2>3. f \in Frame /\ f.buf = Tail(Top.buf)
    BY <1>1, <2>2, TextStep
  <2>4. f = [Top EXCEPT !.cur = Head(Top.buf), !.buf = Tail(Top.buf)]
    BY <1>1, <2>1 DEF Frame
  <2> HIDE DEF f
  <2>5. /\ Len(frames') = Len(frames) /\ frames'[Len(frames)] = f
        /\ \A d \in 1..(Len(frames) - 1) : frames'[d] = frames[d]
    BY <1>1, <2>1, <2>3, <2>4, SetTopStep DEF TypeInv
  <2>6. \A d \in 1..(Len(frames) - 1) : AllBefore(frames[d].buf, Top.buf)
    BY <1>1, <1>4 DEF ScriptsInv, NestInv
  <2>7. /\ Sorted(Top.buf) /\ UpTo(Top.buf, posted) /\ AllBefore(ran, Top.buf)
        /\ AllBefore(Top.buf, evalQ)
    BY <1>1, <1>4 DEF ScriptsInv, TextInv
  <2>8. AllBefore(Top.buf, evalQ')
    BY <2>1, <2>7
  <2> QED
    BY <1>1, <1>2, <1>3, <1>4, <2>1, <2>3, <2>5, <2>6, <2>7, <2>8, StartScript
<1> QED
  BY <1>5, <1>6

\* Every other step of a callback.
LEMMA ScriptsKept ==
  ASSUME TypeInv, TypeInv', ScriptsInv, CallbackStep, ran' = ran
  PROVE  ScriptsInv'
<1> USE DEF queueVars, msgVars, listVars, recVars, runVars, askVars
<1>1. ASSUME NEW pc, At(pc)
      PROVE  frames # <<>> /\ Top \in Frame /\ FrameOK(Top) /\ Top.pc = pc
  BY <1>1, TopOK DEF At, TypeInv
<1>2. frames # <<>>
  BY DEF CallbackStep, TakeEvals, EvalStep, ReadMsgs, ClearMsgs, TakeEvent, RunEvent,
         ExecDone, Unlink, Wake, LockFails, At
<1>3. Top \in Frame /\ FrameOK(Top)
  BY <1>2, TopOK DEF TypeInv
<1>4. UNCHANGED posted /\ (evalQ' = evalQ \/ evalQ' = <<>>)
  BY DEF CallbackStep, TakeEvals, EmptyEvalQ, TakeMsgs, EvalStep, ReadMsgs, ClearMsgs,
         TakeEvent, RunEvent, ExecDone, Unlink, Wake, LockFails
<1>5. parent' = parent \/ parent' = Idle
  BY DEF CallbackStep, TakeEvals, EvalStep, ReadMsgs, ClearMsgs, TakeEvent, RunEvent,
         ExecDone, Unlink, Wake, LockFails
<1>6. NumberInv'
  BY <1>4, <1>5 DEF ScriptsInv, NumberInv, Idle
<1>7. ASSUME NEW pc \in PCs, GoTo(pc) PROVE TextsKept
  BY <1>2, <1>7, KeptByGoTo
<1>8. SUFFICES TextsKept
  BY <1>4, <1>6, QuietStep
<1>9. ASSUME NEW t PROVE ran' # Append(ran, Head(t)) \/ Head(t) \notin Scripts
  <2> SUFFICES ASSUME Head(t) \in Scripts PROVE Append(ran, Head(t)) # ran
    OBVIOUS
  <2>1. Len(Append(ran, Head(t))) = Len(ran) + 1 /\ Len(ran) \in Nat
    BY AppendProperties, LenProperties DEF TypeInv, TypeOK
  <2> QED
    BY <2>1
<1>10. CASE TakeEvals \/ ReadMsgs
  <2>1. evalQ # <<>> => Head(evalQ) \in Scripts
    BY HeadTailProperties DEF TypeInv, TypeOK
  <2>2. \E pc \in PCs : GoTo(pc)
    BY <1>9, <1>10, <2>1 DEF TakeEvals, ReadMsgs, TakeMsgs, PCs
  <2> QED
    BY <1>7, <2>2
<1>11. CASE EvalStep
  <2> DEFINE f == [Top EXCEPT !.pc = "msgs", !.buf = <<>>]
  <2>1. f \in Frame /\ f.buf = <<>>
    BY <1>3, EmptySeq DEF Frame, PCs
  <2>2. Top.buf # <<>> => Head(Top.buf) \in Scripts
    BY <1>3, HeadTailProperties DEF Frame
  <2>3. SetTop(f) \/ GoTo("msgs")
    BY <1>9, <1>11, <2>2 DEF EvalStep
  <2> HIDE DEF f
  <2>4. "msgs" \in PCs
    BY DEF PCs
  <2> QED
    BY <1>2, <1>7, <2>1, <2>3, <2>4, KeptByStack
<1>12. CASE ClearMsgs \/ ExecDone
  BY <1>7, <1>12 DEF ClearMsgs, ExecDone, PCs
<1>13. CASE TakeEvent \/ Wake
  BY <1>2, <1>3, <1>13, KeptByContinue DEF TakeEvent, Wake, Frame, TypeInv, TypeOK
<1>14. CASE RunEvent
  <2> DEFINE f == [Top EXCEPT !.pc = "exec", !.ex = TRUE]
             g == [Top EXCEPT !.pc = "unlink", !.ex = FALSE]
  <2>1. f \in Frame /\ f.buf = Top.buf /\ g \in Frame /\ g.buf = Top.buf
    BY <1>3 DEF Frame, PCs
  <2>2. SetTop(f) \/ SetTop(g)
    BY <1>14 DEF RunEvent
  <2> HIDE DEF f, g
  <2> QED
    BY <1>2, <2>1, <2>2, KeptByStack
<1>15. CASE Unlink
  <2> DEFINE f == [Top EXCEPT !.pc = "wake", !.nxt = next[Top.se]]
  <2>1. Top.se \in Nodes /\ next[Top.se] \in Nodes \cup {None}
    BY <1>1, <1>15 DEF Unlink, FrameOK, TypeInv, TypeOK
  <2>2. f \in Frame /\ f.buf = Top.buf
    BY <1>3, <2>1 DEF Frame, PCs
  <2>3. SetTop(f) \/ Continue(next[Top.se])
    BY <1>15 DEF Unlink
  <2> HIDE DEF f
  <2> QED
    BY <1>2, <2>1, <2>2, <2>3, KeptByStack, KeptByContinue
<1>16. CASE LockFails
  BY <1>2, <1>16, KeptByStack DEF LockFails
<1> QED
  BY <1>10, <1>11, <1>12, <1>13, <1>14, <1>15, <1>16 DEF CallbackStep

LEMMA ScriptsNext ==
  ASSUME TypeInv, ScriptsInv, [Next]_vars
  PROVE  ScriptsInv'
<1> USE DEF vars, queueVars, msgVars, listVars, recVars, runVars, askVars
<1>1. TypeInv'
  BY TypeNext
<1>2. CASE ParentStep
  BY <1>1, <1>2, ScriptsParent
<1>3. CASE CallbackStep
  <2>1. ran' = ran \/ TakeEvals \/ EvalStep
    BY <1>3 DEF CallbackStep, ReadMsgs, ClearMsgs, TakeEvent, RunEvent, ExecDone,
                Unlink, Wake, LockFails
  <2> QED
    BY <1>1, <1>3, <2>1, ScriptsStarted, ScriptsKept
<1>4. CASE ChildSend \/ StartPass \/ ThreadEnd \/ UseFreed \/ UNCHANGED vars
  <2>1. UNCHANGED <<posted, ran, evalQ, parent>>
    BY <1>4 DEF ChildSend, Sent, Enqueue, StartPass, ThreadEnd, UseFreed
  <2>2. NumberInv'
    BY <2>1 DEF ScriptsInv, NumberInv
  <2>3. CASE StartPass
    <3>1. /\ NewFrame.buf = <<>> /\ NewFrame \in Frame
          /\ frames' = Append(frames, NewFrame)
      BY <2>3, EmptySeq DEF StartPass, NewFrame, Frame, PCs
    <3>2. TextsKept
      BY <3>1, AppendProperties, LenProperties DEF TextsKept, TypeInv, TypeOK
    <3> QED
      BY <1>1, <2>1, <2>2, <3>2, QuietStep
  <2>4. CASE ~StartPass
    <3>1. UNCHANGED frames
      BY <1>4, <2>4 DEF ChildSend, Sent, ThreadEnd, UseFreed
    <3>2. TextsKept
      BY <3>1, KeptByStack
    <3> QED
      BY <1>1, <2>1, <2>2, <3>2, QuietStep
  <2> QED
    BY <2>3, <2>4
<1> QED
  BY <1>2, <1>3, <1>4 DEF Next

LEMMA ScriptsAlways == Spec => [](TypeInv /\ ScriptsInv)
<1>1. Init => TypeInv /\ ScriptsInv
  BY TypeInit, ScriptsInit
<1>2. (TypeInv /\ ScriptsInv) /\ [Next]_vars => (TypeInv /\ ScriptsInv)'
  BY TypeNext, ScriptsNext
<1> QED
  BY <1>1, <1>2, PTL DEF Spec

\* No script posted with eval(js, true) is started twice, however deep callbacks
\* are nested by sys.update() and whatever locks fail.
THEOREM AtMostOnce == Spec => []ScriptsAtMostOnce
<1>1. TypeInv /\ ScriptsInv => ScriptsAtMostOnce
  <2> SUFFICES ASSUME TypeInv, ScriptsInv, NEW i \in DOMAIN ran, NEW j \in DOMAIN ran,
                      ran[i] = ran[j], i # j
               PROVE  FALSE
    BY DEF ScriptsAtMostOnce
  <2>1. i \in 1..Len(ran) /\ j \in 1..Len(ran) /\ ran[i] \in Nat
    BY TextTypes, LenProperties, ElementOfSeq
  <2>2. i < j \/ j < i
    BY <2>1
  <2> QED
    BY <2>1, <2>2 DEF ScriptsInv, RanInv, Chained, Before
<1> QED
  BY <1>1, ScriptsAlways, PTL

\* Where callbacks are not nested, scripts start in the order they were posted in.
THEOREM InOrder == MaxDepth = 1 => (Spec => []ScriptsInOrder)
<1> SUFFICES ASSUME MaxDepth = 1 PROVE Spec => []ScriptsInOrder
  OBVIOUS
<1>1. TypeInv /\ ScriptsInv => ScriptsInOrder
  <2> SUFFICES ASSUME TypeInv, ScriptsInv, NEW i \in DOMAIN ran, NEW j \in DOMAIN ran,
                      i < j
               PROVE  ran[i] < ran[j]
    BY DEF ScriptsInOrder
  <2>1. i \in 1..Len(ran) /\ j \in 1..Len(ran)
    BY TextTypes, LenProperties
  <2> QED
    BY <2>1 DEF ScriptsInv, RanInv, Chained, Before
<1> QED
  BY <1>1, ScriptsAlways, PTL

-----------------------------------------------------------------------------
(* No synchronous eval is answered before it ran.                          *)

\* Callbacks between the start of a synchronous eval and the waking of its waiter.
Serving(f) == f.pc \in {"exec", "wake"} \/ (f.pc = "unlink" /\ f.ex)

\* A record loses its isExec mark in Wake only, of a callback that has run it; so a
\* waiter that sees the mark gone, and whoever has been a waiter, had its eval run.
ServedInv == \A d \in 1..Len(frames) :
               Serving(frames[d]) => execs[frames[d].se] >= 1
WaiterInv == /\ parent.st = "waiting" /\ ~isExec[parent.arg] => execs[parent.arg] >= 1
             /\ parent.st = "reading" => execs[parent.arg] >= 1
AnswerInv == AnswerAfterRun /\ ServedInv /\ WaiterInv

\* What the operations on the stack do to ServedInv when no count is lowered.
LEMMA ServedByStack ==
  ASSUME TypeInv, ServedInv, frames # <<>>,
         \A s \in Syncs : execs[s] >= 1 => execs'[s] >= 1
  PROVE  /\ Return => ServedInv'
         /\ \A f \in Frame : SetTop(f) /\ (Serving(f) => execs'[f.se] >= 1) => ServedInv'
<1>1. \A d \in 1..Len(frames) : Serving(frames[d]) => execs'[frames[d].se] >= 1
  <2> TAKE d \in 1..Len(frames)
  <2>1. FrameOK(frames[d])
    BY DEF TypeInv, FramesOK
  <2> QED
    BY <2>1 DEF ServedInv, Serving, FrameOK
<1>2. Len(frames) \in 1..MaxDepth
  BY TopOK DEF TypeInv
<1>3. ASSUME Return PROVE ServedInv'
  BY <1>1, <1>2, <1>3, ReturnStep DEF TypeInv, ServedInv
<1>4. ASSUME NEW f \in Frame, SetTop(f), Serving(f) => execs'[f.se] >= 1 PROVE ServedInv'
  <2>1. /\ Len(frames') = Len(frames) /\ frames'[Len(frames)] = f
        /\ \A d \in 1..(Len(frames) - 1) : frames'[d] = frames[d]
    BY <1>4, SetTopStep DEF TypeInv
  <2>2. ASSUME NEW d \in 1..Len(frames'), Serving(frames'[d])
        PROVE  execs'[frames'[d].se] >= 1
    <3>1. CASE d = Len(frames)
      BY <1>4, <2>1, <2>2, <3>1
    <3>2. CASE d \in 1..(Len(frames) - 1)
      BY <1>1, <1>2, <2>1, <2>2, <3>2
    <3> QED
      BY <1>2, <2>1, <3>1, <3>2
  <2> QED
    BY <2>2 DEF ServedInv
<1> QED
  BY <1>3, <1>4

\* Steps that leave the stack alone, and the two operations built from SetTop.
LEMMA ServedByMove ==
  ASSUME TypeInv, ServedInv, UNCHANGED execs
  PROVE  /\ UNCHANGED frames => ServedInv'
         /\ \A pc \in {"msgs", "clear", "events"} : frames # <<>> /\ GoTo(pc) => ServedInv'
         /\ \A n \in Nodes \cup {None} : frames # <<>> /\ Continue(n) => ServedInv'
<1>1. UNCHANGED frames => ServedInv'
  BY DEF ServedInv
<1>2. frames # <<>> => Top \in Frame
  BY TopOK DEF TypeInv
<1>3. ASSUME NEW pc \in {"msgs", "clear", "events"}, frames # <<>>, GoTo(pc)
      PROVE  ServedInv'
  <2> DEFINE f == [Top EXCEPT !.pc = pc]
  <2>1. f \in Frame /\ ~Serving(f)
    BY <1>2, <1>3 DEF Frame, PCs, Serving
  <2>2. SetTop(f)
    BY <1>3 DEF GoTo
  <2> HIDE DEF f
  <2> QED
    BY <1>3, <2>1, <2>2, ServedByStack
<1>4. ASSUME NEW n \in Nodes \cup {None}, frames # <<>>, Continue(n) PROVE ServedInv'
  <2> DEFINE f == [Top EXCEPT !.pc = "event", !.se = n, !.nxt = None]
  <2>1. f \in Frame /\ ~Serving(f)
    BY <1>2, <1>4 DEF Frame, PCs, Serving
  <2>2. SetTop(f) \/ Return
    BY <1>4 DEF Continue
  <2> HIDE DEF f
  <2> QED
    BY <1>4, <2>1, <2>2, ServedByStack
<1> QED
  BY <1>1, <1>3, <1>4

LEMMA AnswerInit == Init => AnswerInv
  BY EmptySeq DEF Init, Idle, AnswerInv, AnswerAfterRun, ServedInv, WaiterInv

LEMMA AnswerParent ==
  ASSUME TypeInv, AnswerInv, ParentStep
  PROVE  AnswerInv'
<1> USE DEF queueVars, msgVars, listVars, recVars, runVars, askVars
<1>1. UNCHANGED <<execs, frames>>
  BY DEF ParentStep, ParentFetch, PostScript, PostSync, PostCall, PostSend, Sent,
         PostFails, WaitDone, ReadResult
<1>2. ServedInv'
  BY <1>1, ServedByMove DEF AnswerInv
<1>3. CASE WaitDone
  <2>1. PICK s \in Syncs : parent = [st |-> "waiting", op |-> "sync", arg |-> s]
    BY <1>3, ParentShape DEF WaitDone, TypeInv, TypeOK
  <2>2. parent' = [st |-> "reading", op |-> "sync", arg |-> s]
    BY <1>3, <2>1 DEF WaitDone
  <2>3. execs[s] >= 1
    BY <1>3, <2>1 DEF WaitDone, AnswerInv, WaiterInv
  <2> QED
    BY <1>1, <1>2, <1>3, <2>2, <2>3 DEF WaitDone, AnswerInv, AnswerAfterRun, WaiterInv
<1>4. CASE ReadResult
  <2>1. execs[parent.arg] >= 1
    BY <1>4 DEF ReadResult, AnswerInv, WaiterInv
  <2>2. AnswerAfterRun'
    BY <1>1, <1>4, <2>1 DEF ReadResult, AnswerInv, AnswerAfterRun, TypeInv, TypeOK
  <2> QED
    BY <1>2, <1>4, <2>2 DEF ReadResult, AnswerInv, WaiterInv, Idle
<1>5. CASE PostSync
  <2>1. PICK s \in Syncs : parent = [st |-> "posting", op |-> "sync", arg |-> s]
    BY <1>5, ParentShape DEF PostSync, Posting, TypeInv, TypeOK
  <2>2. parent' = [st |-> "waiting", op |-> "sync", arg |-> s]
    BY <1>5, <2>1 DEF PostSync
  <2>3. isExec'[s]
    BY <1>5, <2>1 DEF PostSync, MarkExec, TypeInv, TypeOK
  <2>4. WaiterInv'
    BY <2>2, <2>3 DEF WaiterInv
  <2> QED
    BY <1>1, <1>2, <1>5, <2>4 DEF PostSync, AnswerInv, AnswerAfterRun
<1>6. CASE ParentFetch
  BY <1>1, <1>2, <1>6 DEF ParentFetch, AnswerInv, AnswerAfterRun, WaiterInv
<1>7. CASE PostScript \/ PostCall \/ PostSend \/ PostFails
  BY <1>1, <1>2, <1>7 DEF PostScript, PostCall, PostSend, Sent, PostFails, AnswerInv,
                          AnswerAfterRun, WaiterInv, Idle
<1> QED
  BY <1>3, <1>4, <1>5, <1>6, <1>7 DEF ParentStep

LEMMA AnswerCallback ==
  ASSUME TypeInv, AnswerInv, CallbackStep
  PROVE  AnswerInv'
<1> USE DEF queueVars, msgVars, listVars, recVars, runVars, askVars
<1>1. frames # <<>> /\ Top \in Frame /\ FrameOK(Top)
  BY TopOK DEF CallbackStep, TakeEvals, EvalStep, ReadMsgs, ClearMsgs, TakeEvent, RunEvent,
         ExecDone, Unlink, Wake, LockFails, At, TypeInv
<1>2. \E d \in 1..Len(frames) : Top = frames[d]
  BY <1>1, TopOK DEF Top, TypeInv
<1>3. Serving(Top) => execs[Top.se] >= 1
  BY <1>2 DEF AnswerInv, ServedInv
<1>4. UNCHANGED result
  BY DEF CallbackStep, TakeEvals, EvalStep, ReadMsgs, ClearMsgs, TakeEvent, RunEvent,
         ExecDone, Unlink, Wake, LockFails
<1>5. CASE RunEvent
  <2> DEFINE f == [Top EXCEPT !.pc = "exec", !.ex = TRUE]
             g == [Top EXCEPT !.pc = "unlink", !.ex = FALSE]
  <2>1. /\ f \in Frame /\ f.se = Top.se /\ f.pc = "exec"
        /\ g \in Frame /\ ~Serving(g)
    BY <1>1 DEF Frame, PCs, Serving
  <2>2. \/ SetTop(f) /\ Top.se \in Syncs
           /\ execs' = [execs EXCEPT ![Top.se] = IF @ < 2 THEN @ + 1 ELSE @]
        \/ SetTop(g) /\ execs' = execs
    BY <1>5 DEF RunEvent
  <2> HIDE DEF f, g
  <2>0. execs \in [Syncs -> 0..2]
    BY DEF TypeInv, TypeOK
  <2>3. \A s \in Syncs : execs[s] >= 1 => execs'[s] >= 1
    <3> TAKE s \in Syncs
    <3>1. execs'[s] = execs[s] \/ execs'[s] = execs[s] + 1
      BY <2>0, <2>2
    <3>2. execs[s] \in 0..2
      BY <2>0
    <3> QED
      BY <3>1, <3>2
  <2>4. SetTop(f) /\ Top.se \in Syncs
           /\ execs' = [execs EXCEPT ![Top.se] = IF @ < 2 THEN @ + 1 ELSE @]
           => execs'[f.se] >= 1
    <3> SUFFICES ASSUME Top.se \in Syncs,
                        execs' = [execs EXCEPT ![Top.se] = IF @ < 2 THEN @ + 1 ELSE @]
                 PROVE  execs'[Top.se] >= 1
      BY <2>1
    <3>1. execs[Top.se] \in 0..2
      BY <2>0
    <3>2. execs'[Top.se] = IF execs[Top.se] < 2 THEN execs[Top.se] + 1 ELSE execs[Top.se]
      BY <2>0
    <3> QED
      BY <3>1, <3>2
  <2>5. ServedInv'
    BY <1>1, <2>1, <2>2, <2>3, <2>4, ServedByStack DEF AnswerInv
  <2>6. AnswerAfterRun'
    BY <1>4, <2>3 DEF AnswerInv, AnswerAfterRun
  <2>7. UNCHANGED <<parent, isExec>>
    BY <1>5 DEF RunEvent
  <2>8. parent.st \in {"waiting", "reading"} => parent.arg \in Syncs
    BY ParentShape DEF TypeInv, TypeOK
  <2>9. WaiterInv'
    BY <2>3, <2>7, <2>8 DEF AnswerInv, WaiterInv
  <2> QED
    BY <2>5, <2>6, <2>9 DEF AnswerInv
<1>6. CASE ~RunEvent
  <2>1. UNCHANGED execs
    BY <1>6 DEF CallbackStep, TakeEvals, EvalStep, ReadMsgs, ClearMsgs, TakeEvent,
           ExecDone, Unlink, Wake, LockFails
  <2>2. AnswerAfterRun'
    BY <1>4, <2>1 DEF AnswerInv, AnswerAfterRun
  <2>3. WaiterInv'
    <3>1. CASE Wake
      <4>1. Top.se \in Syncs /\ Serving(Top)
        BY <1>1, <3>1 DEF Wake, At, FrameOK, Serving
      <4>2. \A s \in Syncs : ~isExec'[s] => s = Top.se \/ ~isExec[s]
        BY <3>1, <4>1 DEF Wake, Release, TypeInv, TypeOK
      <4>3. parent.st = "waiting" => parent.arg \in Syncs
        BY ParentShape DEF TypeInv, TypeOK
      <4> QED
        BY <1>3, <2>1, <3>1, <4>1, <4>2, <4>3 DEF Wake, AnswerInv, WaiterInv
    <3>2. CASE ~Wake
      <4>1. UNCHANGED isExec /\ (parent' = parent \/ parent' = Idle)
        BY <1>6, <3>2 DEF CallbackStep, TakeEvals, EvalStep, ReadMsgs, ClearMsgs, TakeEvent,
               ExecDone, Unlink, LockFails
      <4> QED
        BY <2>1, <4>1 DEF AnswerInv, WaiterInv, Idle
    <3> QED
      BY <3>1, <3>2
  <2>4. ServedInv
    BY DEF AnswerInv
  <2> SUFFICES ServedInv'
    BY <2>2, <2>3 DEF AnswerInv
  <2>5. CASE TakeEvals \/ EvalStep
    <3>1. ASSUME NEW h \in Scripts, NEW t \in Seq(Scripts),
                 SetTop([Top EXCEPT !.pc = "eval", !.cur = h, !.buf = t])
          PROVE  ServedInv'
      <4> DEFINE f == [Top EXCEPT !.pc = "eval", !.cur = h, !.buf = t]
      <4>1. f \in Frame /\ ~Serving(f)
        BY <1>1, TextStep DEF Serving
      <4> HIDE DEF f
      <4>2. SetTop(f)
        BY <3>1 DEF f
      <4> QED
        BY <1>1, <2>1, <2>4, <4>1, <4>2, ServedByStack
    <3>2. ASSUME SetTop([Top EXCEPT !.pc = "msgs", !.buf = <<>>]) PROVE ServedInv'
      <4> DEFINE f == [Top EXCEPT !.pc = "msgs", !.buf = <<>>]
      <4>1. f \in Frame /\ ~Serving(f)
        BY <1>1, EmptySeq DEF Frame, PCs, Serving
      <4> HIDE DEF f
      <4>2. SetTop(f)
        BY <3>2 DEF f
      <4> QED
        BY <1>1, <2>1, <2>4, <4>1, <4>2, ServedByStack
    <3>3. CASE TakeEvals
      <4>1. evalQ # <<>> => Head(evalQ) \in Scripts /\ Tail(evalQ) \in Seq(Scripts)
        BY HeadTailProperties DEF TypeInv, TypeOK
      <4>2. \/ \E pc \in {"msgs", "clear", "events"} : GoTo(pc)
            \/ evalQ # <<>> /\ SetTop([Top EXCEPT !.pc = "eval", !.cur = Head(evalQ),
                                                 !.buf = Tail(evalQ)])
        BY <3>3 DEF TakeEvals, TakeMsgs
      <4> QED
        BY <1>1, <2>1, <2>4, <3>1, <4>1, <4>2, ServedByMove
    <3>4. CASE EvalStep
      <4>1. /\ Top.buf # <<>> => /\ Head(Top.buf) \in Scripts
                                 /\ Tail(Top.buf) \in Seq(Scripts)
            /\ Top.pc = "eval"
        BY <1>1, <3>4, HeadTailProperties DEF Frame, EvalStep, At
      <4>2. \A h, t : [Top EXCEPT !.cur = h, !.buf = t]
                      = [Top EXCEPT !.pc = "eval", !.cur = h, !.buf = t]
        BY <1>1, <4>1 DEF Frame
      <4>3. \/ GoTo("msgs")
            \/ SetTop([Top EXCEPT !.pc = "msgs", !.buf = <<>>])
            \/ Top.buf # <<>>
               /\ SetTop([Top EXCEPT !.cur = Head(Top.buf), !.buf = Tail(Top.buf)])
        BY <3>4 DEF EvalStep
      <4>4. Top.buf # <<>> /\ SetTop([Top EXCEPT !.cur = Head(Top.buf), !.buf = Tail(Top.buf)])
            => ServedInv'
        BY <3>1, <4>1, <4>2
      <4> QED
        BY <1>1, <2>1, <2>4, <3>2, <4>3, <4>4, ServedByMove
    <3> QED
      BY <2>5, <3>3, <3>4
  <2>6. CASE ReadMsgs \/ ClearMsgs
    BY <1>1, <2>1, <2>4, <2>6, ServedByMove DEF ReadMsgs, TakeMsgs, ClearMsgs
  <2>7. CASE TakeEvent \/ Wake
    BY <1>1, <2>1, <2>4, <2>7, ServedByMove DEF TakeEvent, Wake, Frame, TypeInv, TypeOK
  <2>8. CASE ExecDone
    <3> DEFINE f == [Top EXCEPT !.pc = "unlink"]
    <3>1. f \in Frame /\ f.se = Top.se /\ Serving(Top)
      BY <1>1, <2>8 DEF ExecDone, At, Frame, PCs, Serving
    <3>2. SetTop(f)
      BY <2>8 DEF ExecDone, GoTo
    <3> HIDE DEF f
    <3> QED
      BY <1>1, <1>3, <2>1, <2>4, <3>1, <3>2, ServedByStack
  <2>9. CASE Unlink
    <3> DEFINE f == [Top EXCEPT !.pc = "wake", !.nxt = next[Top.se]]
    <3>1. Top.se \in Nodes /\ next[Top.se] \in Nodes \cup {None}
      BY <1>1, <2>9 DEF Unlink, At, FrameOK, TypeInv, TypeOK
    <3>2. f \in Frame /\ f.se = Top.se
      BY <1>1, <3>1 DEF Frame, PCs
    <3>3. (SetTop(f) /\ Serving(Top)) \/ Continue(next[Top.se])
      BY <2>9 DEF Unlink, At, Serving
    <3> HIDE DEF f
    <3> QED
      BY <1>1, <1>3, <2>1, <2>4, <3>1, <3>2, <3>3, ServedByStack, ServedByMove
  <2>10. CASE LockFails
    BY <1>1, <2>1, <2>4, <2>10, ServedByStack DEF LockFails
  <2> QED
    BY <1>6, <2>5, <2>6, <2>7, <2>8, <2>9, <2>10 DEF CallbackStep
<1> QED
  BY <1>5, <1>6

LEMMA AnswerNext ==
  ASSUME TypeInv, AnswerInv, [Next]_vars
  PROVE  AnswerInv'
<1> USE DEF vars, queueVars, msgVars, listVars, recVars, runVars, askVars
<1>1. CASE ParentStep
  BY <1>1, AnswerParent
<1>2. CASE CallbackStep
  BY <1>2, AnswerCallback
<1>3. CASE ChildSend \/ StartPass \/ ThreadEnd \/ UseFreed \/ UNCHANGED vars
  <2>1. UNCHANGED <<execs, parent, result, isExec>>
    BY <1>3 DEF ChildSend, Sent, StartPass, ThreadEnd, UseFreed
  <2>2. AnswerAfterRun' /\ WaiterInv'
    BY <2>1 DEF AnswerInv, AnswerAfterRun, WaiterInv
  <2>3. CASE StartPass
    <3>1. /\ NewFrame \in Frame /\ ~Serving(NewFrame)
          /\ frames' = Append(frames, NewFrame) /\ frames \in Seq(Frame)
      BY <2>3, EmptySeq DEF StartPass, NewFrame, Frame, PCs, Serving, TypeInv, TypeOK
    <3>2. /\ Len(frames') = Len(frames) + 1 /\ Len(frames) \in Nat
          /\ frames'[Len(frames) + 1] = NewFrame
          /\ \A d \in 1..Len(frames) : frames'[d] = frames[d]
      BY <3>1, AppendProperties, LenProperties
    <3>3. \A d \in 1..Len(frames') : d = Len(frames) + 1 \/ d \in 1..Len(frames)
      BY <3>2
    <3> QED
      BY <2>1, <2>2, <3>1, <3>2, <3>3 DEF AnswerInv, ServedInv
  <2>4. CASE ~StartPass
    <3>1. UNCHANGED frames
      BY <1>3, <2>4 DEF ChildSend, Sent, ThreadEnd, UseFreed
    <3> QED
      BY <2>1, <2>2, <3>1, ServedByMove DEF AnswerInv
  <2> QED
    BY <2>3, <2>4
<1> QED
  BY <1>1, <1>2, <1>3 DEF Next

\* The caller of a synchronous eval never gets an answer before its script was
\* evaluated, whatever callbacks nest, whatever locks fail, whatever ends.
THEOREM AnswersFollowRuns == Spec => []AnswerAfterRun
<1>1. Init => TypeInv /\ AnswerInv
  BY TypeInit, AnswerInit
<1>2. (TypeInv /\ AnswerInv) /\ [Next]_vars => (TypeInv /\ AnswerInv)'
  BY TypeNext, AnswerNext
<1>3. TypeInv /\ AnswerInv => AnswerAfterRun
  BY DEF AnswerInv
<1> QED
  BY <1>1, <1>2, <1>3, PTL DEF Spec

\* Both together: what the queues keep of their promise however deep callbacks are nested.
THEOREM EvalsAreServed == Spec => []EvalsServed
BY AtMostOnce, AnswersFollowRuns, PTL DEF EvalsServed

-----------------------------------------------------------------------------
(* The list of records.                                                    *)

\* Every nonempty set of naturals has a least element; so what holds of a natural when
\* it holds of all below it holds of all.
LEMMA Least ==
  ASSUME NEW S, S \subseteq Nat, S # {}
  PROVE  \E x \in S : \A y \in S : x <= y
<1> DEFINE R == OpToRel(<, Nat)
<1>1. \A x, y \in Nat : x < y => <<x, y>> \in R
  BY DEF OpToRel
<1>2. IsWellFoundedOn(R, Nat)
  BY NatLessThanWellFounded
<1> HIDE DEF R
<1>3. PICK x \in S : \A y \in S : ~(<<y, x>> \in R)
  BY <1>2, WFMin
<1>4. \A y \in S : ~(y < x)
  BY <1>1, <1>3
<1> QED
  BY <1>4

Listed(q, n) == \E i \in 1..Len(q) : q[i] = n

\* q is the list that starts at h and goes on along nx, each record in it once.
Links(q, h, nx) ==
  /\ h = IF Len(q) = 0 THEN None ELSE q[1]
  /\ \A i \in 1..Len(q) : nx[q[i]] = IF i < Len(q) THEN q[i + 1] ELSE None
  /\ \A i, j \in 1..Len(q) : q[i] = q[j] => i = j

\* Walk, for any head and any links.
WalkOf(h, nx) == CHOOSE f : f = [i \in Nat |->
                   IF i = 0 THEN h
                   ELSE IF f[i - 1] = None THEN None ELSE nx[f[i - 1]]]

\* The walk passes the records of the list in turn and then stays at None.
LEMMA WalkPasses ==
  ASSUME NEW h, NEW nx, NEW q \in Seq(Nodes), Links(q, h, nx)
  PROVE  \A i \in Nat : WalkOf(h, nx)[i] = IF i < Len(q) THEN q[i + 1] ELSE None
<1> DEFINE g == [i \in Nat |-> IF i < Len(q) THEN q[i + 1] ELSE None]
           step(f) == [i \in Nat |-> IF i = 0 THEN h
                         ELSE IF f[i - 1] = None THEN None ELSE nx[f[i - 1]]]
           w == WalkOf(h, nx)
<1>0. Len(q) \in Nat /\ \A i \in 1..Len(q) : q[i] \in Nodes /\ q[i] # None
  BY LenProperties, ElementOfSeq
<1>1. ASSUME NEW i \in Nat
      PROVE  g[i] = IF i = 0 THEN h
                    ELSE IF g[i - 1] = None THEN None ELSE nx[g[i - 1]]
  <2>1. CASE i = 0
    BY <1>0, <2>1 DEF Links
  <2>2. CASE i # 0 /\ i - 1 < Len(q)
    <3>1. i - 1 \in Nat /\ i \in 1..Len(q) /\ (i - 1) + 1 = i
      BY <1>0, <2>2
    <3>2. g[i - 1] = q[i] /\ g[i - 1] # None
      BY <1>0, <2>2, <3>1
    <3>3. nx[q[i]] = IF i < Len(q) THEN q[i + 1] ELSE None
      BY <3>1 DEF Links
    <3> QED
      BY <2>2, <3>2, <3>3
  <2>3. CASE i # 0 /\ ~(i - 1 < Len(q))
    <3>1. i - 1 \in Nat /\ ~(i < Len(q))
      BY <1>0, <2>3
    <3> QED
      BY <2>3, <3>1
  <2> QED
    BY <2>1, <2>2, <2>3
<1>2. g = step(g)
  BY <1>1
<1>3. w = step(w)
  BY <1>2 DEF WalkOf
<1> HIDE DEF w, g
<1>4. \A i \in Nat : w[i] = g[i]
  <2> DEFINE Wrong == {i \in Nat : w[i] # g[i]}
  <2> SUFFICES ASSUME Wrong # {} PROVE FALSE
    OBVIOUS
  <2>1. PICK i \in Wrong : \A j \in Wrong : i <= j
    BY Least
  <2>2. CASE i = 0
    BY <1>2, <1>3, <2>1, <2>2
  <2>3. CASE i # 0
    <3>1. i - 1 \in Nat /\ w[i - 1] = g[i - 1]
      BY <2>1, <2>3
    <3>2. /\ w[i] = IF w[i - 1] = None THEN None ELSE nx[w[i - 1]]
          /\ g[i] = IF g[i - 1] = None THEN None ELSE nx[g[i - 1]]
      BY <1>2, <1>3, <2>1, <2>3
    <3> QED
      BY <2>1, <3>1, <3>2
  <2> QED
    BY <2>2, <2>3
<1> QED
  BY <1>4 DEF w, g

\* A list without repetition is no longer than there are records, so the walk sees all of it.
LEMMA WalkSees ==
  ASSUME NEW h, NEW nx, NEW q \in Seq(Nodes), Links(q, h, nx)
  PROVE  \A n : n \in {WalkOf(h, nx)[i] : i \in 0..Cardinality(Nodes)} \ {None} <=> Listed(q, n)
<1> DEFINE w == WalkOf(h, nx)
           m == Cardinality(Nodes)
<1>1. \A i \in Nat : w[i] = IF i < Len(q) THEN q[i + 1] ELSE None
  BY WalkPasses
<1>2. Len(q) \in Nat /\ q \in [1..Len(q) -> Nodes]
  BY LenProperties
<1>3. q \in Injection(1..Len(q), Nodes)
  BY <1>2 DEF Links, Injection, IsInjective
<1>4. m \in Nat /\ Len(q) <= m
  BY <1>2, <1>3, FS_Injection, FS_CardinalityType, FS_Interval
<1> HIDE DEF w, m
<1>5. ASSUME NEW n, n \in {w[i] : i \in 0..m} \ {None} PROVE Listed(q, n)
  <2>1. PICK i \in 0..m : n = w[i] /\ n # None
    BY <1>5
  <2>2. i < Len(q) /\ n = q[i + 1]
    BY <1>1, <1>4, <2>1
  <2> QED
    BY <1>2, <1>4, <2>1, <2>2 DEF Listed
<1>6. ASSUME NEW n, Listed(q, n) PROVE n \in {w[i] : i \in 0..m} \ {None}
  <2>1. PICK i \in 1..Len(q) : q[i] = n
    BY <1>6 DEF Listed
  <2>2. n \in Nodes /\ n # None
    BY <1>2, <2>1
  <2>3. i - 1 \in 0..m /\ i - 1 \in Nat /\ i - 1 < Len(q) /\ (i - 1) + 1 = i
    BY <1>2, <1>4, <2>1
  <2>4. w[i - 1] = n
    BY <1>1, <2>1, <2>3
  <2> QED
    BY <2>2, <2>3, <2>4
<1> QED
  BY <1>5, <1>6 DEF w, m

LEMMA ChainSees ==
  ASSUME NEW q \in Seq(Nodes), Links(q, head, next)
  PROVE  \A n : n \in Chain <=> Listed(q, n)
<1>1. Walk = WalkOf(head, next)
  BY DEF Walk, WalkOf
<1>2. Chain = {WalkOf(head, next)[i] : i \in 0..Cardinality(Nodes)} \ {None}
  BY <1>1 DEF Chain
<1> QED
  BY <1>2, WalkSees

\* What is appended becomes the last record.
LEMMA LinkedLast ==
  ASSUME TypeOK, NEW q \in Seq(Nodes), Links(q, head, next), NEW n \in Nodes,
         ~Listed(q, n), next[n] = None, LinkLast(n)
  PROVE  /\ Links(Append(q, n), head', next')
         /\ \A m \in Nodes : m # n /\ ~Listed(q, m) => next'[m] = next[m]
<1> DEFINE a == Append(q, n)
           l == Len(q)
<1>1. /\ l \in Nat /\ a \in Seq(Nodes) /\ Len(a) = l + 1 /\ a[l + 1] = n
      /\ \A i \in 1..l : a[i] = q[i] /\ q[i] \in Nodes /\ q[i] # None /\ q[i] # n
  BY LenProperties, ElementOfSeq, AppendProperties DEF Listed
<1>2. \A i \in 1..Len(a) : i \in 1..l \/ i = l + 1
  BY <1>1
<1>3. \A i, j \in 1..Len(a) : a[i] = a[j] => i = j
  BY <1>1, <1>2 DEF Links
<1> HIDE DEF a
<1>4. CASE l = 0
  <2>1. head' = n /\ next' = next
    BY <1>4 DEF LinkLast, Links
  <2> QED
    BY <1>1, <1>3, <1>4, <2>1 DEF Links, a
<1>5. CASE l # 0
  <2>0. l \in 1..l /\ 1 \in 1..l
    BY <1>1, <1>5
  <2>1. LastNode = q[l]
    <3>1. q[l] \in Chain /\ next[q[l]] = None
      BY <2>0, ChainSees DEF Listed, Links
    <3>2. \A m \in Chain : next[m] = None => m = q[l]
      <4> TAKE m \in Chain
      <4>1. PICK i \in 1..l : q[i] = m
        BY ChainSees DEF Listed
      <4>2. i < l => i + 1 \in 1..l
        BY <1>1, <4>1
      <4> QED
        BY <1>1, <4>1, <4>2 DEF Links
    <3> QED
      BY <3>1, <3>2 DEF LastNode
  <2>2. head' = head /\ next' = [next EXCEPT ![q[l]] = n]
    BY <1>1, <1>5, <2>0, <2>1 DEF LinkLast, Links
  <2>3. /\ next'[q[l]] = n
        /\ \A m \in Nodes : m # q[l] => next'[m] = next[m]
    BY <1>1, <2>0, <2>2 DEF TypeOK
  <2>4. \A i \in 1..Len(a) : next'[a[i]] = IF i < Len(a) THEN a[i + 1] ELSE None
    <3> TAKE i \in 1..Len(a)
    <3>1. CASE i = l + 1
      <4>1. next'[n] = None
        BY <1>1, <2>0, <2>3
      <4> QED
        BY <1>1, <3>1, <4>1
    <3>2. CASE i = l
      BY <1>1, <2>0, <2>3, <3>2
    <3>3. CASE i \in 1..l /\ i # l
      <4>1. i < l /\ i + 1 \in 1..l /\ i < Len(a)
        BY <1>1, <3>3
      <4>2. next'[q[i]] = next[q[i]]
        BY <1>1, <2>0, <2>3, <3>3 DEF Links
      <4> QED
        BY <1>1, <3>3, <4>1, <4>2 DEF Links
    <3> QED
      BY <1>2, <3>1, <3>2, <3>3
  <2>5. head' = a[1] /\ Len(a) # 0
    BY <1>1, <1>5, <2>0, <2>2 DEF Links
  <2>6. \A m \in Nodes : ~Listed(q, m) => next'[m] = next[m]
    BY <2>0, <2>3 DEF Listed
  <2> QED
    BY <1>3, <2>4, <2>5, <2>6 DEF Links, a
<1> QED
  BY <1>4, <1>5

\* What is left when the first record is unlinked.
LEMMA LinksOfRest ==
  ASSUME NEW nx, NEW q \in Seq(Nodes), q # <<>>, NEW h, Links(q, h, nx)
  PROVE  /\ Tail(q) \in Seq(Nodes) /\ Links(Tail(q), nx[q[1]], nx) /\ 1 \in 1..Len(q)
         /\ \A n : Listed(Tail(q), n) <=> Listed(q, n) /\ n # q[1]
<1> DEFINE t == Tail(q)
           l == Len(q)
<1>1. /\ l \in Nat /\ 1 \in 1..l /\ t \in Seq(Nodes) /\ Len(t) = l - 1
      /\ \A i \in 1..Len(t) : t[i] = q[i + 1]
  BY HeadTailProperties, LenProperties, EmptySeq
<1> HIDE DEF t
<1>2. \A i \in 1..Len(t) : i + 1 \in 1..l /\ i + 1 # 1
  BY <1>1
<1>3. Links(t, nx[q[1]], nx)
  <2>1. nx[q[1]] = IF Len(t) = 0 THEN None ELSE t[1]
    BY <1>1 DEF Links
  <2>2. \A i \in 1..Len(t) : nx[t[i]] = IF i < Len(t) THEN t[i + 1] ELSE None
    <3> TAKE i \in 1..Len(t)
    <3>1. nx[q[i + 1]] = IF i + 1 < l THEN q[(i + 1) + 1] ELSE None
      BY <1>2 DEF Links
    <3>2. i < Len(t) <=> i + 1 < l
      BY <1>1
    <3>3. i < Len(t) => i + 1 \in 1..Len(t)
      BY <1>1
    <3> QED
      BY <1>1, <3>1, <3>2, <3>3
  <2>3. \A i, j \in 1..Len(t) : t[i] = t[j] => i = j
    BY <1>1, <1>2 DEF Links
  <2> QED
    BY <2>1, <2>2, <2>3 DEF Links
<1>4. ASSUME NEW n PROVE Listed(t, n) <=> Listed(q, n) /\ n # q[1]
  <2>1. ASSUME Listed(t, n) PROVE Listed(q, n) /\ n # q[1]
    <3>1. PICK i \in 1..Len(t) : t[i] = n
      BY <2>1 DEF Listed
    <3> QED
      BY <1>1, <1>2, <3>1 DEF Listed, Links
  <2>2. ASSUME Listed(q, n), n # q[1] PROVE Listed(t, n)
    <3>1. PICK i \in 1..l : q[i] = n
      BY <2>2 DEF Listed
    <3>2. i - 1 \in 1..Len(t) /\ (i - 1) + 1 = i
      BY <1>1, <2>2, <3>1
    <3>3. t[i - 1] = n
      BY <1>1, <3>1, <3>2
    <3> QED
      BY <3>2, <3>3 DEF Listed
  <2> QED
    BY <2>1, <2>2
<1> QED
  BY <1>1, <1>3, <1>4 DEF t

\* The innermost callback works on the first record, until it has unlinked it; the next
\* record it remembers is the first one then.
CallbackInv(q) == frames # <<>> =>
  /\ Top.pc \in {"event", "exec", "unlink"} => Len(q) # 0 /\ Top.se = q[1]
  /\ Top.pc = "exec" => Top.ex = TRUE
  /\ Top.pc = "unlink" => ((Top.ex = TRUE) <=> (Top.se \in Syncs))
  /\ Top.pc = "wake" => /\ isExec[Top.se] = TRUE /\ ~Listed(q, Top.se)
                        /\ Top.nxt # None => Len(q) # 0 /\ Top.nxt = q[1]

\* The records on the list are live, and every call that is live is on it.
RecordsInv(q) ==
  /\ Links(q, head, next)
  /\ \A i \in 1..Len(q) : heap[q[i]] = "live"
  /\ \A s \in Syncs : Listed(q, s) => isExec[s] = TRUE
  /\ \A c \in Calls : heap[c] = "live" => Listed(q, c)
  /\ \A n \in Nodes : heap[n] = "none" => next[n] = None

\* A waiter waits for a record on the list or one whose waiter is released next.
ExecInv(q) == \A s \in Syncs : isExec[s] = TRUE =>
  Listed(q, s) \/ (frames # <<>> /\ Top.pc = "wake" /\ Top.se = s)

\* One thread asks: it waits for at most one record, which it frees itself.
CallerInv ==
  /\ \A s \in Syncs : isExec[s] = TRUE => parent.st = "waiting" /\ parent.arg = s
  /\ parent.st = "waiting" => heap[parent.arg] = "live"
  /\ parent.st = "posting" /\ parent.op \in {"sync", "call"} => heap[parent.arg] = "none"

ListInv == CallerInv /\ \E q \in Seq(Nodes) : RecordsInv(q) /\ CallbackInv(q) /\ ExecInv(q)

LEMMA ListInvSound == TypeInv /\ ListInv => ListSound
<1> SUFFICES ASSUME TypeInv, ListInv PROVE ListSound
  OBVIOUS
<1>1. PICK q \in Seq(Nodes) : RecordsInv(q) /\ CallbackInv(q) /\ ExecInv(q)
  BY DEF ListInv
<1>2. \A n : n \in Chain <=> Listed(q, n)
  BY <1>1, ChainSees DEF RecordsInv
<1>3. frames # <<>> => Len(frames) \in DOMAIN frames
  BY TopOK, LenProperties DEF TypeInv, TypeOK
<1>4. \A s \in Syncs : isExec[s] = isExec[s] /\ (isExec[s] => isExec[s] = TRUE)
  BY DEF TypeInv, TypeOK
<1>5. \A n \in Chain : heap[n] = "live"
  BY <1>1, <1>2 DEF RecordsInv, Listed
<1>6. \A c \in Calls : heap[c] = "live" => c \in Chain
  BY <1>1, <1>2 DEF RecordsInv
<1>7. \A s \in Syncs : isExec[s] =>
        s \in Chain \/ \E i \in DOMAIN frames : frames[i].pc = "wake" /\ frames[i].se = s
  BY <1>1, <1>2, <1>3, <1>4 DEF ExecInv, Top
<1> QED
  BY <1>5, <1>6, <1>7 DEF ListSound

LEMMA ListInit == Init => ListInv
<1> SUFFICES ASSUME Init PROVE ListInv
  OBVIOUS
<1>1. /\ <<>> \in Seq(Nodes) /\ Len(<<>>) = 0
  BY EmptySeq
<1>2. ~\E n : Listed(<<>>, n)
  BY <1>1 DEF Listed
<1>3. RecordsInv(<<>>)
  BY <1>1, <1>2 DEF Init, RecordsInv, Links
<1>4. CallbackInv(<<>>) /\ ExecInv(<<>>)
  BY DEF Init, CallbackInv, ExecInv
<1>5. CallerInv
  BY DEF Init, CallerInv, Idle
<1> QED
  BY <1>1, <1>3, <1>4, <1>5 DEF ListInv

\* Where callbacks do not nest, the stack is empty or the innermost activation.
LEMMA OneCallback ==
  ASSUME MaxDepth = 1, TypeInv
  PROVE  /\ frames # <<>> => Len(frames) = 1 /\ Top \in Frame /\ FrameOK(Top)
         /\ \A f \in Frame : frames # <<>> /\ SetTop(f) => frames' # <<>> /\ Top' = f
         /\ frames # <<>> /\ Return => frames' = <<>>
<1>1. frames # <<>> => Len(frames) = 1 /\ Top \in Frame /\ FrameOK(Top)
  BY TopOK DEF TypeInv
<1>2. ASSUME NEW f \in Frame, frames # <<>>, SetTop(f) PROVE frames' # <<>> /\ Top' = f
  <2>1. /\ frames' \in Seq(Frame) /\ Len(frames') = Len(frames) /\ frames'[Len(frames)] = f
    BY <1>2, SetTopStep DEF TypeInv
  <2> QED
    BY <1>1, <1>2, <2>1, EmptySeq DEF Top
<1>3. ASSUME frames # <<>>, Return PROVE frames' = <<>>
  <2>1. frames' \in Seq(Frame) /\ Len(frames') = 0
    BY <1>1, <1>3, ReturnStep DEF TypeInv
  <2> QED
    BY <2>1, EmptySeq
<1> QED
  BY <1>1, <1>2, <1>3

\* A step that leaves the list and the records alone and whose callback, if there is one
\* afterwards, works on no record.
LEMMA ListIdle ==
  ASSUME TypeInv, ListInv, UNCHANGED <<head, next, heap, isExec>>, CallerInv',
         \/ UNCHANGED frames
         \/ /\ frames = <<>> \/ Top.pc # "wake"
            /\ frames' = <<>> \/ Top'.pc \notin {"event", "exec", "unlink", "wake"}
  PROVE  ListInv'
<1>1. PICK q \in Seq(Nodes) : RecordsInv(q) /\ CallbackInv(q) /\ ExecInv(q)
  BY DEF ListInv
<1>2. RecordsInv(q)'
  BY <1>1 DEF RecordsInv
<1>3. CASE UNCHANGED frames
  <2>1. Top' = Top
    BY <1>3 DEF Top
  <2> QED
    BY <1>1, <1>2, <1>3, <2>1 DEF ListInv, CallbackInv, ExecInv
<1>4. CASE /\ frames = <<>> \/ Top.pc # "wake"
           /\ frames' = <<>> \/ Top'.pc \notin {"event", "exec", "unlink", "wake"}
  BY <1>1, <1>2, <1>4 DEF ListInv, CallbackInv, ExecInv
<1> QED
  BY <1>3, <1>4

\* A new record is appended to the list.
LEMMA ListLonger ==
  ASSUME MaxDepth = 1, TypeInv, ListInv, NEW n \in Nodes, heap[n] = "none",
         parent.st = "posting", NewRecord(n), UNCHANGED frames, CallerInv',
         \A s \in Syncs : isExec'[s] = IF s = n THEN TRUE ELSE isExec[s]
  PROVE  ListInv'
<1>1. PICK q \in Seq(Nodes) : RecordsInv(q) /\ CallbackInv(q) /\ ExecInv(q)
  BY DEF ListInv
<1>2. ~Listed(q, n) /\ next[n] = None
  BY <1>1 DEF RecordsInv, Listed
<1>3. \A s \in Syncs : isExec[s] = FALSE
  BY DEF ListInv, CallerInv
<1> DEFINE a == Append(q, n)
<1>4. Links(a, head', next') /\ \A m \in Nodes : m # n /\ ~Listed(q, m) => next'[m] = next[m]
  <2>1. TypeOK /\ Links(q, head, next) /\ LinkLast(n)
    BY <1>1 DEF TypeInv, RecordsInv, NewRecord
  <2> QED
    BY <1>2, <2>1, LinkedLast
<1> USE DEF TypeInv, TypeOK
<1>5. /\ a \in Seq(Nodes) /\ Len(q) \in Nat /\ Len(a) = Len(q) + 1 /\ a[Len(q) + 1] = n
      /\ \A i \in 1..Len(q) : a[i] = q[i]
  BY AppendProperties, LenProperties
<1> HIDE DEF a
<1>6. \A m : Listed(a, m) <=> Listed(q, m) \/ m = n
  <2>1. \A i \in 1..Len(a) : i \in 1..Len(q) \/ i = Len(q) + 1
    BY <1>5
  <2>2. \A i \in 1..Len(q) : i \in 1..Len(a)
    BY <1>5
  <2>3. Len(q) + 1 \in 1..Len(a)
    BY <1>5
  <2> QED
    BY <1>5, <2>1, <2>2, <2>3 DEF Listed
<1>7. heap' = [heap EXCEPT ![n] = "live"]
  BY DEF NewRecord
<1>8. RecordsInv(a)'
  <2>1. \A i \in 1..Len(a) : heap'[a[i]] = "live"
    <3>1. \A m : Listed(q, m) => m \in Nodes /\ heap[m] = "live"
      BY <1>1, ElementOfSeq DEF RecordsInv, Listed
    <3>2. \A i \in 1..Len(a) : Listed(a, a[i])
      BY DEF Listed
    <3> QED
      BY <1>6, <1>7, <3>1, <3>2
  <2>2. \A s \in Syncs : Listed(a, s) => isExec'[s] = TRUE
    BY <1>1, <1>6 DEF RecordsInv
  <2>3. \A c \in Calls : heap'[c] = "live" => Listed(a, c)
    BY <1>1, <1>6, <1>7 DEF RecordsInv
  <2>4. \A m \in Nodes : heap'[m] = "none" => next'[m] = None
    <3> SUFFICES ASSUME NEW m \in Nodes, heap'[m] = "none" PROVE next'[m] = None
      OBVIOUS
    <3>1. m # n /\ heap[m] = "none"
      BY <1>7
    <3>2. ~Listed(q, m)
      BY <1>1, <3>1 DEF RecordsInv, Listed
    <3> QED
      BY <1>1, <1>4, <3>1, <3>2 DEF RecordsInv
  <2> QED
    BY <1>4, <2>1, <2>2, <2>3, <2>4 DEF RecordsInv
<1>9. Top' = Top
  BY DEF Top
<1>10. frames # <<>> => Top.pc # "wake"
  BY <1>1, <1>3, OneCallback DEF CallbackInv, FrameOK
<1>11. Len(q) # 0 => Len(a) # 0 /\ a[1] = q[1]
  BY <1>5
<1>12. CallbackInv(a)'
  BY <1>1, <1>9, <1>10, <1>11 DEF CallbackInv
<1>13. ExecInv(a)'
  BY <1>1, <1>3, <1>6 DEF ExecInv
<1> QED
  BY <1>5, <1>8, <1>12, <1>13 DEF ListInv

LEMMA ListParent ==
  ASSUME MaxDepth = 1, TypeInv, ListInv, ParentStep
  PROVE  ListInv'
<1> USE DEF queueVars, msgVars, listVars, recVars, runVars, askVars
<1>0. /\ heap \in [Nodes -> {"none", "live", "freed"}] /\ isExec \in [Syncs -> BOOLEAN]
      /\ parent \in Asking /\ CallerInv
  BY DEF TypeInv, TypeOK, ListInv
<1>1. UNCHANGED frames
  BY DEF ParentStep, ParentFetch, PostScript, PostSync, PostCall, PostSend, Sent,
         PostFails, WaitDone, ReadResult
<1>2. CASE ParentFetch
  <2>1. UNCHANGED <<head, next, heap, isExec>>
    BY <1>2 DEF ParentFetch
  <2>2. parent = Idle /\ ~\E s \in Syncs : isExec[s] = TRUE
    BY <1>0, <1>2 DEF ParentFetch, CallerInv, Idle
  <2>3. CASE parent' = Idle
    BY <1>1, <2>1, <2>2, <2>3, ListIdle DEF CallerInv, Idle
  <2>4. CASE \E r \in Requests : parent' = [st |-> "posting", op |-> r.op, arg |-> r.arg]
    <3>1. PICK r \in Requests : parent' = [st |-> "posting", op |-> r.op, arg |-> r.arg]
      BY <2>4
    <3>2. r.op \in {"sync", "call"} => heap[r.arg] = "none"
      BY <3>1 DEF Requests
    <3>3. CallerInv'
      BY <2>1, <2>2, <3>1, <3>2 DEF CallerInv
    <3> QED
      BY <1>1, <2>1, <3>3, ListIdle
  <2> QED
    BY <1>2, <2>2, <2>3, <2>4 DEF ParentFetch
<1>3. CASE PostScript \/ PostSend \/ PostFails \/ ReadResult
  <2>1. UNCHANGED <<head, next, heap, isExec>> /\ parent' = Idle
        /\ parent.st \in {"posting", "reading"}
    BY <1>3 DEF PostScript, PostSend, Sent, PostFails, ReadResult, Posting
  <2>2. CallerInv'
    BY <1>0, <2>1 DEF CallerInv, Idle
  <2> QED
    BY <1>1, <2>1, <2>2, ListIdle
<1>4. CASE PostSync
  <2>1. PICK s \in Syncs : parent = [st |-> "posting", op |-> "sync", arg |-> s]
    BY <1>0, <1>4, ParentShape DEF PostSync, Posting
  <2>2. parent' = [st |-> "waiting", op |-> "sync", arg |-> s]
    BY <1>4, <2>1 DEF PostSync
  <2>3. /\ isExec' = [isExec EXCEPT ![s] = TRUE] /\ NewRecord(s)
        /\ heap' = [heap EXCEPT ![s] = "live"]
    BY <1>4, <2>1 DEF PostSync, MarkExec, NewRecord
  <2>4. /\ heap[s] = "none" /\ heap'[s] = "live"
        /\ \A t \in Syncs : isExec'[t] = IF t = s THEN TRUE ELSE isExec[t]
    BY <1>0, <2>1, <2>3 DEF CallerInv
  <2>5. \A t \in Syncs : isExec[t] # TRUE
    BY <1>0, <2>1 DEF CallerInv
  <2>6. CallerInv'
    BY <2>2, <2>4, <2>5 DEF CallerInv
  <2> QED
    BY <1>1, <2>1, <2>3, <2>4, <2>6, ListLonger
<1>5. CASE PostCall
  <2>1. /\ parent.st = "posting" /\ parent.op = "call" /\ parent.arg \in Calls
        /\ parent' = Idle /\ NewRecord(parent.arg) /\ UNCHANGED isExec
    BY <1>0, <1>5, ParentShape DEF PostCall, Posting
  <2>2. heap[parent.arg] = "none"
    BY <1>0, <2>1 DEF CallerInv
  <2>3. CallerInv'
    BY <1>0, <2>1 DEF CallerInv, Idle
  <2>4. \A s \in Syncs : isExec'[s] = IF s = parent.arg THEN TRUE ELSE isExec[s]
    BY <2>1
  <2> QED
    BY <1>1, <2>1, <2>2, <2>3, <2>4, ListLonger
<1>6. CASE WaitDone
  <2>1. PICK s \in Syncs : parent = [st |-> "waiting", op |-> "sync", arg |-> s]
    BY <1>0, <1>6, ParentShape DEF WaitDone
  <2>2. parent' = [st |-> "reading", op |-> "sync", arg |-> s]
    BY <1>6, <2>1 DEF WaitDone
  <2>3. /\ UNCHANGED <<head, next, isExec>> /\ isExec[s] # TRUE
        /\ heap' = [heap EXCEPT ![s] = "freed"]
    BY <1>6, <2>1 DEF WaitDone
  <2>4. CallerInv'
    BY <1>0, <2>1, <2>2, <2>3 DEF CallerInv
  <2>5. PICK q \in Seq(Nodes) : RecordsInv(q) /\ CallbackInv(q) /\ ExecInv(q)
    BY DEF ListInv
  <2>6. ~Listed(q, s)
    BY <2>3, <2>5 DEF RecordsInv
  <2>7. \A i \in 1..Len(q) : q[i] \in Nodes /\ q[i] # s
    BY <2>6, ElementOfSeq DEF Listed
  <2>8. RecordsInv(q)'
    <3>1. \A i \in 1..Len(q) : heap'[q[i]] = "live"
      BY <1>0, <2>3, <2>5, <2>7 DEF RecordsInv
    <3>2. \A n \in Nodes : heap'[n] \in {"live", "none"} => heap'[n] = heap[n]
      BY <1>0, <2>3
    <3> QED
      BY <2>3, <2>5, <3>1, <3>2 DEF RecordsInv
  <2>9. Top' = Top
    BY <1>1 DEF Top
  <2>10. CallbackInv(q)' /\ ExecInv(q)'
    BY <1>1, <2>3, <2>5, <2>9 DEF CallbackInv, ExecInv
  <2> QED
    BY <2>4, <2>8, <2>10 DEF ListInv
<1> QED
  BY <1>2, <1>3, <1>4, <1>5, <1>6 DEF ParentStep

\* Going on with the first record of what is left, or leaving.
LEMMA ListContinue ==
  ASSUME MaxDepth = 1, TypeInv, frames # <<>>, NEW q \in Seq(Nodes),
         NEW n, n = None \/ (Len(q) # 0 /\ n = q[1]), Continue(n)
  PROVE  CallbackInv(q)' /\ (frames' = <<>> \/ Top'.pc = "event")
<1>1. CASE n = None
  <2>1. frames' = <<>>
    BY <1>1, OneCallback DEF Continue
  <2> QED
    BY <2>1 DEF CallbackInv
<1>2. CASE n # None
  <2>0. Len(q) # 0 /\ n = q[1] /\ n \in Nodes
    BY <1>2, ElementOfSeq, LenProperties
  <2> DEFINE f == [Top EXCEPT !.pc = "event", !.se = n, !.nxt = None]
  <2>1. f \in Frame /\ f.pc = "event" /\ f.se = n
    BY <2>0, OneCallback DEF Frame, PCs
  <2> HIDE DEF f
  <2>2. SetTop(f)
    BY <1>2 DEF Continue, f
  <2>3. frames' # <<>> /\ Top' = f
    BY <2>1, <2>2, OneCallback
  <2> QED
    BY <2>0, <2>1, <2>3 DEF CallbackInv
<1> QED
  BY <1>1, <1>2

LEMMA ListCallback ==
  ASSUME MaxDepth = 1, TypeInv, ListInv, CallbackStep
  PROVE  ListInv'
<1> USE DEF queueVars, msgVars, listVars, recVars, runVars, askVars
<1>0. /\ heap \in [Nodes -> {"none", "live", "freed"}] /\ isExec \in [Syncs -> BOOLEAN]
      /\ next \in [Nodes -> Nodes \cup {None}] /\ parent \in Asking /\ CallerInv
  BY DEF TypeInv, TypeOK, ListInv
<1>1. frames # <<>> /\ Top \in Frame /\ FrameOK(Top)
  BY OneCallback DEF CallbackStep, TakeEvals, EvalStep, ReadMsgs, ClearMsgs, TakeEvent, RunEvent,
         ExecDone, Unlink, Wake, LockFails, At
<1>2. PICK q \in Seq(Nodes) : RecordsInv(q) /\ CallbackInv(q) /\ ExecInv(q)
  BY DEF ListInv
<1>q. Len(q) \in Nat /\ \A i \in 1..Len(q) : q[i] \in Nodes /\ q[i] # None
  BY ElementOfSeq, LenProperties
<1>3. ASSUME NEW pc \in {"msgs", "clear", "events"}, GoTo(pc)
      PROVE  Top'.pc = pc
  <2> DEFINE f == [Top EXCEPT !.pc = pc]
  <2>1. f \in Frame /\ f.pc = pc
    BY <1>1 DEF Frame, PCs
  <2> HIDE DEF f
  <2>2. SetTop(f)
    BY <1>3 DEF GoTo, f
  <2> QED
    BY <1>1, <2>1, <2>2, OneCallback
<1>4. CASE TakeEvals \/ EvalStep \/ ReadMsgs \/ ClearMsgs
  <2>1. /\ UNCHANGED <<head, next, heap, isExec>>
        /\ parent' = parent \/ (parent' = Idle /\ parent.st = "posting")
    BY <1>4 DEF TakeEvals, EvalStep, ReadMsgs, ClearMsgs, Posting
  <2>2. CallerInv'
    BY <1>0, <2>1 DEF CallerInv, Idle
  <2>3. Top.pc # "wake"
    BY <1>4 DEF TakeEvals, EvalStep, ReadMsgs, ClearMsgs, At
  <2>4. ASSUME NEW h \in Scripts, NEW t \in Seq(Scripts),
               SetTop([Top EXCEPT !.pc = "eval", !.cur = h, !.buf = t])
        PROVE  Top'.pc = "eval"
    <3> DEFINE f == [Top EXCEPT !.pc = "eval", !.cur = h, !.buf = t]
    <3>1. f \in Frame /\ f.pc = "eval"
      <4>1. h \in 0..NumScripts /\ "eval" \in PCs
        BY DEF PCs
      <4> QED
        BY <1>1, <4>1 DEF Frame
    <3> HIDE DEF f
    <3>2. SetTop(f)
      BY <2>4 DEF f
    <3> QED
      BY <1>1, <3>1, <3>2, OneCallback
  <2>5. CASE TakeEvals \/ ReadMsgs \/ ClearMsgs
    <3>1. evalQ # <<>> => Head(evalQ) \in Scripts /\ Tail(evalQ) \in Seq(Scripts)
      BY HeadTailProperties DEF TypeInv, TypeOK
    <3>2. \/ \E pc \in {"msgs", "clear", "events"} : GoTo(pc)
          \/ evalQ # <<>> /\ SetTop([Top EXCEPT !.pc = "eval", !.cur = Head(evalQ),
                                                !.buf = Tail(evalQ)])
      BY <2>5 DEF TakeEvals, ReadMsgs, ClearMsgs, TakeMsgs
    <3>3. Top'.pc \in {"msgs", "clear", "events", "eval"}
      BY <1>3, <2>4, <3>1, <3>2
    <3> QED
      BY <2>1, <2>2, <2>3, <3>3, ListIdle
  <2>6. CASE EvalStep
    <3>1. /\ Top.buf # <<>> => /\ Head(Top.buf) \in Scripts
                               /\ Tail(Top.buf) \in Seq(Scripts)
          /\ Top.pc = "eval"
      BY <1>1, <2>6, HeadTailProperties DEF Frame, EvalStep, At
    <3>2. \A h, t : [Top EXCEPT !.cur = h, !.buf = t]
                    = [Top EXCEPT !.pc = "eval", !.cur = h, !.buf = t]
      BY <1>1, <3>1 DEF Frame
    <3>3. \/ GoTo("msgs")
          \/ SetTop([Top EXCEPT !.pc = "msgs", !.buf = <<>>])
          \/ Top.buf # <<>>
             /\ SetTop([Top EXCEPT !.cur = Head(Top.buf), !.buf = Tail(Top.buf)])
      BY <2>6 DEF EvalStep
    <3>4. ASSUME SetTop([Top EXCEPT !.pc = "msgs", !.buf = <<>>]) PROVE Top'.pc = "msgs"
      <4> DEFINE f == [Top EXCEPT !.pc = "msgs", !.buf = <<>>]
      <4>1. f \in Frame /\ f.pc = "msgs"
        BY <1>1, EmptySeq DEF Frame, PCs
      <4> HIDE DEF f
      <4>2. SetTop(f)
        BY <3>4 DEF f
      <4> QED
        BY <1>1, <4>1, <4>2, OneCallback
    <3>5. Top'.pc \in {"msgs", "eval"}
      BY <1>3, <2>4, <3>1, <3>2, <3>3, <3>4
    <3> QED
      BY <2>1, <2>2, <2>3, <3>5, ListIdle
  <2> QED
    BY <1>4, <2>5, <2>6
<1>5. CASE TakeEvent
  <2>1. UNCHANGED <<head, next, heap, isExec, parent>> /\ Continue(head) /\ Top.pc = "events"
    BY <1>5 DEF TakeEvent, At
  <2>2. head = None \/ (Len(q) # 0 /\ head = q[1])
    BY <1>2 DEF RecordsInv, Links
  <2>3. CallbackInv(q)'
    BY <1>1, <2>1, <2>2, ListContinue
  <2>4. RecordsInv(q)' /\ ExecInv(q)' /\ CallerInv'
    BY <1>0, <1>2, <2>1 DEF RecordsInv, ExecInv, CallerInv
  <2> QED
    BY <2>3, <2>4 DEF ListInv
<1>6. CASE RunEvent
  <2>1. UNCHANGED <<head, next, heap, isExec, parent>> /\ Top.pc = "event"
    BY <1>6 DEF RunEvent, At
  <2>2. Len(q) # 0 /\ Top.se = q[1] /\ Listed(q, Top.se)
    BY <1>1, <1>2, <1>q, <2>1 DEF CallbackInv, Listed
  <2> DEFINE f == [Top EXCEPT !.pc = "exec", !.ex = TRUE]
             g == [Top EXCEPT !.pc = "unlink", !.ex = FALSE]
  <2>3. /\ f \in Frame /\ f.se = Top.se /\ f.pc = "exec" /\ f.ex = TRUE
        /\ g \in Frame /\ g.se = Top.se /\ g.pc = "unlink" /\ g.ex = FALSE
    BY <1>1 DEF Frame, PCs
  <2>4. SetTop(f) \/ (SetTop(g) /\ Top.se \notin Syncs)
    <3>1. Top.se \in Syncs => isExec[Top.se]
      BY <1>2, <2>2 DEF RecordsInv
    <3> QED
      BY <1>6, <3>1 DEF RunEvent
  <2> HIDE DEF f, g
  <2>5. Top' = f \/ (Top' = g /\ Top.se \notin Syncs)
    BY <1>1, <2>3, <2>4, OneCallback
  <2>6. CallbackInv(q)'
    BY <2>2, <2>3, <2>5 DEF CallbackInv
  <2>7. RecordsInv(q)' /\ ExecInv(q)' /\ CallerInv'
    BY <1>0, <1>2, <2>1 DEF RecordsInv, ExecInv, CallerInv
  <2> QED
    BY <2>6, <2>7 DEF ListInv
<1>7. CASE ExecDone
  <2>1. UNCHANGED <<head, next, heap, isExec, parent>> /\ Top.pc = "exec" /\ GoTo("unlink")
    BY <1>7 DEF ExecDone, At
  <2>2. Len(q) # 0 /\ Top.se = q[1] /\ Top.ex = TRUE /\ Top.se \in Syncs
    BY <1>1, <1>2, <2>1 DEF CallbackInv, FrameOK
  <2> DEFINE f == [Top EXCEPT !.pc = "unlink"]
  <2>3. f \in Frame /\ f.se = Top.se /\ f.pc = "unlink" /\ f.ex = Top.ex
    BY <1>1 DEF Frame, PCs
  <2>4. SetTop(f)
    BY <2>1 DEF GoTo
  <2> HIDE DEF f
  <2>5. Top' = f
    BY <1>1, <2>3, <2>4, OneCallback
  <2>6. CallbackInv(q)'
    BY <2>2, <2>3, <2>5 DEF CallbackInv
  <2>7. RecordsInv(q)' /\ ExecInv(q)' /\ CallerInv'
    BY <1>0, <1>2, <2>1 DEF RecordsInv, ExecInv, CallerInv
  <2> QED
    BY <2>6, <2>7 DEF ListInv
<1>8. CASE Unlink
  <2> DEFINE t == Tail(q)
             nx == next[Top.se]
  <2>0. Top.pc = "unlink" /\ UNCHANGED <<next, isExec, parent>>
    BY <1>8 DEF Unlink, At
  <2>1. Len(q) # 0 /\ Top.se = q[1] /\ ((Top.ex = TRUE) <=> (Top.se \in Syncs)) /\ Top.se \in Nodes
    BY <1>1, <1>2, <2>0 DEF CallbackInv, FrameOK
  <2>2. q # <<>> /\ Links(q, head, next)
    BY <1>2, <2>1, EmptySeq DEF RecordsInv
  <2>3. /\ t \in Seq(Nodes) /\ Links(t, nx, next)
        /\ \A n : Listed(t, n) <=> Listed(q, n) /\ n # Top.se
    BY <2>1, <2>2, LinksOfRest
  <2>4. head' = nx
    BY <1>8 DEF Unlink
  <2>5. nx = None \/ (Len(t) # 0 /\ nx = t[1])
    BY <2>3 DEF Links
  <2>6. \A i \in 1..Len(t) : Listed(t, t[i])
    BY DEF Listed
  <2>7. \A n : Listed(q, n) => n \in Nodes /\ heap[n] = "live"
    BY <1>2, <1>q DEF RecordsInv, Listed
  <2>8. nx \in Nodes \cup {None}
    BY <1>0, <2>1
  <2> HIDE DEF t
  <2>9. CASE Top.ex = TRUE
    <3> DEFINE f == [Top EXCEPT !.pc = "wake", !.nxt = nx]
    <3>1. f \in Frame /\ f.se = Top.se /\ f.pc = "wake" /\ f.nxt = nx
      BY <1>1, <2>8 DEF Frame, PCs
    <3>2. SetTop(f) /\ UNCHANGED heap
      BY <1>8, <2>9 DEF Unlink, FreeServed
    <3> HIDE DEF f, nx
    <3>3. Top' = f /\ frames' # <<>>
      BY <1>1, <3>1, <3>2, OneCallback
    <3>4. Top.se \in Syncs /\ Listed(q, Top.se)
      BY <1>q, <2>1, <2>9 DEF Listed
    <3>5. isExec[Top.se] = TRUE
      BY <1>2, <3>4 DEF RecordsInv
    <3>6. RecordsInv(t)'
      <4>1. \A i \in 1..Len(t) : heap[t[i]] = "live"
        BY <2>3, <2>6, <2>7
      <4>2. \A c \in Calls : heap[c] = "live" => Listed(t, c)
        BY <1>2, <2>3, <3>4 DEF RecordsInv
      <4>3. \A s \in Syncs : Listed(t, s) => isExec[s] = TRUE
        BY <1>2, <2>3 DEF RecordsInv
      <4> QED
        BY <1>2, <2>0, <2>3, <2>4, <3>2, <4>1, <4>2, <4>3 DEF RecordsInv
    <3>7. CallbackInv(t)'
      BY <2>0, <2>3, <2>5, <3>1, <3>3, <3>5 DEF CallbackInv
    <3>8. ExecInv(t)'
      BY <1>2, <2>0, <2>3, <3>1, <3>3 DEF ExecInv
    <3>9. CallerInv'
      BY <1>0, <2>0, <3>2 DEF CallerInv
    <3> QED
      BY <2>3, <3>6, <3>7, <3>8, <3>9 DEF ListInv
  <2>10. CASE Top.ex # TRUE
    <3>0. Top.ex = FALSE
      BY <1>1, <2>10 DEF Frame
    <3>1. Top.se \in Calls /\ Top.se \notin Syncs
      BY <2>1, <3>0
    <3>2. heap' = [heap EXCEPT ![Top.se] = "freed"] /\ Continue(nx)
      BY <1>8, <3>0 DEF Unlink, FreeServed
    <3> HIDE DEF nx
    <3>3. CallbackInv(t)' /\ (frames' = <<>> \/ Top'.pc = "event")
      BY <1>1, <2>3, <2>5, <3>2, ListContinue
    <3>4. RecordsInv(t)'
      <4>1. \A i \in 1..Len(t) : heap'[t[i]] = "live"
        BY <1>0, <2>3, <2>6, <2>7, <3>2
      <4>2. \A c \in Calls : heap'[c] = "live" => Listed(t, c)
        BY <1>0, <1>2, <2>1, <2>3, <3>2 DEF RecordsInv
      <4>3. \A s \in Syncs : Listed(t, s) => isExec[s] = TRUE
        BY <1>2, <2>3 DEF RecordsInv
      <4>4. \A n \in Nodes : heap'[n] = "none" => heap[n] = "none"
        BY <1>0, <2>1, <3>2
      <4> QED
        BY <1>2, <2>0, <2>3, <2>4, <4>1, <4>2, <4>3, <4>4 DEF RecordsInv
    <3>5. ExecInv(t)'
      BY <1>2, <2>0, <2>3, <3>1, <3>3 DEF ExecInv
    <3>6. CallerInv'
      <4>1. parent.st = "waiting" => parent.arg \in Syncs
        BY <1>0, ParentShape
      <4>2. \A n \in Nodes : n # Top.se => heap'[n] = heap[n]
        BY <1>0, <3>2
      <4>3. parent.st = "posting" /\ parent.op \in {"sync", "call"} => parent.arg \in Nodes
        BY <1>0, ParentShape
      <4>4. heap[Top.se] = "live"
        BY <1>8 DEF Unlink
      <4> QED
        BY <1>0, <2>0, <3>1, <4>1, <4>2, <4>3, <4>4 DEF CallerInv
    <3> QED
      BY <2>3, <3>3, <3>4, <3>5, <3>6 DEF ListInv
  <2> QED
    BY <2>9, <2>10
<1>9. CASE Wake
  <2>1. /\ UNCHANGED <<head, next, heap, parent>> /\ Top.pc = "wake"
        /\ isExec' = [isExec EXCEPT ![Top.se] = FALSE] /\ Continue(Top.nxt)
    BY <1>9 DEF Wake, At, Release
  <2>2. Top.se \in Syncs /\ ~Listed(q, Top.se) /\ (Top.nxt # None => Len(q) # 0 /\ Top.nxt = q[1])
    BY <1>1, <1>2, <2>1 DEF CallbackInv, FrameOK
  <2>3. \A s \in Syncs : isExec'[s] = IF s = Top.se THEN FALSE ELSE isExec[s]
    BY <1>0, <2>1
  <2>4. CallbackInv(q)' /\ (frames' = <<>> \/ Top'.pc = "event")
    BY <1>1, <2>1, <2>2, ListContinue
  <2>5. RecordsInv(q)'
    BY <1>2, <2>1, <2>2, <2>3 DEF RecordsInv
  <2>6. ExecInv(q)'
    BY <1>2, <2>2, <2>3 DEF ExecInv
  <2>7. CallerInv'
    BY <1>0, <2>1, <2>3 DEF CallerInv
  <2> QED
    BY <2>4, <2>5, <2>6, <2>7 DEF ListInv
<1>10. CASE LockFails
  <2>1. UNCHANGED <<head, next, heap, isExec, parent>> /\ Return /\ Top.pc # "wake"
    BY <1>10 DEF LockFails, At
  <2>2. frames' = <<>>
    BY <1>1, <2>1, OneCallback
  <2>3. CallerInv'
    BY <1>0, <2>1 DEF CallerInv
  <2> QED
    BY <2>1, <2>2, <2>3, ListIdle
<1> QED
  BY <1>4, <1>5, <1>6, <1>7, <1>8, <1>9, <1>10 DEF CallbackStep

LEMMA ListNext ==
  ASSUME MaxDepth = 1, TypeInv, ListInv, [Next]_vars
  PROVE  ListInv'
<1> USE DEF vars, queueVars, msgVars, listVars, recVars, runVars, askVars
<1>1. CASE ParentStep
  BY <1>1, ListParent
<1>2. CASE CallbackStep
  BY <1>2, ListCallback
<1>3. CASE ChildSend \/ ThreadEnd \/ UseFreed \/ UNCHANGED vars
  <2>1. UNCHANGED <<head, next, heap, isExec, frames, parent>>
    BY <1>3 DEF ChildSend, Sent, ThreadEnd, UseFreed
  <2> QED
    BY <2>1, ListIdle DEF ListInv, CallerInv
<1>4. CASE StartPass
  <2>1. /\ UNCHANGED <<head, next, heap, isExec, parent>> /\ frames' = Append(frames, NewFrame)
        /\ Len(frames) < 1 /\ frames \in Seq(Frame) /\ NewFrame \in Frame
    BY <1>4, EmptySeq DEF StartPass, TypeInv, TypeOK, NewFrame, Frame, PCs
  <2>2. frames = <<>>
    BY <2>1, LenProperties, EmptySeq
  <2>3. Len(frames') = 1 /\ frames'[1] = NewFrame
    BY <2>1, <2>2, AppendProperties, EmptySeq
  <2>4. Top'.pc = "evals"
    BY <2>3 DEF Top, NewFrame
  <2>5. CallerInv'
    BY <2>1 DEF ListInv, CallerInv
  <2> QED
    BY <2>1, <2>2, <2>4, <2>5, ListIdle
<1> QED
  BY <1>1, <1>2, <1>3, <1>4 DEF Next

\* The list from interpStrEvents holds live records only, and every record somebody
\* depends on, as long as callbacks do not nest (SubInterpEvalCallback, the waiter
\* in InterpEvalCmd).
THEOREM ListStaysSound == MaxDepth = 1 => (Spec => []ListSound)
<1> SUFFICES ASSUME MaxDepth = 1 PROVE Spec => []ListSound
  OBVIOUS
<1>1. Init => TypeInv /\ ListInv
  BY TypeInit, ListInit
<1>2. (TypeInv /\ ListInv) /\ [Next]_vars => (TypeInv /\ ListInv)'
  BY TypeNext, ListNext
<1>3. TypeInv /\ ListInv => ListSound
  BY ListInvSound
<1> QED
  BY <1>1, <1>2, <1>3, PTL DEF Spec

-----------------------------------------------------------------------------
(* No freed memory is touched.                                             *)

\* The sub-interp exists as long as its startup script runs, and every record that a
\* callback or the waiter works on is live.
AliveInv == thread = "serving" /\ NoFreedMemory

LEMMA NothingFreed ==
  ASSUME MaxDepth = 1, TypeInv, ListInv, thread = "serving"
  PROVE  ~TouchesFreed
<1>1. PICK q \in Seq(Nodes) : RecordsInv(q) /\ CallbackInv(q) /\ ExecInv(q)
  BY DEF ListInv
<1>2. ASSUME NEW pc \in {"event", "exec", "unlink"}, At(pc) PROVE heap[Top.se] = "live"
  <2>1. Len(q) # 0 /\ Top.se = q[1]
    BY <1>1, <1>2 DEF At, CallbackInv
  <2>2. 1 \in 1..Len(q)
    BY <2>1, LenProperties
  <2> QED
    BY <1>1, <2>1, <2>2 DEF RecordsInv
<1>3. ASSUME At("wake") PROVE heap[Top.se] = "live"
  <2>1. isExec[Top.se] = TRUE /\ Top.se \in Syncs
    BY <1>1, <1>3, OneCallback DEF At, CallbackInv, FrameOK
  <2> QED
    BY <2>1 DEF ListInv, CallerInv
<1>4. \A m \in Chain : heap[m] = "live"
  BY ListInvSound DEF ListSound
<1>5. parent.st = "waiting" => heap[parent.arg] = "live"
  BY DEF ListInv, CallerInv
<1>6. ASSUME NEW pc \in {"event", "exec", "unlink", "wake"}, At(pc) PROVE heap[Top.se] = "live"
  BY <1>2, <1>3, <1>6
<1> QED
  BY <1>4, <1>5, <1>6 DEF TouchesFreed

LEMMA AliveNext ==
  ASSUME MaxDepth = 1, ~ScriptEnds, TypeInv, ListInv, AliveInv, [Next]_vars
  PROVE  AliveInv'
<1> USE DEF vars, queueVars, msgVars, listVars, recVars, runVars, askVars
<1>1. CASE ParentStep
  BY <1>1 DEF ParentStep, ParentFetch, PostScript, PostSync, PostCall, PostSend, Sent,
         PostFails, WaitDone, ReadResult, AliveInv, NoFreedMemory
<1>2. CASE CallbackStep
  <2>1. UNCHANGED thread /\ (fault' = fault \/ fault' = "nullRet")
    BY <1>2, Zenon DEF CallbackStep, TakeEvals, EvalStep, ReadMsgs, ClearMsgs, TakeEvent,
           RunEvent, ExecDone, Unlink, Wake, LockFails, TakeMsgs
  <2> QED
    BY <2>1 DEF AliveInv, NoFreedMemory
<1>3. CASE ChildSend \/ StartPass \/ UNCHANGED vars
  BY <1>3 DEF ChildSend, Sent, StartPass, AliveInv, NoFreedMemory
<1>4. CASE ThreadEnd
  BY <1>4 DEF ThreadEnd
<1>5. CASE UseFreed
  BY <1>5, NothingFreed DEF UseFreed, AliveInv
<1> QED
  BY <1>1, <1>2, <1>3, <1>4, <1>5 DEF Next

\* Neither the waiter of a synchronous eval, which frees the record, nor the callback that
\* unlinks and wakes, nor a poster that walks the list touches freed memory, as long as
\* callbacks do not nest and the sub-interp's startup script does not come to its end.
THEOREM NoUseAfterFree ==
  MaxDepth = 1 /\ ~ScriptEnds => (Spec => []NoFreedMemory)
<1> SUFFICES ASSUME MaxDepth = 1, ~ScriptEnds PROVE Spec => []NoFreedMemory
  OBVIOUS
<1>1. Init => TypeInv /\ ListInv /\ AliveInv
  BY TypeInit, ListInit DEF Init, AliveInv, NoFreedMemory
<1>2. (TypeInv /\ ListInv /\ AliveInv) /\ [Next]_vars => (TypeInv /\ ListInv /\ AliveInv)'
  BY TypeNext, ListNext, AliveNext
<1>3. AliveInv => NoFreedMemory
  BY DEF AliveInv
<1> QED
  BY <1>1, <1>2, <1>3, PTL DEF Spec

-----------------------------------------------------------------------------
(* A synchronous eval is evaluated once.                                   *)

\* A record that waits on the list was not evaluated; the one the callback works on was,
\* from the start of its evaluation on.
OnceInv ==
  /\ SyncRunsOnce
  /\ \A s \in Syncs :
       /\ heap[s] = "none" => execs[s] = 0
       /\ isExec[s] = TRUE => \/ execs[s] = 0
                              \/ /\ frames # <<>> /\ Top.se = s
                                 /\ Top.pc \in {"exec", "unlink", "wake"}

LEMMA OnceNext ==
  ASSUME MaxDepth = 1, ~LockTimed, TypeInv, ListInv, ListInv', OnceInv, [Next]_vars
  PROVE  OnceInv'
<1> USE DEF vars, queueVars, msgVars, listVars, recVars, runVars, askVars
<1>0. /\ heap \in [Nodes -> {"none", "live", "freed"}] /\ isExec \in [Syncs -> BOOLEAN]
      /\ execs \in [Syncs -> 0..2] /\ parent \in Asking
  BY DEF TypeInv, TypeOK
<1>1. CASE ParentStep
  <2>1. UNCHANGED <<execs, frames>> /\ Top' = Top
    BY <1>1 DEF ParentStep, ParentFetch, PostScript, PostSync, PostCall, PostSend, Sent,
           PostFails, WaitDone, ReadResult, Top
  <2>2. CASE PostSync
    <3>1. PICK s \in Syncs : parent = [st |-> "posting", op |-> "sync", arg |-> s]
      BY <1>0, <2>2, ParentShape DEF PostSync, Posting
    <3>2. /\ isExec' = [isExec EXCEPT ![s] = TRUE]
          /\ heap' = [heap EXCEPT ![s] = "live"]
      BY <2>2, <3>1 DEF PostSync, MarkExec, NewRecord
    <3>3. heap[s] = "none"
      BY <3>1 DEF ListInv, CallerInv
    <3> QED
      BY <1>0, <2>1, <3>2, <3>3 DEF OnceInv, SyncRunsOnce
  <2>3. CASE ~PostSync
    <3>1. /\ UNCHANGED isExec
          /\ \/ UNCHANGED heap
             \/ \E n \in Nodes, v \in {"live", "freed"} : heap' = [heap EXCEPT ![n] = v]
      <4>1. CASE WaitDone
        <5>1. parent.arg \in Nodes
          BY <1>0, <4>1, ParentShape DEF WaitDone
        <5> QED
          BY <4>1, <5>1 DEF WaitDone
      <4>2. CASE PostCall
        <5>1. parent.arg \in Nodes
          BY <1>0, <4>2, ParentShape DEF PostCall, Posting
        <5> QED
          BY <4>2, <5>1 DEF PostCall, NewRecord
      <4> QED
        BY <1>1, <2>3, <4>1, <4>2 DEF ParentStep, ParentFetch, PostScript, PostSend, Sent,
           PostFails, ReadResult
    <3>2. \A s \in Syncs : heap'[s] = "none" => heap[s] = "none"
      BY <1>0, <3>1
    <3> QED
      BY <2>1, <3>1, <3>2 DEF OnceInv, SyncRunsOnce
  <2> QED
    BY <2>2, <2>3
<1>2. CASE CallbackStep
  <2>0. frames # <<>> /\ Top \in Frame /\ FrameOK(Top)
    BY <1>2, OneCallback DEF CallbackStep, TakeEvals, EvalStep, ReadMsgs, ClearMsgs, TakeEvent,
           RunEvent, ExecDone, Unlink, Wake, LockFails, At
  <2>1. CASE RunEvent
    <3> DEFINE f == [Top EXCEPT !.pc = "exec", !.ex = TRUE]
    <3>1. UNCHANGED <<heap, isExec>> /\ Top.pc = "event" /\ heap[Top.se] = "live"
      BY <2>1 DEF RunEvent, At
    <3>2. CASE Top.se \in Syncs /\ isExec[Top.se]
      <4>1. /\ SetTop(f)
            /\ execs' = [execs EXCEPT ![Top.se] = IF @ < 2 THEN @ + 1 ELSE @]
        BY <2>1, <3>2 DEF RunEvent
      <4>2. f \in Frame /\ f.se = Top.se /\ f.pc = "exec"
        BY <2>0 DEF Frame, PCs
      <4> HIDE DEF f
      <4>3. Top' = f /\ frames' # <<>>
        BY <2>0, <4>1, <4>2, OneCallback
      <4>4. execs[Top.se] = 0
        BY <1>0, <3>1, <3>2 DEF OnceInv
      <4>5. execs'[Top.se] = 1 /\ \A s \in Syncs : s # Top.se => execs'[s] = execs[s]
        BY <1>0, <3>2, <4>1, <4>4
      <4>6. \A s \in Syncs : s # Top.se => (isExec[s] = TRUE => execs[s] = 0)
        BY <3>1 DEF OnceInv
      <4> QED
        BY <3>1, <4>2, <4>3, <4>5, <4>6 DEF OnceInv, SyncRunsOnce
    <3>3. CASE ~(Top.se \in Syncs /\ isExec[Top.se])
      <4>1. UNCHANGED execs
        BY <2>1, <3>3 DEF RunEvent
      <4> QED
        BY <3>1, <4>1 DEF OnceInv, SyncRunsOnce
    <3> QED
      BY <3>2, <3>3
  <2>2. CASE ~RunEvent
    <3>1. UNCHANGED execs
      BY <1>2, <2>2 DEF CallbackStep, TakeEvals, EvalStep, ReadMsgs, ClearMsgs, TakeEvent,
             ExecDone, Unlink, Wake, LockFails
    <3>2. CASE Top.pc \in {"exec", "unlink", "wake"}
      <4>1. CASE ExecDone
        <5> DEFINE f == [Top EXCEPT !.pc = "unlink"]
        <5>1. f \in Frame /\ f.se = Top.se /\ f.pc = "unlink"
          BY <2>0 DEF Frame, PCs
        <5>2. SetTop(f) /\ UNCHANGED <<heap, isExec>>
          BY <4>1 DEF ExecDone, GoTo
        <5> HIDE DEF f
        <5>3. Top' = f /\ frames' # <<>>
          BY <2>0, <5>1, <5>2, OneCallback
        <5> QED
          BY <3>1, <5>1, <5>2, <5>3 DEF OnceInv, SyncRunsOnce
      <4>2. CASE Unlink
        <5>0. Top.pc = "unlink" /\ heap[Top.se] = "live" /\ Top.se \in Nodes
              /\ ((Top.ex = TRUE) <=> (Top.se \in Syncs)) /\ UNCHANGED isExec
          BY <2>0, <4>2 DEF Unlink, At, FrameOK, ListInv, CallbackInv
        <5>1. CASE Top.ex = TRUE
          <6> DEFINE f == [Top EXCEPT !.pc = "wake", !.nxt = next[Top.se]]
          <6>0. next[Top.se] \in Nodes \cup {None}
            BY <5>0 DEF TypeInv, TypeOK
          <6>1. f \in Frame /\ f.se = Top.se /\ f.pc = "wake"
            BY <2>0, <6>0 DEF Frame, PCs
          <6>2. SetTop(f) /\ UNCHANGED heap
            BY <4>2, <5>1 DEF Unlink, FreeServed
          <6> HIDE DEF f
          <6>3. Top' = f /\ frames' # <<>>
            BY <2>0, <6>1, <6>2, OneCallback
          <6> QED
            BY <3>1, <5>0, <6>1, <6>2, <6>3 DEF OnceInv, SyncRunsOnce
        <5>2. CASE Top.ex # TRUE
          <6>1. Top.ex = FALSE /\ Top.se \notin Syncs
            BY <2>0, <5>0, <5>2 DEF Frame
          <6>2. heap' = [heap EXCEPT ![Top.se] = "freed"]
            BY <4>2, <6>1 DEF Unlink, FreeServed
          <6>3. \A s \in Syncs : heap'[s] = heap[s]
            BY <1>0, <6>1, <6>2
          <6> QED
            BY <3>1, <5>0, <6>1, <6>3 DEF OnceInv, SyncRunsOnce
        <5> QED
          BY <5>1, <5>2
      <4>3. CASE Wake
        <5>1. UNCHANGED heap /\ isExec' = [isExec EXCEPT ![Top.se] = FALSE] /\ Top.se \in Syncs
          BY <2>0, <4>3 DEF Wake, Release, At, FrameOK
        <5> QED
          BY <1>0, <3>1, <5>1 DEF OnceInv, SyncRunsOnce
      <4>4. ~LockFails
        BY DEF LockFails, LockMayFail
      <4> QED
        BY <1>2, <2>2, <3>2, <4>1, <4>2, <4>3, <4>4 DEF CallbackStep, TakeEvals, EvalStep,
           ReadMsgs, ClearMsgs, TakeEvent, At
    <3>3. CASE Top.pc \notin {"exec", "unlink", "wake"}
      <4>1. UNCHANGED <<heap, isExec>>
        BY <1>2, <2>2, <3>3 DEF CallbackStep, TakeEvals, EvalStep, ReadMsgs, ClearMsgs,
           TakeEvent, ExecDone, Unlink, Wake, LockFails, LockMayFail, At
      <4> QED
        BY <3>1, <3>3, <4>1 DEF OnceInv, SyncRunsOnce
    <3> QED
      BY <3>2, <3>3
  <2> QED
    BY <2>1, <2>2
<1>3. CASE ChildSend \/ ThreadEnd \/ UseFreed \/ UNCHANGED vars
  <2>1. UNCHANGED <<heap, isExec, execs, frames>> /\ Top' = Top
    BY <1>3 DEF ChildSend, Sent, ThreadEnd, UseFreed, Top
  <2> QED
    BY <2>1 DEF OnceInv, SyncRunsOnce
<1>4. CASE StartPass
  <2>1. UNCHANGED <<heap, isExec, execs>> /\ Len(frames) < 1 /\ frames \in Seq(Frame)
    BY <1>4 DEF StartPass, TypeInv, TypeOK
  <2>2. frames = <<>>
    BY <2>1, LenProperties, EmptySeq
  <2> QED
    BY <2>1, <2>2 DEF OnceInv, SyncRunsOnce
<1> QED
  BY <1>1, <1>2, <1>3, <1>4 DEF Next

\* A synchronous eval is evaluated once, where callbacks do not nest and QMutex is waited
\* for without a limit: its record leaves the list before the next pass.
THEOREM EvaluatedOnce ==
  MaxDepth = 1 /\ ~LockTimed => (Spec => []SyncRunsOnce)
<1> SUFFICES ASSUME MaxDepth = 1, ~LockTimed PROVE Spec => []SyncRunsOnce
  OBVIOUS
<1>1. Init => TypeInv /\ ListInv /\ OnceInv
  BY TypeInit, ListInit DEF Init, OnceInv, SyncRunsOnce
<1>2. (TypeInv /\ ListInv /\ OnceInv) /\ [Next]_vars => (TypeInv /\ ListInv /\ OnceInv)'
  BY TypeNext, ListNext, OnceNext
<1>3. OnceInv => SyncRunsOnce
  BY DEF OnceInv
<1> QED
  BY <1>1, <1>2, <1>3, PTL DEF Spec

-----------------------------------------------------------------------------
(* What may lead to a second evaluation, whatever nests and whatever fails.  *)

\* An activation below another one is running a script.
LowerInv == \A d \in 1..(Len(frames) - 1) : frames[d].pc \in {"eval", "exec"}

\* A record not posted yet was not evaluated.
UnpostedInv ==
  /\ \A s \in Syncs : heap[s] = "none" => execs[s] = 0
  /\ parent.st = "posting" /\ parent.op = "sync" => heap[parent.arg] = "none"

\* An activation that unlinks a record without having evaluated it found its mark gone.
ServedBefore(f) == f.pc = "unlink" /\ ~f.ex /\ f.se \in Syncs
UnmarkedInv == \A d \in 1..Len(frames) :
  /\ frames[d].pc = "exec" => frames[d].ex
  /\ ServedBefore(frames[d]) => ~isExec[frames[d].se] /\ heap[frames[d].se] # "none"

AgainInv == LowerInv /\ UnpostedInv /\ UnmarkedInv

\* How a step of the callback changes the stack: it leaves, or goes on elsewhere.
LEMMA CallbackMoves ==
  ASSUME TypeInv, CallbackStep
  PROVE  /\ frames # <<>> /\ Top \in Frame /\ FrameOK(Top)
         /\ Return \/ \E f \in Frame : SetTop(f)
<1> USE DEF queueVars, msgVars, listVars, recVars, runVars, askVars
<1>1. frames # <<>> /\ Top \in Frame /\ FrameOK(Top)
  BY TopOK DEF CallbackStep, TakeEvals, EvalStep, ReadMsgs, ClearMsgs, TakeEvent, RunEvent,
         ExecDone, Unlink, Wake, LockFails, At, TypeInv
<1>2. ASSUME NEW pc \in PCs, GoTo(pc) PROVE \E f \in Frame : SetTop(f)
  <2>1. [Top EXCEPT !.pc = pc] \in Frame
    BY <1>1 DEF Frame
  <2> QED
    BY <1>2, <2>1 DEF GoTo
<1>3. ASSUME NEW n \in Nodes \cup {None}, Continue(n)
      PROVE  Return \/ \E f \in Frame : SetTop(f)
  <2>1. [Top EXCEPT !.pc = "event", !.se = n, !.nxt = None] \in Frame
    BY <1>1 DEF Frame, PCs
  <2> QED
    BY <1>3, <2>1 DEF Continue
<1>4. CASE TakeEvals \/ ReadMsgs
  <2>1. evalQ # <<>> => Head(evalQ) \in Scripts /\ Tail(evalQ) \in Seq(Scripts)
    BY HeadTailProperties DEF TypeInv, TypeOK
  <2>2. evalQ # <<>> => [Top EXCEPT !.pc = "eval", !.cur = Head(evalQ),
                                    !.buf = Tail(evalQ)] \in Frame
    BY <1>1, <2>1, TextStep
  <2>3. \/ \E pc \in PCs : GoTo(pc)
        \/ /\ evalQ # <<>>
           /\ SetTop([Top EXCEPT !.pc = "eval", !.cur = Head(evalQ), !.buf = Tail(evalQ)])
    BY <1>4 DEF TakeEvals, ReadMsgs, TakeMsgs, PCs
  <2> QED
    BY <1>1, <1>2, <2>2, <2>3
<1>5. CASE EvalStep
  <2>1. [Top EXCEPT !.pc = "msgs", !.buf = <<>>] \in Frame
    BY <1>1, EmptySeq DEF Frame, PCs
  <2>2. Top.buf # <<>> => Head(Top.buf) \in Scripts /\ Tail(Top.buf) \in Seq(Scripts)
    BY <1>1, HeadTailProperties DEF Frame
  <2>3. Top.buf # <<>> =>
          [Top EXCEPT !.cur = Head(Top.buf), !.buf = Tail(Top.buf)] \in Frame
    <3>1. Top.pc = "eval"
      BY <1>5 DEF EvalStep, At
    <3>2. \A h, t : [Top EXCEPT !.cur = h, !.buf = t]
                   = [Top EXCEPT !.pc = "eval", !.cur = h, !.buf = t]
      BY <1>1, <3>1 DEF Frame
    <3> QED
      BY <1>1, <2>2, <3>2, TextStep
  <2>4. "msgs" \in PCs
    BY DEF PCs
  <2>5. \/ GoTo("msgs") \/ SetTop([Top EXCEPT !.pc = "msgs", !.buf = <<>>])
        \/ /\ Top.buf # <<>>
           /\ SetTop([Top EXCEPT !.cur = Head(Top.buf), !.buf = Tail(Top.buf)])
    BY <1>5 DEF EvalStep
  <2> QED
    BY <1>1, <1>2, <2>1, <2>3, <2>4, <2>5
<1>6. CASE ClearMsgs \/ ExecDone
  <2>1. \E pc \in PCs : GoTo(pc)
    BY <1>6 DEF ClearMsgs, ExecDone, PCs
  <2> QED
    BY <1>1, <1>2, <2>1
<1>7. CASE TakeEvent \/ Wake
  <2>1. head \in Nodes \cup {None} /\ Top.nxt \in Nodes \cup {None}
    BY <1>1 DEF TypeInv, TypeOK, Frame
  <2>2. Continue(head) \/ Continue(Top.nxt)
    BY <1>7 DEF TakeEvent, Wake
  <2> QED
    BY <1>1, <1>3, <2>1, <2>2
<1>8. CASE RunEvent
  <2>1. /\ [Top EXCEPT !.pc = "exec", !.ex = TRUE] \in Frame
        /\ [Top EXCEPT !.pc = "unlink", !.ex = FALSE] \in Frame
    BY <1>1 DEF Frame, PCs
  <2>2. \/ SetTop([Top EXCEPT !.pc = "exec", !.ex = TRUE])
        \/ SetTop([Top EXCEPT !.pc = "unlink", !.ex = FALSE])
    BY <1>8 DEF RunEvent
  <2> QED
    BY <1>1, <2>1, <2>2
<1>9. CASE Unlink
  <2>1. Top.se \in Nodes /\ next[Top.se] \in Nodes \cup {None}
    BY <1>1, <1>9 DEF Unlink, At, FrameOK, TypeInv, TypeOK
  <2>2. [Top EXCEPT !.pc = "wake", !.nxt = next[Top.se]] \in Frame
    BY <1>1, <2>1 DEF Frame, PCs
  <2>3. SetTop([Top EXCEPT !.pc = "wake", !.nxt = next[Top.se]]) \/ Continue(next[Top.se])
    BY <1>9 DEF Unlink
  <2> QED
    BY <1>1, <1>3, <2>1, <2>2, <2>3
<1>10. CASE LockFails
  BY <1>1, <1>10 DEF LockFails
<1> QED
  BY <1>4, <1>5, <1>6, <1>7, <1>8, <1>9, <1>10 DEF CallbackStep

\* A stack whose lower activations run scripts: what leaving and going on keep of it.
LEMMA LowerNext ==
  ASSUME TypeInv, LowerInv, [Next]_vars
  PROVE  LowerInv'
<1> USE DEF vars, queueVars, msgVars, listVars, recVars, runVars, askVars
<1>0. frames \in Seq(Frame) /\ Len(frames) \in Nat
  BY LenProperties DEF TypeInv, TypeOK
<1>1. CASE CallbackStep
  <2>1. frames # <<>> /\ FramesOK /\ Len(frames) \in 1..MaxDepth
    BY <1>1, CallbackMoves, TopOK DEF TypeInv
  <2>2. \/ /\ Len(frames') = Len(frames) - 1
           /\ \A d \in 1..(Len(frames) - 1) : frames'[d] = frames[d]
        \/ /\ Len(frames') = Len(frames)
           /\ \A d \in 1..(Len(frames) - 1) : frames'[d] = frames[d]
    BY <1>1, <2>1, CallbackMoves, ReturnStep, SetTopStep
  <2> QED
    BY <2>1, <2>2 DEF LowerInv
<1>2. CASE StartPass
  <2>1. /\ NewFrame \in Frame /\ frames' = Append(frames, NewFrame)
        /\ frames = <<>> \/ Top.pc \in {"eval", "exec"}
    BY <1>2, EmptySeq DEF StartPass, At, NewFrame, Frame, PCs
  <2>2. /\ Len(frames') = Len(frames) + 1
        /\ \A d \in 1..Len(frames) : frames'[d] = frames[d]
    BY <1>0, <2>1, AppendProperties
  <2>3. frames # <<>> => frames[Len(frames)].pc \in {"eval", "exec"}
    BY <2>1 DEF Top
  <2>4. frames = <<>> => Len(frames) = 0
    BY EmptySeq
  <2> QED
    BY <1>0, <2>2, <2>3, <2>4 DEF LowerInv
<1>3. CASE ParentStep \/ ChildSend \/ ThreadEnd \/ UseFreed \/ UNCHANGED vars
  <2>1. UNCHANGED frames
    BY <1>3 DEF ParentStep, ParentFetch, PostScript, PostSync, PostCall, PostSend, Sent,
           PostFails, WaitDone, ReadResult, ChildSend, ThreadEnd, UseFreed
  <2> QED
    BY <2>1 DEF LowerInv
<1> QED
  BY <1>1, <1>2, <1>3 DEF Next

\* What posting a record and running, releasing or freeing one do to the marks.
LEMMA MarksStep ==
  ASSUME TypeInv, UnpostedInv, [Next]_vars
  PROVE  /\ \A n \in Nodes : heap'[n] = "none" => heap[n] = "none"
         /\ \A s \in Syncs : isExec'[s] => isExec[s] \/ (heap[s] = "none" /\ execs'[s] = 0)
<1> USE DEF vars, queueVars, msgVars, listVars, recVars, runVars, askVars
<1>0. /\ heap \in [Nodes -> {"none", "live", "freed"}] /\ isExec \in [Syncs -> BOOLEAN]
      /\ parent \in Asking
  BY DEF TypeInv, TypeOK
<1>1. CASE PostSync \/ PostCall
  <2>1. PICK n \in Nodes : heap' = [heap EXCEPT ![n] = "live"] /\ parent.arg = n
    <3>1. parent.arg \in Nodes
      BY <1>0, <1>1, ParentShape DEF PostSync, PostCall, Posting
    <3> QED
      BY <1>1, <3>1 DEF PostSync, PostCall, NewRecord
  <2>2. \A s \in Syncs : isExec'[s] => isExec[s] \/ (PostSync /\ s = parent.arg)
    BY <1>0, <1>1 DEF PostSync, PostCall, MarkExec
  <2>3. PostSync => heap[parent.arg] = "none" /\ UNCHANGED execs
    BY DEF PostSync, Posting, UnpostedInv
  <2> QED
    BY <1>0, <2>1, <2>2, <2>3 DEF UnpostedInv
<1>2. CASE Wake \/ Unlink \/ WaitDone
  <2>1. /\ \/ UNCHANGED heap
           \/ \E n \in Nodes : heap' = [heap EXCEPT ![n] = "freed"]
        /\ \/ UNCHANGED isExec
           \/ \E s \in Syncs : isExec' = [isExec EXCEPT ![s] = FALSE]
    <3>1. CASE Wake
      <4>1. Top.se \in Syncs
        BY <3>1, TopOK DEF Wake, At, FrameOK, TypeInv
      <4> QED
        BY <3>1, <4>1 DEF Wake, Release
    <3>2. CASE Unlink
      <4>1. Top.se \in Nodes
        BY <3>2, TopOK DEF Unlink, At, FrameOK, TypeInv
      <4> QED
        BY <3>2, <4>1 DEF Unlink, FreeServed
    <3>3. CASE WaitDone
      <4>1. parent.arg \in Nodes
        BY <1>0, <3>3, ParentShape DEF WaitDone
      <4> QED
        BY <3>3, <4>1 DEF WaitDone
    <3> QED
      BY <1>2, <3>1, <3>2, <3>3
  <2> QED
    BY <1>0, <2>1
<1>3. CASE ~PostSync /\ ~PostCall /\ ~Wake /\ ~Unlink /\ ~WaitDone
  <2>1. UNCHANGED <<heap, isExec>>
    BY <1>3 DEF Next, ParentStep, ParentFetch, PostScript, PostSend, Sent, PostFails,
           ReadResult, ChildSend, StartPass, CallbackStep, TakeEvals, EvalStep, ReadMsgs,
           ClearMsgs, TakeEvent, RunEvent, ExecDone, LockFails, ThreadEnd, UseFreed
  <2> QED
    BY <2>1
<1> QED
  BY <1>1, <1>2, <1>3

LEMMA UnpostedNext ==
  ASSUME TypeInv, UnpostedInv, [Next]_vars
  PROVE  UnpostedInv'
<1> USE DEF vars, queueVars, msgVars, listVars, recVars, runVars, askVars
<1>0. /\ heap \in [Nodes -> {"none", "live", "freed"}] /\ execs \in [Syncs -> 0..2]
      /\ parent \in Asking
  BY DEF TypeInv, TypeOK
<1>1. \A s \in Syncs : heap'[s] = "none" => execs'[s] = 0
  <2> TAKE s \in Syncs
  <2> SUFFICES ASSUME heap'[s] = "none" PROVE execs'[s] = 0
    OBVIOUS
  <2>1. heap[s] = "none" /\ execs[s] = 0
    BY MarksStep DEF UnpostedInv
  <2>2. CASE RunEvent
    <3>1. heap[Top.se] = "live" /\ (execs' = execs \/ \E v : execs' = [execs EXCEPT ![Top.se] = v])
      BY <2>2 DEF RunEvent
    <3> QED
      BY <1>0, <2>1, <3>1
  <2>3. CASE ~RunEvent
    <3>1. UNCHANGED execs
      BY <2>3 DEF Next, ParentStep, ParentFetch, PostScript, PostSync, PostCall, PostSend,
             Sent, PostFails, WaitDone, ReadResult, ChildSend, StartPass, CallbackStep,
             TakeEvals, EvalStep, ReadMsgs, ClearMsgs, TakeEvent, ExecDone, Unlink, Wake,
             LockFails, ThreadEnd, UseFreed
    <3> QED
      BY <2>1, <3>1
  <2> QED
    BY <2>2, <2>3
<1>2. ASSUME parent'.st = "posting", parent'.op = "sync" PROVE heap'[parent'.arg] = "none"
  <2>1. CASE ParentFetch
    BY <1>2, <2>1 DEF ParentFetch, Requests, UnpostedInv
  <2>2. CASE UNCHANGED parent
    <3>1. heap[parent.arg] = "none"
      BY <1>2, <2>2 DEF UnpostedInv
    <3>2. parent.arg \in Syncs
      BY <1>0, <1>2, <2>2 DEF Asking, Idle
    <3>3. CASE Unlink
      <4>1. heap[Top.se] = "live" /\ (UNCHANGED heap \/ heap' = [heap EXCEPT ![Top.se] = "freed"])
        BY <3>3 DEF Unlink, FreeServed
      <4> QED
        BY <1>0, <2>2, <3>1, <3>2, <4>1
    <3>4. CASE ~Unlink
      <4>1. UNCHANGED heap \/ PostCall \/ PostSync \/ WaitDone
        BY <3>4 DEF Next, ParentStep, ParentFetch, PostScript, PostSend, Sent, PostFails,
               ReadResult, ChildSend, StartPass, CallbackStep, TakeEvals, EvalStep, ReadMsgs,
               ClearMsgs, TakeEvent, RunEvent, ExecDone, Wake, LockFails, ThreadEnd, UseFreed
      <4>2. ~PostCall /\ ~PostSync /\ ~WaitDone
        BY <1>0, <1>2, <2>2 DEF PostCall, PostSync, WaitDone, Posting, Idle, Asking
      <4> QED
        BY <2>2, <3>1, <4>1, <4>2
    <3> QED
      BY <3>3, <3>4
  <2>3. CASE ~ParentFetch /\ ~UNCHANGED parent
    <3>1. parent'.st # "posting"
      BY <1>0, <2>3 DEF Next, ParentStep, PostScript, PostSync, PostCall, PostSend, Sent,
             PostFails, WaitDone, ReadResult, ChildSend, StartPass, CallbackStep,
             TakeEvals, EvalStep, ReadMsgs, ClearMsgs, TakeEvent, RunEvent, ExecDone, Unlink,
             Wake, LockFails, ThreadEnd, UseFreed, Idle, Asking
    <3> QED
      BY <1>2, <3>1
  <2> QED
    BY <2>1, <2>2, <2>3
<1> QED
  BY <1>1, <1>2 DEF UnpostedInv

\* Where an activation comes to unlink a record: having run it, or having found its mark
\* gone.
LEMMA UnlinkMoves ==
  ASSUME TypeInv, CallbackStep
  PROVE  \/ Return
         \/ \E f \in Frame : SetTop(f) /\ f.pc \notin {"exec", "unlink"}
         \/ /\ RunEvent /\ heap[Top.se] = "live"
            /\ \E f \in Frame :
                 /\ SetTop(f) /\ f.se = Top.se
                 /\ \/ f.pc = "exec" /\ f.ex
                    \/ f.pc = "unlink" /\ (f.se \in Syncs => ~isExec[f.se])
         \/ /\ Top.pc = "exec"
            /\ \E f \in Frame : SetTop(f) /\ f.pc = "unlink" /\ f.se = Top.se /\ f.ex = Top.ex
<1> USE DEF queueVars, msgVars, listVars, recVars, runVars, askVars
<1>1. frames # <<>> /\ Top \in Frame /\ FrameOK(Top)
  BY CallbackMoves
<1>2. Return \/ \E f \in Frame : SetTop(f)
  BY CallbackMoves
<1>3. CASE RunEvent
  <2> DEFINE f == [Top EXCEPT !.pc = "exec", !.ex = TRUE]
             g == [Top EXCEPT !.pc = "unlink", !.ex = FALSE]
  <2>1. /\ f \in Frame /\ f.se = Top.se /\ f.pc = "exec" /\ f.ex
        /\ g \in Frame /\ g.se = Top.se /\ g.pc = "unlink"
    BY <1>1 DEF Frame, PCs
  <2>2. /\ heap[Top.se] = "live"
        /\ SetTop(f) \/ (SetTop(g) /\ (Top.se \in Syncs => ~isExec[Top.se]))
    BY <1>3 DEF RunEvent
  <2> HIDE DEF f, g
  <2> QED
    BY <1>3, <2>1, <2>2
<1>4. CASE ExecDone
  <2> DEFINE f == [Top EXCEPT !.pc = "unlink"]
  <2>1. f \in Frame /\ f.se = Top.se /\ f.pc = "unlink" /\ f.ex = Top.ex
    BY <1>1 DEF Frame, PCs
  <2>2. SetTop(f) /\ Top.pc = "exec"
    BY <1>4 DEF ExecDone, GoTo, At
  <2> HIDE DEF f
  <2> QED
    BY <2>1, <2>2
<1>5. CASE ~RunEvent /\ ~ExecDone
  <2>1. PICK t : \/ Return
                 \/ SetTop([Top EXCEPT !.pc = "msgs", !.buf = <<>>])
                 \/ SetTop([Top EXCEPT !.pc = "wake", !.nxt = next[Top.se]]) /\ Top.pc = "unlink"
                 \/ SetTop([Top EXCEPT !.cur = Head(Top.buf), !.buf = Tail(Top.buf)])
                    /\ Top.pc = "eval"
                 \/ SetTop([Top EXCEPT !.pc = "eval", !.cur = Head(evalQ), !.buf = Tail(evalQ)])
                 \/ SetTop([Top EXCEPT !.pc = "event", !.se = t, !.nxt = None])
                 \/ GoTo(t) /\ t \in {"msgs", "clear", "events"}
    BY <1>5 DEF CallbackStep, TakeEvals, EvalStep, ReadMsgs, TakeMsgs, ClearMsgs, TakeEvent,
           Unlink, Wake, LockFails, Continue, At
  <2>2. ASSUME NEW f \in Frame, SetTop(f), ~Return PROVE f.pc \notin {"exec", "unlink"}
    <3>1. Len(frames) \in 1..MaxDepth /\ frames'[Len(frames)] = f
      BY <1>1, <2>2, SetTopStep, TopOK DEF TypeInv
    <3>2. ASSUME NEW g, SetTop(g) PROVE f = g
      <4>1. /\ frames' = [frames EXCEPT ![Len(frames)] = g]
            /\ frames \in Seq(Frame)
        BY <3>2 DEF SetTop, TypeInv, TypeOK
      <4>2. Len(frames) \in DOMAIN frames
        BY <3>1, LenProperties, <4>1
      <4> QED
        BY <3>1, <4>1, <4>2
    <3>3. /\ [Top EXCEPT !.pc = "msgs", !.buf = <<>>].pc = "msgs"
          /\ [Top EXCEPT !.pc = "wake", !.nxt = next[Top.se]].pc = "wake"
          /\ [Top EXCEPT !.cur = Head(Top.buf), !.buf = Tail(Top.buf)].pc = Top.pc
          /\ [Top EXCEPT !.pc = "eval", !.cur = Head(evalQ), !.buf = Tail(evalQ)].pc = "eval"
          /\ [Top EXCEPT !.pc = "event", !.se = t, !.nxt = None].pc = "event"
          /\ [Top EXCEPT !.pc = t].pc = t
      BY <1>1 DEF Frame
    <3>4. f.pc \in {"msgs", "wake", "eval", "event", "clear", "events"}
      BY <2>1, <2>2, <3>2, <3>3 DEF GoTo
    <3> QED
      BY <3>4
  <2> QED
    BY <1>2, <2>2
<1> QED
  BY <1>3, <1>4, <1>5

LEMMA UnmarkedNext ==
  ASSUME TypeInv, UnpostedInv, UnmarkedInv, [Next]_vars
  PROVE  UnmarkedInv'
<1> USE DEF vars, queueVars, msgVars, listVars, recVars, runVars, askVars
<1>0. /\ \A d \in 1..Len(frames) : FrameOK(frames[d]) /\ frames[d] \in Frame
      /\ frames \in Seq(Frame) /\ Len(frames) \in Nat
  BY LenProperties, ElementOfSeq DEF TypeInv, FramesOK
<1> DEFINE OK(f) == /\ f.pc = "exec" => f.ex
                    /\ ServedBefore(f) => ~isExec[f.se] /\ heap[f.se] # "none"
           OKNext(f) == /\ f.pc = "exec" => f.ex
                        /\ ServedBefore(f) => ~isExec'[f.se] /\ heap'[f.se] # "none"
<1>1. \A f : OK(f) => OKNext(f)
  BY MarksStep DEF ServedBefore
<1>2. \A d \in 1..Len(frames) : OKNext(frames[d])
  BY <1>1 DEF UnmarkedInv
<1>3. SUFFICES \A d \in 1..Len(frames') : OKNext(frames'[d])
  BY DEF UnmarkedInv, ServedBefore
<1>4. CASE CallbackStep
  <2>1. frames # <<>> /\ FramesOK /\ Len(frames) \in 1..MaxDepth /\ Top = frames[Len(frames)]
    BY <1>4, CallbackMoves, TopOK DEF TypeInv, Top
  <2>2. CASE Return
    <3>1. /\ Len(frames') = Len(frames) - 1
          /\ \A d \in 1..(Len(frames) - 1) : frames'[d] = frames[d]
      BY <2>1, <2>2, ReturnStep
    <3>2. \A d \in 1..Len(frames') : d \in 1..Len(frames) /\ frames'[d] = frames[d]
      BY <2>1, <3>1
    <3> QED
      BY <1>2, <3>2
  <2>3. ASSUME NEW f \in Frame, SetTop(f), OKNext(f) PROVE \A d \in 1..Len(frames') : OKNext(frames'[d])
    <3>1. /\ Len(frames') = Len(frames) /\ frames'[Len(frames)] = f
          /\ \A d \in 1..(Len(frames) - 1) : frames'[d] = frames[d]
      BY <2>1, <2>3, SetTopStep
    <3>2. \A d \in 1..Len(frames') : frames'[d] = f \/ (d \in 1..Len(frames) /\ frames'[d] = frames[d])
      BY <2>1, <3>1
    <3> HIDE DEF OKNext
    <3> QED
      BY <1>2, <2>3, <3>2
  <2>4. ASSUME NEW f \in Frame, f.pc \notin {"exec", "unlink"} PROVE OKNext(f)
    BY <2>4 DEF ServedBefore
  <2>5. ASSUME RunEvent, heap[Top.se] = "live", NEW f \in Frame, f.se = Top.se,
               \/ f.pc = "exec" /\ f.ex
               \/ f.pc = "unlink" /\ (f.se \in Syncs => ~isExec[f.se])
        PROVE  OKNext(f)
    BY <2>5 DEF ServedBefore, RunEvent
  <2>6. ASSUME Top.pc = "exec", NEW f \in Frame, f.pc = "unlink", f.ex = Top.ex PROVE OKNext(f)
    BY <2>1, <2>6 DEF ServedBefore, UnmarkedInv
  <2> HIDE DEF OKNext
  <2> QED
    BY <1>4, <2>2, <2>3, <2>4, <2>5, <2>6, UnlinkMoves
<1>5. CASE StartPass
  <2>1. frames' = Append(frames, NewFrame) /\ NewFrame.pc = "evals" /\ NewFrame \in Frame
    BY <1>5, EmptySeq DEF StartPass, NewFrame, Frame, PCs
  <2>2. \A d \in 1..Len(frames') : frames'[d] = NewFrame \/ (d \in 1..Len(frames) /\ frames'[d] = frames[d])
    BY <1>0, <2>1, AppendProperties
  <2>3. OKNext(NewFrame)
    BY <2>1 DEF ServedBefore
  <2> HIDE DEF OKNext
  <2> QED
    BY <1>2, <2>2, <2>3
<1>6. CASE ParentStep \/ ChildSend \/ ThreadEnd \/ UseFreed \/ UNCHANGED vars
  <2>1. UNCHANGED frames
    BY <1>6 DEF ParentStep, ParentFetch, PostScript, PostSync, PostCall, PostSend, Sent,
           PostFails, WaitDone, ReadResult, ChildSend, ThreadEnd, UseFreed
  <2> HIDE DEF OKNext
  <2> QED
    BY <1>2, <2>1
<1> QED
  BY <1>4, <1>5, <1>6 DEF Next

LEMMA AgainInit == Init => AgainInv
  BY EmptySeq DEF Init, Idle, AgainInv, LowerInv, UnpostedInv, UnmarkedInv

\* An activation with a record in hand keeps it through every step but these.
LEMMA KeptInHand ==
  ASSUME TypeInv, AgainInv, [Next]_vars, NEW s \in Syncs, InHand(s), ~InHand(s)'
  PROVE  \/ At("unlink") /\ Top.se = s /\ LockFails
         \/ ~isExec'[s]
<1> USE DEF vars, queueVars, msgVars, listVars, recVars, runVars, askVars
<1>0. /\ frames \in Seq(Frame) /\ Len(frames) \in Nat /\ DOMAIN frames = 1..Len(frames)
      /\ isExec \in [Syncs -> BOOLEAN]
  BY LenProperties DEF TypeInv, TypeOK
<1>1. PICK d \in 1..Len(frames) :
        frames[d].se = s /\ frames[d].pc \in {"exec", "unlink", "wake"}
  BY <1>0 DEF InHand
<1>2. ASSUME frames' \in Seq(Frame), d \in 1..Len(frames'), frames'[d].se = s,
             frames'[d].pc \in {"exec", "unlink", "wake"}
      PROVE  FALSE
  <2>1. d \in DOMAIN frames'
    BY <1>2, LenProperties
  <2> QED
    BY <1>2, <2>1 DEF InHand
<1>3. CASE CallbackStep
  <2>1. /\ frames # <<>> /\ FramesOK /\ Len(frames) \in 1..MaxDepth
        /\ Top = frames[Len(frames)] /\ Top \in Frame /\ FrameOK(Top)
    BY <1>3, CallbackMoves, TopOK DEF TypeInv, Top
  <2>2. d = Len(frames)
    <3> SUFFICES ASSUME d \in 1..(Len(frames) - 1) PROVE FALSE
      BY <2>1
    <3>1. /\ frames' \in Seq(Frame) /\ frames'[d] = frames[d]
          /\ Len(frames') \in {Len(frames), Len(frames) - 1}
      BY <1>3, <2>1, CallbackMoves, ReturnStep, SetTopStep
    <3> QED
      BY <1>1, <1>2, <2>1, <3>1
  <2>3. Top.se = s /\ Top.pc \in {"exec", "unlink", "wake"}
    BY <1>1, <2>1, <2>2
  <2>4. ASSUME NEW f \in Frame, SetTop(f), f.se = s, f.pc \in {"unlink", "wake"} PROVE FALSE
    <3>1. /\ frames' \in Seq(Frame) /\ Len(frames') = Len(frames)
          /\ frames'[Len(frames)] = f
      BY <2>1, <2>4, SetTopStep
    <3> QED
      BY <1>1, <1>2, <2>2, <2>4, <3>1
  <2>5. CASE ExecDone
    <3> DEFINE f == [Top EXCEPT !.pc = "unlink"]
    <3>1. f \in Frame /\ f.se = s /\ f.pc = "unlink"
      BY <2>1, <2>3 DEF Frame, PCs
    <3>2. SetTop(f)
      BY <2>5 DEF ExecDone, GoTo
    <3> HIDE DEF f
    <3> QED
      BY <2>4, <3>1, <3>2
  <2>6. CASE Unlink
    <3>1. CASE Top.ex
      <4> DEFINE f == [Top EXCEPT !.pc = "wake", !.nxt = next[Top.se]]
      <4>0. next[Top.se] \in Nodes \cup {None}
        BY <2>3 DEF TypeInv, TypeOK
      <4>1. f \in Frame /\ f.se = s /\ f.pc = "wake"
        BY <2>1, <2>3, <4>0 DEF Frame, PCs
      <4>2. SetTop(f)
        BY <2>6, <3>1 DEF Unlink
      <4> HIDE DEF f
      <4> QED
        BY <2>4, <4>1, <4>2
    <3>2. CASE ~Top.ex
      <4>1. ServedBefore(Top) /\ UNCHANGED isExec
        BY <2>3, <2>6, <3>2 DEF Unlink, At, ServedBefore
      <4>2. ~isExec[s]
        BY <2>1, <2>3, <4>1 DEF AgainInv, UnmarkedInv
      <4> QED
        BY <4>1, <4>2
    <3> QED
      BY <3>1, <3>2
  <2>7. CASE Wake
    <3>1. isExec' = [isExec EXCEPT ![s] = FALSE]
      BY <2>3, <2>7 DEF Wake, Release
    <3> QED
      BY <1>0, <3>1
  <2>8. CASE LockFails
    BY <2>3, <2>8 DEF LockFails, At
  <2> QED
    BY <1>3, <2>3, <2>5, <2>6, <2>7, <2>8 DEF CallbackStep, TakeEvals, EvalStep, ReadMsgs,
       ClearMsgs, TakeEvent, RunEvent, At
<1>4. CASE StartPass
  <2>1. frames' = Append(frames, NewFrame) /\ NewFrame \in Frame
    BY <1>4, EmptySeq DEF StartPass, NewFrame, Frame, PCs
  <2>2. /\ frames' \in Seq(Frame) /\ Len(frames') = Len(frames) + 1
        /\ \A i \in 1..Len(frames) : frames'[i] = frames[i]
    <3>1. frames \in Seq(Frame) /\ Len(frames) \in Nat
      BY <1>0
    <3> QED
      BY <2>1, <3>1, AppendProperties
  <2> QED
    BY <1>0, <1>1, <1>2, <2>2
<1>5. CASE ParentStep \/ ChildSend \/ ThreadEnd \/ UseFreed \/ UNCHANGED vars
  <2>1. UNCHANGED frames
    BY <1>5 DEF ParentStep, ParentFetch, PostScript, PostSync, PostCall, PostSend, Sent,
           PostFails, WaitDone, ReadResult, ChildSend, ThreadEnd, UseFreed
  <2> QED
    BY <1>0, <1>1, <1>2, <2>1
<1> QED
  BY <1>3, <1>4, <1>5 DEF Next

\* A record is left behind only where the lock for its unlinking is refused.
LEMMA LeftByLock ==
  ASSUME TypeInv, AgainInv, [Next]_vars, NEW s \in Syncs, LeftBehind(s)'
  PROVE  LeftBehind(s) \/ (At("unlink") /\ Top.se = s /\ LockFails)
<1> USE DEF vars, queueVars, msgVars, listVars, recVars, runVars, askVars
<1>1. execs'[s] >= 1 /\ isExec'[s] /\ ~InHand(s)'
  BY DEF LeftBehind
<1>2. isExec[s]
  BY <1>1, MarksStep DEF AgainInv
<1>3. CASE RunEvent /\ Top.se = s
  <2> DEFINE f == [Top EXCEPT !.pc = "exec", !.ex = TRUE]
  <2>1. frames # <<>> /\ Top \in Frame /\ FramesOK
    BY <1>3, TopOK DEF RunEvent, At, TypeInv
  <2>2. f \in Frame /\ f.se = s /\ f.pc = "exec"
    BY <1>3, <2>1 DEF Frame, PCs
  <2>3. SetTop(f)
    BY <1>2, <1>3 DEF RunEvent
  <2> HIDE DEF f
  <2>4. /\ frames' \in Seq(Frame) /\ Len(frames') = Len(frames)
        /\ frames'[Len(frames)] = f /\ Len(frames) \in 1..MaxDepth
    BY <2>1, <2>2, <2>3, SetTopStep, TopOK
  <2>5. Len(frames) \in DOMAIN frames'
    BY <2>4, LenProperties
  <2>6. InHand(s)'
    BY <2>2, <2>4, <2>5 DEF InHand
  <2> QED
    BY <1>1, <2>6
<1>4. CASE ~(RunEvent /\ Top.se = s)
  <2>1. execs'[s] = execs[s]
    <3>1. CASE RunEvent
      <4>1. /\ Top.se # s /\ execs \in [Syncs -> 0..2]
            /\ execs' = execs \/ \E v : execs' = [execs EXCEPT ![Top.se] = v]
        BY <1>4, <3>1 DEF RunEvent, TypeInv, TypeOK
      <4> QED
        BY <4>1
    <3>2. CASE ~RunEvent
      BY <3>2 DEF Next, ParentStep, ParentFetch, PostScript, PostSync, PostCall, PostSend,
         Sent, PostFails, WaitDone, ReadResult, ChildSend, StartPass, CallbackStep,
         TakeEvals, EvalStep, ReadMsgs, ClearMsgs, TakeEvent, ExecDone, Unlink, Wake,
         LockFails, ThreadEnd, UseFreed
    <3> QED
      BY <3>1, <3>2
  <2>2. CASE InHand(s)
    BY <1>1, <2>2, KeptInHand
  <2>3. CASE ~InHand(s)
    BY <1>1, <1>2, <2>1, <2>3 DEF LeftBehind
  <2> QED
    BY <2>2, <2>3
<1> QED
  BY <1>3, <1>4

\* A second evaluation is inside the first, or of a record left behind.
LEMMA AgainInside ==
  ASSUME TypeInv, AgainInv, NEW s \in Syncs, At("event"), Top.se = s, isExec[s],
         execs[s] >= 1, ~LeftBehind(s)
  PROVE  \E d \in 1..(Len(frames) - 1) : frames[d].se = s /\ frames[d].pc = "exec"
<1>1. PICK d \in DOMAIN frames :
        frames[d].se = s /\ frames[d].pc \in {"exec", "unlink", "wake"}
  BY DEF LeftBehind, InHand
<1>2. d \in 1..Len(frames) /\ Len(frames) \in Nat
  BY <1>1, LenProperties DEF TypeInv, TypeOK
<1>3. frames[Len(frames)].pc = "event"
  BY DEF At, Top
<1>4. d \in 1..(Len(frames) - 1)
  BY <1>1, <1>2, <1>3
<1> QED
  BY <1>1, <1>4 DEF AgainInv, LowerInv

\* Whatever callbacks nest and whatever locks are refused, a synchronous eval is evaluated
\* a second time only inside its own evaluation, or after the lock for its unlinking was
\* refused.
THEOREM AgainOnlyNestedOrRefused == Spec => EvaluatedAgain
<1>1. Init => TypeInv /\ AgainInv
  BY TypeInit, AgainInit
<1>2. (TypeInv /\ AgainInv) /\ [Next]_vars => (TypeInv /\ AgainInv)'
  BY TypeNext, LowerNext, UnpostedNext, UnmarkedNext DEF AgainInv
<1> DEFINE Again == \A s \in Syncs :
       /\ LeftBehind(s)' => LeftBehind(s) \/ (At("unlink") /\ Top.se = s /\ LockFails)
       /\ At("event") /\ Top.se = s /\ RunEvent /\ isExec[s] /\ execs[s] >= 1 =>
            \/ LeftBehind(s)
            \/ \E d \in 1..(Len(frames) - 1) : frames[d].se = s /\ frames[d].pc = "exec"
<1>3. (TypeInv /\ AgainInv) /\ [Next]_vars => [Again]_vars
  BY LeftByLock, AgainInside
<1> QED
  BY <1>1, <1>2, <1>3, PTL DEF Spec, EvaluatedAgain

-----------------------------------------------------------------------------
(* The queues implement the service of EvalService.                        *)

\* The text of the callback, and how far each synchronous eval is, as Service reads them.
Buf == IF frames = <<>> THEN <<>> ELSE frames[1].buf
Progress == [s \in Syncs |-> IF result[s] # None THEN "answered"
                             ELSE IF execs[s] > 0 THEN "evaluated"
                             ELSE IF isExec[s] THEN "asked" ELSE "idle"]

\* Only while it evaluates scripts has a callback a text left; the asker has out the only
\* eval that was evaluated and not answered.
ServiceInv ==
  /\ frames # <<>> => Top.pc = "eval" \/ Top.buf = <<>>
  /\ \A s \in Syncs :
       /\ heap[s] = "none" => result[s] = None
       /\ execs[s] > 0 /\ result[s] = None =>
            parent.st \in {"waiting", "reading"} /\ parent.arg = s
  /\ parent.st \in {"waiting", "reading"} =>
       result[parent.arg] = None /\ heap[parent.arg] # "none"

\* A script appended to the queue comes after all of both texts.
LEMMA LongerQueue ==
  ASSUME NEW b \in Seq(Scripts), NEW q \in Seq(Scripts), NEW x \in Scripts
  PROVE  b \o Append(q, x) = Append(b \o q, x)
<1>1. <<x>> \in Seq(Scripts)
  <2>1. /\ Append(<<>>, x) = <<>> \o <<x>> /\ Append(<<>>, x) \in Seq(Scripts)
        /\ Append(<<>>, x) = <<x>>
    BY EmptySeq, AppendIsConcat, AppendProperties, SMT
  <2> QED
    BY <2>1
<1>2. Append(q, x) = q \o <<x>> /\ Append(b \o q, x) = (b \o q) \o <<x>>
  BY AppendIsConcat, ConcatProperties
<1> QED
  BY <1>1, <1>2, ConcatAssociative

\* The text of the callback in front of that of the queue.
LEMMA TwoTexts ==
  ASSUME NEW b \in Seq(Scripts), NEW q \in Seq(Scripts)
  PROVE  /\ b \o q \in Seq(Scripts)
         /\ b = <<>> => b \o q = q
         /\ b # <<>> => /\ b \o q # <<>> /\ Head(b \o q) = Head(b)
                        /\ Tail(b \o q) = Tail(b) \o q
                        /\ Len(b) \in 1..Len(b \o q)
                        /\ SubSeq(b \o q, Len(b) + 1, Len(b \o q)) = q
         /\ b \o q # <<>> => /\ Len(b \o q) \in 1..Len(b \o q)
                             /\ SubSeq(b \o q, Len(b \o q) + 1, Len(b \o q)) = <<>>
<1> DEFINE c == b \o q
<1>1. /\ c \in Seq(Scripts) /\ Len(c) = Len(b) + Len(q) /\ Len(b) \in Nat /\ Len(q) \in Nat
      /\ \A i \in 1..(Len(b) + Len(q)) : c[i] = IF i <= Len(b) THEN b[i] ELSE q[i - Len(b)]
  BY ConcatProperties, LenProperties
<1>2. b = <<>> => c = q
  BY ConcatEmptySeq
<1>4. ASSUME b # <<>>
      PROVE  /\ c # <<>> /\ Head(c) = Head(b) /\ Tail(c) = Tail(b) \o q
             /\ Len(b) \in 1..Len(c) /\ SubSeq(c, Len(b) + 1, Len(c)) = q
  <2>1. Len(b) \in Nat \ {0} /\ Len(c) # 0 /\ c # <<>> /\ Len(b) \in 1..Len(c)
    BY <1>1, <1>4, EmptySeq
  <2>2. Head(c) = Head(b)
    <3>1. Head(c) = c[1] /\ Head(b) = b[1]
      BY <1>1, <1>4, <2>1
    <3> QED
      BY <1>1, <2>1, <3>1
  <2>3. Tail(c) = Tail(b) \o q
    <3> DEFINE t == Tail(b)
    <3>1. /\ Tail(c) \in Seq(Scripts) /\ Len(Tail(c)) = Len(c) - 1
          /\ \A i \in 1..Len(Tail(c)) : Tail(c)[i] = c[i + 1]
      BY <1>1, <2>1, HeadTailProperties
    <3>2. /\ t \in Seq(Scripts) /\ Len(t) = Len(b) - 1
          /\ \A i \in 1..Len(t) : t[i] = b[i + 1]
      BY <1>4, HeadTailProperties
    <3> HIDE DEF t, c
    <3>3. /\ t \o q \in Seq(Scripts) /\ Len(t \o q) = Len(t) + Len(q)
          /\ \A i \in 1..(Len(t) + Len(q)) :
               (t \o q)[i] = IF i <= Len(t) THEN t[i] ELSE q[i - Len(t)]
      BY <3>2, ConcatProperties
    <3>4. Len(Tail(c)) = Len(t \o q)
      BY <1>1, <3>1, <3>2, <3>3
    <3>5. \A i \in 1..Len(Tail(c)) : Tail(c)[i] = (t \o q)[i]
      <4> TAKE i \in 1..Len(Tail(c))
      <4>1. i \in 1..(Len(t) + Len(q)) /\ i + 1 \in 1..(Len(b) + Len(q))
            /\ (i <= Len(t) <=> i + 1 <= Len(b)) /\ i - Len(t) = (i + 1) - Len(b)
        <5>1. Len(Tail(c)) = Len(t) + Len(q) /\ Len(t) = Len(b) - 1 /\ Len(t) \in Nat
          BY <1>1, <2>1, <3>1, <3>2
        <5>2. i \in 1..(Len(t) + Len(q))
          BY <5>1
        <5> QED
          BY <1>1, <5>1, <5>2
      <4>2. c[i + 1] = IF i + 1 <= Len(b) THEN b[i + 1] ELSE q[(i + 1) - Len(b)]
        BY <1>1, <4>1
      <4>3. i <= Len(t) => t[i] = b[i + 1]
        <5>1. i <= Len(t) => i \in 1..Len(t)
          BY <4>1
        <5> QED
          BY <3>2, <5>1
      <4> QED
        BY <3>1, <3>3, <4>1, <4>2, <4>3
    <3> QED
      BY <3>1, <3>3, <3>4, <3>5, SeqEqual DEF t
  <2>4. SubSeq(c, Len(b) + 1, Len(c)) = q
    <3> DEFINE m == Len(b) + 1
               n == Len(c)
               u == SubSeq(c, m, n)
    <3>1. m \in Int /\ n \in Int /\ \A i \in m..n : c[i] \in Scripts
      BY <1>1, ElementOfSeq
    <3>2. /\ u \in Seq(Scripts) /\ Len(u) = IF m <= n THEN n - m + 1 ELSE 0
          /\ \A i \in 1..(n - m + 1) : u[i] = c[m + i - 1]
      BY <3>1, SubSeqProperties
    <3>3. n - m + 1 = Len(q) /\ Len(u) = Len(q)
      BY <1>1, <3>2
    <3> HIDE DEF u, c
    <3>4. \A i \in 1..Len(u) : u[i] = q[i]
      <4> TAKE i \in 1..Len(u)
      <4>1. u[i] = c[m + i - 1] /\ m + i - 1 = Len(b) + i /\ (Len(b) + i) - Len(b) = i
            /\ Len(b) + i \in 1..(Len(b) + Len(q)) /\ ~(Len(b) + i <= Len(b))
        BY <1>1, <3>2, <3>3
      <4>2. c[Len(b) + i] = q[(Len(b) + i) - Len(b)]
        BY <1>1, <4>1
      <4> QED
        BY <4>1, <4>2
    <3>5. u = q
      BY <3>2, <3>3, <3>4, SeqEqual
    <3> QED
      BY <3>5 DEF u
  <2> QED
    BY <2>1, <2>2, <2>3, <2>4
<1>5. ASSUME c # <<>>
      PROVE  Len(c) \in 1..Len(c) /\ SubSeq(c, Len(c) + 1, Len(c)) = <<>>
  <2>1. Len(c) \in Nat \ {0}
    BY <1>1, <1>5, EmptySeq
  <2> QED
    BY <2>1, SubSeqEmpty
<1> QED
  BY <1>1, <1>2, <1>4, <1>5

\* What the operations on the stack do to the text.
LEMMA BufStep ==
  ASSUME MaxDepth = 1, TypeInv, TypeInv'
  PROVE  /\ Buf \in Seq(Scripts) /\ Buf' \in Seq(Scripts)
         /\ frames # <<>> => Buf = Top.buf
         /\ frames = <<>> => Buf = <<>>
         /\ frames' # <<>> => Buf' = Top'.buf
         /\ frames' = <<>> => Buf' = <<>>
<1>1. <<>> \in Seq(Scripts)
  BY EmptySeq
<1>2. frames # <<>> => Len(frames) = 1 /\ Top \in Frame
  BY OneCallback
<1>3. frames' # <<>> => Len(frames') = 1 /\ frames'[1] \in Frame
  <2> SUFFICES ASSUME frames' # <<>> PROVE Len(frames') = 1 /\ frames'[1] \in Frame
    OBVIOUS
  <2>1. frames' \in Seq(Frame) /\ Len(frames') <= 1
    BY DEF TypeInv, TypeOK
  <2>2. \A s \in Seq(Frame) : s # <<>> => Len(s) \in Nat \ {0}
    BY EmptySeq
  <2>3. Len(frames') = 1
    <3>1. Len(frames') \in Nat \ {0}
      BY <2>1, <2>2, Zenon
    <3>2. \A n \in Nat \ {0} : n <= 1 => n = 1
      OBVIOUS
    <3> QED
      BY <2>1, <3>1, <3>2, Zenon
  <2> QED
    BY <2>1, <2>3, ElementOfSeq
<1> QED
  BY <1>1, <1>2, <1>3 DEF Buf, Top, Frame

LEMMA MoveKeepsText ==
  ASSUME MaxDepth = 1, TypeInv, frames # <<>>
  PROVE  /\ \A pc \in PCs : GoTo(pc) => frames' # <<>> /\ Top'.pc = pc /\ Top'.buf = Top.buf
         /\ \A n \in Nodes \cup {None} : Continue(n) =>
              frames' = <<>> \/ (frames' # <<>> /\ Top'.pc = "event" /\ Top'.buf = Top.buf)
<1>1. Top \in Frame
  BY OneCallback
<1>2. ASSUME NEW pc \in PCs, GoTo(pc)
      PROVE  frames' # <<>> /\ Top'.pc = pc /\ Top'.buf = Top.buf
  <2> DEFINE f == [Top EXCEPT !.pc = pc]
  <2>1. f \in Frame /\ f.pc = pc /\ f.buf = Top.buf
    BY <1>1 DEF Frame
  <2>2. SetTop(f)
    BY <1>2 DEF GoTo
  <2> HIDE DEF f
  <2> QED
    BY <2>1, <2>2, OneCallback
<1>3. ASSUME NEW n \in Nodes \cup {None}, Continue(n)
      PROVE  frames' = <<>> \/ (frames' # <<>> /\ Top'.pc = "event" /\ Top'.buf = Top.buf)
  <2> DEFINE f == [Top EXCEPT !.pc = "event", !.se = n, !.nxt = None]
  <2>1. n # None => f \in Frame /\ f.pc = "event" /\ f.buf = Top.buf
    BY <1>1 DEF Frame, PCs
  <2>2. IF n = None THEN Return ELSE SetTop(f)
    BY <1>3 DEF Continue
  <2> HIDE DEF f
  <2> QED
    BY <2>1, <2>2, OneCallback
<1> QED
  BY <1>2, <1>3

\* Scripts may be lost only where the service is lossy.
Lossy == (Throwing \cap Scripts) \cup Malformed # {} \/ Msgs # {}

\* What a step of the callback does to the scripts: nothing; it loses those of the queue or
\* of its own text; or it starts the first of one of them.
LEMMA CallbackText ==
  ASSUME MaxDepth = 1, TypeInv, TypeInv', ServiceInv, CallbackStep
  PROVE  /\ frames' # <<>> => Top'.pc = "eval" \/ Top'.buf = <<>>
         /\ posted' = posted
         /\ \/ ran' = ran /\ evalQ' = evalQ /\ Buf' = Buf
            \/ ran' = ran /\ Lossy /\ Buf = <<>> /\ Buf' = <<>> /\ evalQ' = <<>>
            \/ ran' = ran /\ Lossy /\ Buf' = <<>> /\ evalQ' = evalQ
            \/ /\ Buf = <<>> /\ evalQ # <<>> /\ ran' = Append(ran, Head(evalQ))
               /\ Buf' = Tail(evalQ) /\ evalQ' = <<>>
            \/ /\ Buf # <<>> /\ ran' = Append(ran, Head(Buf)) /\ Buf' = Tail(Buf)
               /\ evalQ' = evalQ
<1> USE DEF queueVars, msgVars, listVars, recVars, runVars, askVars
<1>1. frames # <<>> /\ Top \in Frame /\ FrameOK(Top)
  BY OneCallback DEF CallbackStep, TakeEvals, EvalStep, ReadMsgs, ClearMsgs, TakeEvent, RunEvent,
         ExecDone, Unlink, Wake, LockFails, At
<1>2. Buf = Top.buf /\ (Top.pc # "eval" => Buf = <<>>)
  BY <1>1, BufStep DEF ServiceInv
<1>3. /\ frames' # <<>> => Buf' = Top'.buf
      /\ frames' = <<>> => Buf' = <<>>
  BY BufStep
<1>4. posted' = posted
  BY DEF CallbackStep, TakeEvals, EvalStep, ReadMsgs, ClearMsgs, TakeEvent, RunEvent,
         ExecDone, Unlink, Wake, LockFails
<1>5. \A pc \in PCs : GoTo(pc) => frames' # <<>> /\ Top'.pc = pc /\ Top'.buf = Top.buf
  BY <1>1, MoveKeepsText
<1>6. ASSUME NEW h \in Scripts, NEW t \in Seq(Scripts),
             SetTop([Top EXCEPT !.pc = "eval", !.cur = h, !.buf = t])
      PROVE  frames' # <<>> /\ Top'.pc = "eval" /\ Top'.buf = t
  <2> DEFINE f == [Top EXCEPT !.pc = "eval", !.cur = h, !.buf = t]
  <2>1. f \in Frame /\ f.pc = "eval" /\ f.buf = t
    <3>1. h \in 0..NumScripts /\ "eval" \in PCs
      BY DEF PCs
    <3> QED
      BY <1>1, <3>1 DEF Frame
  <2>2. SetTop(f)
    BY <1>6 DEF f
  <2> HIDE DEF f
  <2> QED
    BY <1>1, <2>1, <2>2, OneCallback
<1>7. ASSUME TakeMsgs, ran' = ran, Top.pc # "eval"
      PROVE  /\ frames' # <<>> => Top'.pc = "eval" \/ Top'.buf = <<>>
             /\ ran' = ran /\ Buf' = Buf
             /\ evalQ' = evalQ \/ (Lossy /\ Buf = <<>> /\ evalQ' = <<>>)
  <2>1. \E pc \in {"events", "clear"} : GoTo(pc)
    BY <1>7 DEF TakeMsgs
  <2>2. frames' # <<>> /\ Top'.buf = Top.buf
    BY <1>5, <2>1 DEF PCs
  <2>3. evalQ' = evalQ \/ (msgQ # <<>> /\ evalQ' = <<>>)
    BY <1>7 DEF TakeMsgs
  <2>4. msgQ # <<>> => Msgs # {}
    <3> SUFFICES ASSUME msgQ # <<>> PROVE Msgs # {}
      OBVIOUS
    <3>1. Head(msgQ) \in Msgs
      BY HeadTailProperties DEF TypeInv, TypeOK
    <3> QED
      BY <3>1
  <2> QED
    BY <1>2, <1>3, <1>7, <2>2, <2>3, <2>4 DEF Lossy
<1>8. CASE TakeEvals
  <2>1. Top.pc = "evals"
    BY <1>8 DEF TakeEvals, At
  <2>2. CASE evalQ = <<>>
    <3>1. TakeMsgs /\ ran' = ran
      BY <1>8, <2>2 DEF TakeEvals
    <3> QED
      BY <1>2, <1>4, <1>7, <2>1, <3>1
  <2>3. CASE evalQ # <<>> /\ \E i \in DOMAIN evalQ : evalQ[i] \in Malformed
    <3>1. GoTo("msgs") /\ ran' = ran /\ evalQ' = <<>> /\ Malformed # {}
      BY <1>8, <2>3 DEF TakeEvals, EmptyEvalQ
    <3>2. frames' # <<>> /\ Top'.buf = Top.buf
      BY <1>5, <3>1 DEF PCs
    <3> QED
      BY <1>2, <1>3, <1>4, <2>1, <3>1, <3>2 DEF Lossy
  <2>4. CASE evalQ # <<>> /\ ~\E i \in DOMAIN evalQ : evalQ[i] \in Malformed
    <3>1. /\ SetTop([Top EXCEPT !.pc = "eval", !.cur = Head(evalQ), !.buf = Tail(evalQ)])
          /\ ran' = Append(ran, Head(evalQ)) /\ evalQ' = <<>>
      BY <1>8, <2>4 DEF TakeEvals, EmptyEvalQ
    <3>2. Head(evalQ) \in Scripts /\ Tail(evalQ) \in Seq(Scripts)
      BY <2>4, HeadTailProperties DEF TypeInv, TypeOK
    <3>3. frames' # <<>> /\ Top'.pc = "eval" /\ Top'.buf = Tail(evalQ)
      BY <1>6, <3>1, <3>2
    <3> QED
      BY <1>2, <1>3, <1>4, <2>1, <2>4, <3>1, <3>3
  <2> QED
    BY <2>2, <2>3, <2>4
<1>9. CASE EvalStep
  <2>1. Top.pc = "eval" /\ evalQ' = evalQ
    BY <1>9 DEF EvalStep, At
  <2>2. CASE Top.cur \in Throwing
    <3> DEFINE f == [Top EXCEPT !.pc = "msgs", !.buf = <<>>]
    <3>1. f \in Frame /\ f.pc = "msgs" /\ f.buf = <<>>
      BY <1>1, EmptySeq DEF Frame, PCs
    <3>2. SetTop(f) /\ ran' = ran
      BY <1>9, <2>2 DEF EvalStep
    <3> HIDE DEF f
    <3>3. frames' # <<>> /\ Top' = f
      BY <1>1, <3>1, <3>2, OneCallback
    <3> QED
      <4>1. Top.cur \in Throwing \cap Scripts
        BY <1>1, <2>1, <2>2, TopOK DEF FrameOK, TypeInv
      <4> QED
        BY <1>3, <1>4, <2>1, <3>1, <3>2, <3>3, <4>1 DEF Lossy
  <2>3. CASE Top.cur \notin Throwing /\ Top.buf # <<>>
    <3>1. Head(Top.buf) \in Scripts /\ Tail(Top.buf) \in Seq(Scripts)
      BY <1>1, <2>3, HeadTailProperties DEF Frame
    <3>2. [Top EXCEPT !.cur = Head(Top.buf), !.buf = Tail(Top.buf)]
          = [Top EXCEPT !.pc = "eval", !.cur = Head(Top.buf), !.buf = Tail(Top.buf)]
      BY <1>1, <2>1 DEF Frame
    <3>3. /\ SetTop([Top EXCEPT !.cur = Head(Top.buf), !.buf = Tail(Top.buf)])
          /\ ran' = Append(ran, Head(Top.buf))
      BY <1>9, <2>3 DEF EvalStep
    <3>4. frames' # <<>> /\ Top'.pc = "eval" /\ Top'.buf = Tail(Top.buf)
      BY <1>6, <3>1, <3>2, <3>3
    <3> QED
      BY <1>2, <1>3, <1>4, <2>1, <2>3, <3>3, <3>4
  <2>4. CASE Top.cur \notin Throwing /\ Top.buf = <<>>
    <3>1. GoTo("msgs") /\ ran' = ran
      BY <1>9, <2>4 DEF EvalStep
    <3>2. frames' # <<>> /\ Top'.buf = Top.buf
      BY <1>5, <3>1 DEF PCs
    <3> QED
      BY <1>2, <1>3, <1>4, <2>1, <2>4, <3>1, <3>2
  <2> QED
    BY <2>2, <2>3, <2>4
<1>10. CASE ReadMsgs
  BY <1>2, <1>4, <1>7, <1>10 DEF ReadMsgs, At
<1>11. CASE ~(TakeEvals \/ EvalStep \/ ReadMsgs)
  <2>1. evalQ' = evalQ /\ ran' = ran /\ Top.pc # "eval"
    BY <1>11 DEF CallbackStep, ClearMsgs, TakeEvent, RunEvent, ExecDone, Unlink, Wake,
           LockFails, At
  <2>2. \/ \E pc \in PCs : GoTo(pc)
        \/ \E n \in Nodes \cup {None} : Continue(n)
        \/ Return
        \/ \E f \in Frame : SetTop(f) /\ f.buf = Top.buf
    <3>1. CASE ClearMsgs \/ ExecDone \/ LockFails
      BY <3>1 DEF ClearMsgs, ExecDone, LockFails, PCs
    <3>2. CASE TakeEvent \/ Wake
      BY <1>1, <3>2 DEF TakeEvent, Wake, TypeInv, TypeOK, Frame
    <3>3. CASE RunEvent
      <4> DEFINE f == [Top EXCEPT !.pc = "exec", !.ex = TRUE]
                 g == [Top EXCEPT !.pc = "unlink", !.ex = FALSE]
      <4>1. f \in Frame /\ f.buf = Top.buf /\ g \in Frame /\ g.buf = Top.buf
        BY <1>1 DEF Frame, PCs
      <4>2. SetTop(f) \/ SetTop(g)
        BY <3>3 DEF RunEvent
      <4> QED
        BY <4>1, <4>2
    <3>4. CASE Unlink
      <4> DEFINE f == [Top EXCEPT !.pc = "wake", !.nxt = next[Top.se]]
      <4>0. next[Top.se] \in Nodes \cup {None}
        BY <1>1, <3>4 DEF Unlink, At, FrameOK, TypeInv, TypeOK
      <4>1. f \in Frame /\ f.buf = Top.buf
        BY <1>1, <4>0 DEF Frame, PCs
      <4>2. SetTop(f) \/ Continue(next[Top.se])
        BY <3>4 DEF Unlink
      <4> QED
        BY <4>0, <4>1, <4>2
    <3> QED
      BY <1>11, <3>1, <3>2, <3>3, <3>4 DEF CallbackStep
  <2>3. frames' = <<>> \/ (frames' # <<>> /\ Top'.buf = Top.buf)
    BY <1>1, <1>5, <2>2, MoveKeepsText, OneCallback
  <2> QED
    BY <1>2, <1>3, <1>4, <2>1, <2>3
<1> QED
  BY <1>8, <1>9, <1>10, <1>11

\* How far the synchronous evals are, and who is answered, is kept by most steps.
LEMMA ServiceNext ==
  ASSUME MaxDepth = 1, TypeInv, TypeInv', ListInv, ListInv', AnswerInv, ServiceInv, [Next]_vars
  PROVE  ServiceInv'
<1> USE DEF vars, queueVars, msgVars, listVars, recVars, runVars, askVars
<1>0. /\ heap \in [Nodes -> {"none", "live", "freed"}] /\ isExec \in [Syncs -> BOOLEAN]
      /\ execs \in [Syncs -> 0..2] /\ parent \in Asking
      /\ result \in [Syncs -> Scripts \cup Syncs \cup {0, Failed, None}]
      /\ iret \in Scripts \cup Syncs \cup {0}
  BY DEF TypeInv, TypeOK
<1>1. frames' # <<>> => Top'.pc = "eval" \/ Top'.buf = <<>>
  <2>1. CASE CallbackStep
    BY <2>1, CallbackText
  <2>2. CASE StartPass
    <3>1. /\ frames' = Append(frames, NewFrame) /\ Len(frames) < 1 /\ frames \in Seq(Frame)
          /\ NewFrame \in Frame
      BY <2>2, EmptySeq DEF StartPass, TypeInv, TypeOK, NewFrame, Frame, PCs
    <3>2. frames = <<>>
      BY <3>1, LenProperties, EmptySeq
    <3>3. Len(frames') = 1 /\ frames'[1] = NewFrame
      BY <3>1, <3>2, AppendProperties, EmptySeq
    <3>4. Top'.buf = <<>>
      BY <3>3 DEF Top, NewFrame
    <3> QED
      BY <3>4
  <2>3. CASE ParentStep \/ ChildSend \/ ThreadEnd \/ UseFreed \/ UNCHANGED vars
    <3>1. UNCHANGED frames /\ Top' = Top
      BY <2>3 DEF ParentStep, ParentFetch, PostScript, PostSync, PostCall, PostSend, Sent,
         PostFails, WaitDone, ReadResult, ChildSend, ThreadEnd, UseFreed, Top
    <3> QED
      BY <3>1 DEF ServiceInv
  <2> QED
    BY <2>1, <2>2, <2>3 DEF Next
<1> SUFFICES
      /\ \A s \in Syncs :
           /\ heap'[s] = "none" => result'[s] = None
           /\ execs'[s] > 0 /\ result'[s] = None =>
                parent'.st \in {"waiting", "reading"} /\ parent'.arg = s
      /\ parent'.st \in {"waiting", "reading"} =>
           result'[parent'.arg] = None /\ heap'[parent'.arg] # "none"
  BY <1>1 DEF ServiceInv
<1>2. CASE ReadResult
  <2>1. PICK s \in Syncs : parent = [st |-> "reading", op |-> "sync", arg |-> s]
    BY <1>0, <1>2, ParentShape DEF ReadResult
  <2>2. /\ result' = [result EXCEPT ![s] = IF s \in Throwing THEN Failed ELSE iret]
        /\ parent' = Idle /\ UNCHANGED <<heap, execs>>
    BY <1>2, <2>1 DEF ReadResult
  <2>3. result'[s] # None /\ \A t \in Syncs : t # s => result'[t] = result[t]
    BY <1>0, <2>2
  <2>4. parent'.st = "idle"
    BY <2>2 DEF Idle
  <2> QED
    BY <2>1, <2>2, <2>3, <2>4 DEF ServiceInv
<1>3. CASE PostSync
  <2>1. PICK s \in Syncs : parent = [st |-> "posting", op |-> "sync", arg |-> s]
    BY <1>0, <1>3, ParentShape DEF PostSync, Posting
  <2>2. parent' = [st |-> "waiting", op |-> "sync", arg |-> s]
    BY <1>3, <2>1 DEF PostSync
  <2>3. heap' = [heap EXCEPT ![s] = "live"] /\ UNCHANGED <<result, execs>> /\ heap[s] = "none"
    BY <1>3, <2>1 DEF PostSync, NewRecord, ListInv, CallerInv
  <2>4. heap'[s] = "live" /\ \A t \in Syncs : t # s => heap'[t] = heap[t]
    BY <1>0, <2>3
  <2> QED
    BY <2>1, <2>2, <2>3, <2>4 DEF ServiceInv
<1>4. CASE WaitDone
  <2>1. PICK s \in Syncs : parent = [st |-> "waiting", op |-> "sync", arg |-> s]
    BY <1>0, <1>4, ParentShape DEF WaitDone
  <2>2. parent' = [st |-> "reading", op |-> "sync", arg |-> s]
    BY <1>4, <2>1 DEF WaitDone
  <2>3. heap' = [heap EXCEPT ![s] = "freed"] /\ UNCHANGED <<result, execs>>
    BY <1>4, <2>1 DEF WaitDone
  <2>4. heap'[s] = "freed" /\ \A t \in Syncs : t # s => heap'[t] = heap[t]
    BY <1>0, <2>3
  <2> QED
    BY <2>1, <2>2, <2>3, <2>4 DEF ServiceInv
<1>5. CASE PostCall
  <2>1. /\ parent.st = "posting" /\ parent.arg \in Calls /\ parent' = Idle
        /\ heap' = [heap EXCEPT ![parent.arg] = "live"] /\ UNCHANGED <<result, execs>>
    BY <1>0, <1>5, ParentShape DEF PostCall, Posting, NewRecord
  <2>2. \A t \in Syncs : heap'[t] = heap[t]
    BY <1>0, <2>1
  <2> QED
    BY <2>1, <2>2 DEF ServiceInv, Idle
<1>6. CASE ParentStep /\ ~(ReadResult \/ PostSync \/ WaitDone \/ PostCall)
  <2>1. /\ UNCHANGED <<heap, execs, result>> /\ parent.st \in {"idle", "posting"}
        /\ parent'.st \in {"idle", "posting"}
    BY <1>6 DEF ParentStep, ParentFetch, PostScript, PostSend, Sent, PostFails, Posting, Idle
  <2> QED
    BY <2>1 DEF ServiceInv
<1>7. CASE RunEvent
  <2>1. UNCHANGED <<heap, result, parent, isExec>>
    BY <1>7 DEF RunEvent
  <2>2. \A s \in Syncs : execs'[s] > 0 => execs[s] > 0 \/ isExec[s] = TRUE
    <3>1. CASE Top.se \in Syncs /\ isExec[Top.se]
      <4>1. execs' = [execs EXCEPT ![Top.se] = IF @ < 2 THEN @ + 1 ELSE @]
        BY <1>7, <3>1 DEF RunEvent
      <4> QED
        BY <1>0, <3>1, <4>1
    <3>2. CASE ~(Top.se \in Syncs /\ isExec[Top.se])
      BY <1>7, <3>2 DEF RunEvent
    <3> QED
      BY <3>1, <3>2
  <2>3. \A s \in Syncs : isExec[s] = TRUE => parent.st = "waiting" /\ parent.arg = s
    BY DEF ListInv, CallerInv
  <2> QED
    BY <2>1, <2>2, <2>3 DEF ServiceInv
<1>8. CASE CallbackStep /\ ~RunEvent
  <2>1. /\ UNCHANGED <<result, execs>>
        /\ parent' = parent \/ (parent' = Idle /\ parent.st = "posting")
    BY <1>8 DEF CallbackStep, TakeEvals, EvalStep, ReadMsgs, ClearMsgs, TakeEvent, ExecDone,
           Unlink, Wake, LockFails, Posting
  <2>2. \A n \in Nodes : heap'[n] = "none" <=> heap[n] = "none"
    <3>1. CASE Unlink
      <4>1. heap[Top.se] = "live" /\ (UNCHANGED heap \/ heap' = [heap EXCEPT ![Top.se] = "freed"])
        BY <3>1 DEF Unlink, FreeServed
      <4> QED
        BY <1>0, <4>1
    <3>2. CASE ~Unlink
      BY <1>8, <3>2 DEF CallbackStep, TakeEvals, EvalStep, ReadMsgs, ClearMsgs, TakeEvent,
             ExecDone, Wake, LockFails
    <3> QED
      BY <3>1, <3>2
  <2>3. parent.st \in {"waiting", "reading"} => parent.arg \in Syncs
    BY <1>0, ParentShape
  <2> QED
    BY <2>1, <2>2, <2>3 DEF ServiceInv, Idle
<1>9. CASE ChildSend \/ StartPass \/ ThreadEnd \/ UseFreed \/ UNCHANGED vars
  <2>1. UNCHANGED <<heap, result, execs, parent>>
    BY <1>9 DEF ChildSend, Sent, StartPass, ThreadEnd, UseFreed
  <2> QED
    BY <2>1 DEF ServiceInv
<1> QED
  BY <1>2, <1>3, <1>4, <1>5, <1>6, <1>7, <1>8, <1>9 DEF Next

\* A step keeps the abstract scripts, or hands over, starts or loses some.
Pending == Buf \o evalQ
SameScripts == UNCHANGED <<posted, Pending, ran>>

LEMMA ScriptStep ==
  ASSUME MaxDepth = 1, TypeInv, TypeInv', ScriptsInv, ServiceInv, [Next]_vars
  PROVE  \/ SameScripts
         \/ /\ posted < NumScripts /\ posted' = posted + 1
            /\ Pending' = Append(Pending, posted + 1) /\ ran' = ran
            /\ UNCHANGED <<result, execs, isExec>>
         \/ /\ Pending # <<>> /\ ran' = Append(ran, Head(Pending))
            /\ Pending' = Tail(Pending) /\ posted' = posted
            /\ UNCHANGED <<result, execs, isExec>>
         \/ /\ Lossy
            /\ \E k \in 1..Len(Pending) : Pending' = SubSeq(Pending, k + 1, Len(Pending))
            /\ UNCHANGED <<posted, ran, result, execs, isExec>>
<1> USE DEF vars, queueVars, msgVars, listVars, recVars, runVars, askVars
<1>0. /\ Buf \in Seq(Scripts) /\ evalQ \in Seq(Scripts) /\ Buf' \in Seq(Scripts)
      /\ evalQ' \in Seq(Scripts)
  BY BufStep DEF TypeInv, TypeOK
<1>1. CASE CallbackStep
  <2> DEFINE noAsk == UNCHANGED <<result, execs, isExec>>
  <2>0. TakeEvals \/ EvalStep \/ ReadMsgs => noAsk
    BY DEF TakeEvals, EvalStep, ReadMsgs
  <2>1. posted' = posted
    BY <1>1, CallbackText
  <2>2. ~(TakeEvals \/ EvalStep \/ ReadMsgs) => ran' = ran /\ evalQ' = evalQ /\ Top.pc # "eval"
    BY <1>1 DEF CallbackStep, ClearMsgs, TakeEvent, RunEvent, ExecDone, Unlink, Wake,
           LockFails, At
  <2>3. ~(TakeEvals \/ EvalStep \/ ReadMsgs) => Buf' = Buf
    <3> SUFFICES ASSUME ~(TakeEvals \/ EvalStep \/ ReadMsgs) PROVE Buf' = Buf
      OBVIOUS
    <3>1. frames # <<>>
      BY <1>1 DEF CallbackStep, ClearMsgs, TakeEvent, RunEvent, ExecDone, Unlink, Wake,
           LockFails, At
    <3>2. Buf = <<>>
      BY <2>2, <3>1, BufStep DEF ServiceInv
    <3>3. ran \in Seq(Scripts)
      BY DEF TypeInv, TypeOK
    <3>4. \A x \in Scripts : ran # Append(ran, x)
      <4> TAKE x \in Scripts
      <4>1. Len(Append(ran, x)) = Len(ran) + 1 /\ Len(ran) \in Nat
        BY <3>3, AppendProperties, LenProperties
      <4> QED
        BY <4>1
    <3>5. evalQ # <<>> => Head(evalQ) \in Scripts
      BY <1>0, HeadTailProperties
    <3> QED
      BY <1>1, <2>2, <3>2, <3>4, <3>5, CallbackText
  <2>4. CASE ran' = ran /\ evalQ' = evalQ /\ Buf' = Buf
    BY <2>1, <2>4 DEF SameScripts, Pending
  <2>5. CASE ran' = ran /\ Lossy /\ Buf = <<>> /\ Buf' = <<>> /\ evalQ' = <<>>
    <3>1. Pending = evalQ /\ Pending' = <<>>
      BY <1>0, <2>5, TwoTexts DEF Pending
    <3>2. CASE evalQ = <<>>
      BY <2>1, <2>5, <3>1, <3>2 DEF SameScripts
    <3>3. CASE evalQ # <<>>
      <4>1. noAsk
        BY <2>0, <2>2, <2>5, <3>3
      <4>2. /\ Len(Pending) \in 1..Len(Pending)
            /\ SubSeq(Pending, Len(Pending) + 1, Len(Pending)) = <<>>
        BY <1>0, <3>1, <3>3, TwoTexts DEF Pending
      <4> QED
        BY <2>1, <2>5, <3>1, <4>1, <4>2
    <3> QED
      BY <3>2, <3>3
  <2>6. CASE ran' = ran /\ Lossy /\ Buf' = <<>> /\ evalQ' = evalQ
    <3>1. Pending' = evalQ
      BY <1>0, <2>6, TwoTexts DEF Pending
    <3>2. CASE Buf = <<>>
      BY <2>1, <2>6, <3>2 DEF SameScripts, Pending
    <3>3. CASE Buf # <<>>
      <4>1. noAsk
        BY <2>0, <2>3, <2>6, <3>3
      <4>2. /\ Len(Buf) \in 1..Len(Pending)
            /\ SubSeq(Pending, Len(Buf) + 1, Len(Pending)) = evalQ
        BY <1>0, <3>3, TwoTexts DEF Pending
      <4> QED
        BY <2>1, <2>6, <3>1, <4>1, <4>2
    <3> QED
      BY <3>2, <3>3
  <2>7. CASE /\ Buf = <<>> /\ evalQ # <<>> /\ ran' = Append(ran, Head(evalQ))
             /\ Buf' = Tail(evalQ) /\ evalQ' = <<>>
    <3>1. Pending = evalQ
      BY <1>0, <2>7, TwoTexts DEF Pending
    <3>2. Pending' = Tail(evalQ)
      BY <1>0, <2>7, ConcatEmptySeq DEF Pending
    <3>3. noAsk
      BY <2>0, <2>2, <2>7
    <3> QED
      BY <2>1, <2>7, <3>1, <3>2, <3>3
  <2>8. CASE /\ Buf # <<>> /\ ran' = Append(ran, Head(Buf)) /\ Buf' = Tail(Buf)
             /\ evalQ' = evalQ
    <3>1. Pending # <<>> /\ Head(Pending) = Head(Buf) /\ Tail(Pending) = Tail(Buf) \o evalQ
      BY <1>0, <2>8, TwoTexts DEF Pending
    <3>2. noAsk
      <4>1. Len(Tail(Buf)) # Len(Buf)
        BY <1>0, <2>8, HeadTailProperties, LenProperties
      <4> QED
        BY <2>0, <2>3, <2>8, <4>1
    <3> QED
      BY <2>1, <2>8, <3>1, <3>2 DEF Pending
  <2> QED
    BY <1>1, <2>4, <2>5, <2>6, <2>7, <2>8, CallbackText
<1>2. CASE PostScript
  <2>1. /\ parent.arg \in Scripts /\ parent.st = "posting" /\ parent.op = "script"
        /\ evalQ' = Append(evalQ, parent.arg) /\ posted' = parent.arg
        /\ UNCHANGED <<frames, ran, result, execs, isExec>>
    BY <1>2, ParentShape DEF PostScript, Posting, TypeInv, TypeOK
  <2>2. parent.arg = posted + 1
    BY <2>1 DEF ScriptsInv, NumberInv
  <2>3. Buf' = Buf
    BY <2>1 DEF Buf
  <2>4. Pending' = Append(Pending, posted + 1)
    <3>1. parent.arg \in Scripts /\ Buf \in Seq(Scripts) /\ evalQ \in Seq(Scripts)
      BY <1>0, <2>1
    <3>2. Buf \o Append(evalQ, parent.arg) = Append(Buf \o evalQ, parent.arg)
      BY <3>1, LongerQueue
    <3> QED
      BY <2>1, <2>2, <2>3, <3>2 DEF Pending
  <2>5. posted < NumScripts
    BY <2>1, <2>2 DEF TypeInv, TypeOK
  <2> QED
    BY <2>1, <2>2, <2>4, <2>5
<1>3. CASE StartPass
  <2>1. /\ UNCHANGED <<posted, evalQ, ran>> /\ frames' = Append(frames, NewFrame)
        /\ Len(frames) < 1 /\ frames \in Seq(Frame) /\ NewFrame \in Frame
    BY <1>3, EmptySeq DEF StartPass, TypeInv, TypeOK, NewFrame, Frame, PCs
  <2>2. frames = <<>>
    BY <2>1, LenProperties, EmptySeq
  <2>3. frames'[1] = NewFrame /\ frames' # <<>>
    BY <2>1, <2>2, AppendProperties, EmptySeq
  <2>4. Buf = <<>> /\ Buf' = <<>>
    BY <2>2, <2>3 DEF Buf, NewFrame
  <2> QED
    BY <2>1, <2>4 DEF SameScripts, Pending
<1>4. CASE (ParentStep /\ ~PostScript) \/ ChildSend \/ ThreadEnd \/ UseFreed \/ UNCHANGED vars
  <2>1. UNCHANGED <<posted, evalQ, ran, frames>>
    BY <1>4 DEF ParentStep, ParentFetch, PostSync, PostCall, PostSend, Sent, Enqueue,
         PostFails, WaitDone, ReadResult, ChildSend, ThreadEnd, UseFreed
  <2>2. Buf' = Buf
    BY <2>1 DEF Buf
  <2> QED
    BY <2>1, <2>2 DEF SameScripts, Pending
<1> QED
  BY <1>1, <1>2, <1>3, <1>4 DEF Next

\* A step keeps how far each synchronous eval is, or asks, evaluates or answers one.
Free == \A t \in Syncs : Progress[t] \in {"idle", "answered"}
LEMMA SyncStep ==
  ASSUME MaxDepth = 1, ~LockTimed, TypeInv, TypeInv', ListInv, OnceInv, AnswerInv,
         ServiceInv, [Next]_vars
  PROVE  \/ Progress' = Progress
         \/ \E s \in Syncs :
              /\ SameScripts \/ ~UNCHANGED <<result, execs, isExec>>
              /\ \/ /\ Free /\ Progress[s] = "idle"
                    /\ Progress' = [Progress EXCEPT ![s] = "asked"]
                 \/ /\ Progress[s] = "asked"
                    /\ Progress' = [Progress EXCEPT ![s] = "evaluated"]
                 \/ /\ Progress[s] = "evaluated"
                    /\ Progress' = [Progress EXCEPT ![s] = "answered"]
<1> USE DEF vars, queueVars, msgVars, listVars, recVars, runVars, askVars
<1>0. /\ heap \in [Nodes -> {"none", "live", "freed"}] /\ isExec \in [Syncs -> BOOLEAN]
      /\ execs \in [Syncs -> 0..2] /\ parent \in Asking
      /\ result \in [Syncs -> Scripts \cup Syncs \cup {0, Failed, None}]
      /\ iret \in Scripts \cup Syncs \cup {0}
  BY DEF TypeInv, TypeOK
<1>1. CASE PostSync
  <2>1. PICK s \in Syncs : parent = [st |-> "posting", op |-> "sync", arg |-> s]
    BY <1>0, <1>1, ParentShape DEF PostSync, Posting
  <2>2. /\ isExec' = [isExec EXCEPT ![s] = TRUE] /\ UNCHANGED <<result, execs>>
        /\ heap[s] = "none"
    BY <1>1, <2>1 DEF PostSync, MarkExec, ListInv, CallerInv
  <2>3. \A t \in Syncs : isExec[t] = FALSE /\ (execs[t] > 0 => result[t] # None)
    BY <1>0, <2>1 DEF ListInv, CallerInv, ServiceInv
  <2>4. result[s] = None /\ execs[s] = 0
    BY <2>2 DEF ServiceInv, OnceInv
  <2>5. Free /\ Progress[s] = "idle"
    BY <2>3, <2>4 DEF Free, Progress
  <2>6. /\ isExec'[s] = TRUE /\ \A t \in Syncs : t # s => isExec'[t] = isExec[t]
    BY <1>0, <2>2
  <2>7. Progress' = [Progress EXCEPT ![s] = "asked"]
    BY <2>2, <2>3, <2>4, <2>6 DEF Progress
  <2>8. ~UNCHANGED <<result, execs, isExec>>
    BY <2>3, <2>6
  <2> QED
    BY <2>5, <2>7, <2>8
<1>2. CASE RunEvent
  <2>1. UNCHANGED <<result, isExec>>
    BY <1>2 DEF RunEvent
  <2>2. CASE Top.se \in Syncs /\ isExec[Top.se]
    <3>0. PICK s \in Syncs : s = Top.se
      BY <2>2
    <3>1. execs' = [execs EXCEPT ![s] = IF @ < 2 THEN @ + 1 ELSE @] /\ isExec[s] = TRUE
      BY <1>0, <1>2, <2>2, <3>0 DEF RunEvent
    <3>2. execs[s] = 0
      BY <1>2, <3>0, <3>1 DEF OnceInv, RunEvent, At
    <3>3. execs'[s] = 1 /\ \A t \in Syncs : t # s => execs'[t] = execs[t]
      BY <1>0, <3>0, <3>1, <3>2
    <3>4. result[s] = None
      BY <3>2 DEF AnswerInv, AnswerAfterRun
    <3>5. Progress[s] = "asked"
      BY <3>1, <3>2, <3>4 DEF Progress
    <3>6. execs'[s] > 0 /\ result'[s] = None
      BY <2>1, <3>3, <3>4
    <3>7. Progress' = [Progress EXCEPT ![s] = "evaluated"]
      BY <2>1, <3>3, <3>6 DEF Progress
    <3>8. ~UNCHANGED <<result, execs, isExec>>
      BY <3>2, <3>3
    <3> QED
      BY <3>5, <3>7, <3>8
  <2>3. CASE ~(Top.se \in Syncs /\ isExec[Top.se])
    <3>1. UNCHANGED execs
      BY <1>2, <2>3 DEF RunEvent
    <3> QED
      BY <2>1, <3>1 DEF Progress
  <2> QED
    BY <2>2, <2>3
<1>3. CASE ReadResult
  <2>1. PICK s \in Syncs : parent = [st |-> "reading", op |-> "sync", arg |-> s]
    BY <1>0, <1>3, ParentShape DEF ReadResult
  <2>2. /\ result' = [result EXCEPT ![s] = IF s \in Throwing THEN Failed ELSE iret]
        /\ UNCHANGED <<execs, isExec>>
    BY <1>3, <2>1 DEF ReadResult
  <2>3. result[s] = None /\ execs[s] > 0
    BY <1>0, <2>1 DEF ServiceInv, AnswerInv, WaiterInv
  <2>4. result'[s] # None /\ \A t \in Syncs : t # s => result'[t] = result[t]
    BY <1>0, <2>2
  <2>5. Progress[s] = "evaluated"
    BY <2>3 DEF Progress
  <2>6. Progress' = [Progress EXCEPT ![s] = "answered"]
    BY <2>2, <2>4 DEF Progress
  <2>7. ~UNCHANGED <<result, execs, isExec>>
    BY <2>3, <2>4
  <2> QED
    BY <2>5, <2>6, <2>7
<1>4. CASE Wake
  <2>0. frames # <<>> /\ Top.pc = "wake"
    BY <1>4 DEF Wake, At
  <2>1. Top.se \in Syncs /\ execs[Top.se] >= 1
    <3>1. Top.se \in Syncs
      BY <2>0, OneCallback DEF FrameOK
    <3>2. Top = frames[1] /\ 1 \in 1..Len(frames)
      <4>1. Len(frames) = 1
        BY <2>0, OneCallback
      <4> QED
        BY <4>1 DEF Top
    <3> QED
      BY <2>0, <3>1, <3>2 DEF AnswerInv, ServedInv, Serving
  <2>2. isExec' = [isExec EXCEPT ![Top.se] = FALSE] /\ UNCHANGED <<result, execs>>
    BY <1>4 DEF Wake, Release
  <2>3. \A t \in Syncs : t # Top.se => isExec'[t] = isExec[t]
    BY <1>0, <2>2
  <2>4. execs[Top.se] > 0
    BY <1>0, <2>1
  <2>5. Progress' = Progress
    BY <2>1, <2>2, <2>3, <2>4 DEF Progress
  <2> QED
    BY <2>5
<1>5. CASE ~(PostSync \/ RunEvent \/ ReadResult \/ Wake)
  <2>1. UNCHANGED <<result, execs, isExec>>
    BY <1>5 DEF Next, ParentStep, ParentFetch, PostScript, PostCall, PostSend, Sent,
         PostFails, WaitDone, ChildSend, StartPass, CallbackStep, TakeEvals, EvalStep, ReadMsgs,
         ClearMsgs, TakeEvent, ExecDone, Unlink, LockFails, ThreadEnd, UseFreed
  <2> QED
    BY <2>1 DEF Progress
<1> QED
  BY <1>1, <1>2, <1>3, <1>4, <1>5

\* What the service promises, but for its fairness.
ServiceSafety == Service!Init /\ [][Service!Next]_(Service!serviceVars)

LEMMA ServiceStep ==
  ASSUME MaxDepth = 1, ~LockTimed, TypeInv, TypeInv', ScriptsInv, ListInv, OnceInv, AnswerInv,
         ServiceInv, [Next]_vars
  PROVE  [Service!Next]_(Service!serviceVars)
<1>1. CASE UNCHANGED <<result, execs, isExec>>
  <2>1. Progress' = Progress
    BY <1>1 DEF Progress
  <2>2. CASE SameScripts
    BY <2>1, <2>2 DEF Service!serviceVars, SameScripts, Pending, Buf, Progress
  <2>3. CASE /\ posted < NumScripts /\ posted' = posted + 1
             /\ Pending' = Append(Pending, posted + 1) /\ ran' = ran
    BY <2>1, <2>3 DEF Service!Next, Service!HandOver, Pending, Buf, Progress
  <2>4. CASE /\ Pending # <<>> /\ ran' = Append(ran, Head(Pending))
             /\ Pending' = Tail(Pending) /\ posted' = posted
    BY <2>1, <2>4 DEF Service!Next, Service!Serve, Service!RunScript, Pending, Buf, Progress
  <2>5. CASE /\ Lossy /\ UNCHANGED <<posted, ran>>
             /\ \E k \in 1..Len(Pending) : Pending' = SubSeq(Pending, k + 1, Len(Pending))
    BY <2>1, <2>5 DEF Service!Next, Service!Lose, Lossy, Pending, Buf, Progress
  <2> QED
    BY <2>2, <2>3, <2>4, <2>5, ScriptStep
<1>2. CASE ~UNCHANGED <<result, execs, isExec>>
  <2>1. SameScripts
    BY <1>2, ScriptStep
  <2>2. CASE Progress' = Progress
    BY <2>1, <2>2 DEF Service!serviceVars, SameScripts, Pending, Buf, Progress
  <2>3. ASSUME NEW s \in Syncs, Free, Progress[s] = "idle",
               Progress' = [Progress EXCEPT ![s] = "asked"]
        PROVE  Service!Next
    <3>1. Service!Ask(s)
      BY <2>1, <2>3 DEF Service!Ask, Service!Advance, SameScripts, Pending, Buf, Progress, Free
    <3> QED
      BY <3>1 DEF Service!Next
  <2>4. ASSUME NEW s \in Syncs, Progress[s] = "asked",
               Progress' = [Progress EXCEPT ![s] = "evaluated"]
        PROVE  Service!Next
    <3>1. Service!Evaluate(s)
      BY <2>1, <2>4 DEF Service!Evaluate, Service!Advance, SameScripts, Pending, Buf, Progress
    <3> QED
      BY <3>1 DEF Service!Next, Service!Serve
  <2>5. ASSUME NEW s \in Syncs, Progress[s] = "evaluated",
               Progress' = [Progress EXCEPT ![s] = "answered"]
        PROVE  Service!Next
    <3>1. Service!Answer(s)
      BY <2>1, <2>5 DEF Service!Answer, Service!Advance, SameScripts, Pending, Buf, Progress
    <3> QED
      BY <3>1 DEF Service!Next, Service!Serve
  <2> QED
    BY <2>2, <2>3, <2>4, <2>5, SyncStep
<1> QED
  BY <1>1, <1>2

\* The three queues and the callback do what EvalService promises: scripts are started in
\* the order they were handed over, and lost only for an exception, a text that does not
\* parse or a message; a synchronous eval is evaluated once and answered after that.
\* Every step of the queues is a step of the service or none (SubInterpEvalCallback,
\* InterpEvalCmd), where callbacks do not nest and QMutex is waited for without a limit.
THEOREM QueuesImplementService ==
  MaxDepth = 1 /\ ~LockTimed => (Spec => ServiceSafety)
<1> SUFFICES ASSUME MaxDepth = 1, ~LockTimed PROVE Spec => ServiceSafety
  OBVIOUS
<1> DEFINE I == TypeInv /\ ScriptsInv /\ ListInv /\ OnceInv /\ AnswerInv /\ ServiceInv
<1>1. Init => I
  <2>1. Init => OnceInv
    BY DEF Init, OnceInv, SyncRunsOnce
  <2>2. Init => ServiceInv
    BY DEF Init, ServiceInv, Idle
  <2> QED
    BY <2>1, <2>2, TypeInit, ScriptsInit, ListInit, AnswerInit
<1>2. I /\ [Next]_vars => I'
  BY TypeNext, ScriptsNext, ListNext, OnceNext, AnswerNext, ServiceNext
<1>3. Init => Service!Init
  <2> SUFFICES ASSUME Init PROVE Service!Init
    OBVIOUS
  <2>1. <<>> \o <<>> = <<>>
    BY EmptySeq, ConcatEmptySeq
  <2> QED
    BY <2>1 DEF Init, Service!Init
<1>4. I /\ I' /\ [Next]_vars => [Service!Next]_(Service!serviceVars)
  BY ServiceStep
<1> QED
  BY <1>1, <1>2, <1>3, <1>4, PTL DEF Spec, ServiceSafety

=============================================================================
