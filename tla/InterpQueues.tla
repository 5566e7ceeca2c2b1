----------------------------- MODULE InterpQueues -----------------------------
(***************************************************************************)
(* The inbound queues of a threaded sub-interp (jsiInterp.c).              *)
(*                                                                         *)
(* A sub-interp created with {subthread:true} runs in its own thread T.    *)
(* Its parent's thread hands it work through three queues, all guarded by  *)
(* the sub-interp's QMutex:                                                *)
(*   evalQ   scripts of  i.eval(js, true)   (Jsi_DString interpEvalQ),     *)
(*   msgQ    messages of i.send(msg)        (Jsi_DString interpMsgQ),      *)
(*   head    a linked list of InterpStrEvent (interpStrEvents): the        *)
(*           synchronous i.eval(js) and the asynchronous i.call(f,a,true). *)
(* Children of the sub-interp, running in threads of their own, send it    *)
(* messages too (Interp.send).  T empties the queues in                    *)
(* SubInterpEvalCallback, the event handler that each pass of its event    *)
(* loop calls; a script T runs from the queues may call sys.update() and   *)
(* so start the callback again, inside itself.                             *)
(*                                                                         *)
(* A section of code run under QMutex is one step.  Everything the code    *)
(* does outside the mutex is a step of its own.                            *)
(***************************************************************************)
EXTENDS Naturals, Sequences, FiniteSets

CONSTANTS NumScripts,   \* asynchronous scripts, numbered in the order posted
          Throwing,     \* scripts and evals that end with an uncaught exception
          Malformed,    \* the scripts that do not parse
          Syncs,        \* synchronous evals, each made at most once
          Calls,        \* asynchronous calls, each made at most once
          Msgs,         \* messages, each sent at most once
          Targets,      \* what recvCmd or a called name may denote, see below
          MaxDepth,     \* bound on callbacks active at once in T (1: no nesting)
          LockTimed,    \* the interps have lockTimeout >= 0
          ScriptEnds,   \* T runs a startup script that may come to its end
          Failed,       \* the answer to a synchronous eval that ended so
          None

\* "function" is a function with a body, "other" a missing or different value.
TargetKinds == {"function", "other"}

ASSUME QueuesAssumption ==
  /\ NumScripts \in Nat
  /\ MaxDepth \in Nat \ {0}
  /\ Targets \subseteq TargetKinds
  /\ LockTimed \in BOOLEAN /\ ScriptEnds \in BOOLEAN
  /\ Syncs \cap Calls = {} /\ IsFiniteSet(Syncs \cup Calls)
  /\ None \notin Syncs \cup Calls \cup Msgs \cup Nat \cup {Failed}

Scripts == 1..NumScripts
Nodes   == Syncs \cup Calls      \* the InterpStrEvent records

VARIABLES
  posted,   \* number of asynchronous scripts posted so far
  evalQ,    \* interpEvalQ, as the sequence of the scripts joined in it
  msgQ,     \* interpMsgQ, as the sequence of the messages in the JSON array
  torn,     \* the text of interpMsgQ is not a JSON array (a data race cut it)
  sent,     \* messages whose send was made
  head,     \* interpStrEvents
  next,     \* the next field of every record
  heap,     \* "none", "live" or "freed", for every record
  isExec,   \* the isExec field of a synchronous eval
  frames,   \* activations of SubInterpEvalCallback, the innermost last
  thread,   \* "serving" until NewInterpThread has erased the interp
  parent,   \* what the parent's thread is doing
  iret,     \* interp->ret: the script whose value it is, or 0 (undefined)
  result,   \* whose value each synchronous eval returned or Failed, None before
  ran,      \* the asynchronous scripts started, in order
  execs,    \* how often each synchronous eval was started, counted up to 2
  fault     \* what the C program did that has no defined outcome

msgVars   == <<msgQ, torn, sent>>
queueVars == <<posted, evalQ, msgVars>>
listVars  == <<head, next>>
recVars   == <<listVars, heap, isExec>>
runVars   == <<ran, execs, iret>>
askVars   == <<parent, result>>
vars == <<queueVars, recVars, frames, thread, askVars, runVars, fault>>

PCs == {"evals", "eval", "msgs", "clear", "events", "event", "exec", "unlink",
        "wake"}
Faults == {"none", "nullRet", "nullInterp", "freedMemory"}

\* pc: where the activation is; cur: the script it is running; buf: the rest
\* of its private copy of evalQ; se: the record it works on; ex: its local copy
\* of se->isExec; nxt: the record to work on after se.
Frame == [pc : PCs, cur : 0..NumScripts, buf : Seq(Scripts), se : Nodes \cup {None},
          ex : BOOLEAN, nxt : Nodes \cup {None}]

NewFrame == [pc |-> "evals", cur |-> 0, buf |-> <<>>, se |-> None,
             ex |-> FALSE, nxt |-> None]

\* What the parent's thread does: nothing, an operation that has read
\* udf->subinterp but not yet entered QMutex, the wait of a synchronous eval,
\* or the read of the sub-interp's ret after that wait.
Idle == [st |-> "idle", op |-> None, arg |-> None]
Asking == {Idle}
     \cup [st : {"posting"}, op : {"script"}, arg : Scripts]
     \cup [st : {"posting"}, op : {"sync"}, arg : Syncs]
     \cup [st : {"posting"}, op : {"call"}, arg : Calls]
     \cup [st : {"posting"}, op : {"send"}, arg : Msgs]
     \cup [st : {"waiting", "reading"}, op : {"sync"}, arg : Syncs]

Init ==
  /\ posted = 0
  /\ evalQ = <<>> /\ msgQ = <<>> /\ torn = FALSE
  /\ sent = {}
  /\ head = None /\ next = [n \in Nodes |-> None]
  /\ heap = [n \in Nodes |-> "none"]
  /\ isExec = [s \in Syncs |-> FALSE]
  /\ frames = <<>>
  /\ thread = "serving"
  /\ parent = Idle
  /\ iret = 0
  /\ result = [s \in Syncs |-> None]
  /\ ran = <<>> /\ execs = [s \in Syncs |-> 0]
  /\ fault = "none"

-----------------------------------------------------------------------------
(* The parent's thread.                                                    *)

\* What may be asked next: operations are numbered or made at most once.
Requests ==
       {r \in [op : {"script"}, arg : Scripts] : r.arg = posted + 1}
  \cup {r \in [op : {"sync"}, arg : Syncs] : heap[r.arg] = "none"}
  \cup {r \in [op : {"call"}, arg : Calls] : heap[r.arg] = "none"}
  \cup {r \in [op : {"send"}, arg : Msgs] : r.arg \notin sent}

\* Each operation reads udf->subinterp.  call and send answer "Sub-interp gone"
\* when it is NULL and change nothing; eval tests the calling interp instead and
\* goes on to read through the NULL pointer.
ParentFetch ==
  /\ parent = Idle
  /\ \E r \in Requests :
       \/ /\ thread = "serving"
          /\ parent' = [st |-> "posting", op |-> r.op, arg |-> r.arg]
          /\ UNCHANGED fault
       \/ /\ thread = "gone" /\ r.op \in {"script", "sync"}
          /\ fault' = "nullInterp"
          /\ UNCHANGED parent
  /\ UNCHANGED <<queueVars, recVars, frames, thread, result, runVars>>

\* Inside QMutex on behalf of operation op.
Posting(op) == parent.st = "posting" /\ parent.op = op /\ thread = "serving"

PostScript ==
  /\ Posting("script")
  /\ evalQ' = Append(evalQ, parent.arg)
  /\ posted' = parent.arg
  /\ parent' = Idle
  /\ UNCHANGED <<msgVars, recVars, frames, thread, result, runVars, fault>>

\* The records met by following next from head, and the last of them.
Walk[i \in Nat] ==
  IF i = 0 THEN head
  ELSE IF Walk[i - 1] = None THEN None ELSE next[Walk[i - 1]]
Chain == {Walk[i] : i \in 0..Cardinality(Nodes)} \ {None}
LastNode == CHOOSE n \in Chain : next[n] = None

\* Faulty: put record n in front and forget the rest.
LinkFirst(n) == head' = n /\ UNCHANGED next
\* Append record n behind the last one; the walk reads every record it passes.
LinkLast(n) ==
  IF head = None THEN head' = n /\ UNCHANGED next
  ELSE next' = [next EXCEPT ![LastNode] = n] /\ UNCHANGED head
NewRecord(n) ==
  /\ \A m \in Chain : heap[m] = "live"
  /\ LinkLast(n)
  /\ heap' = [heap EXCEPT ![n] = "live"]

\* Faulty: the record is posted without its isExec mark.
Unmarked(s) == UNCHANGED isExec
MarkExec(s) == isExec' = [isExec EXCEPT ![s] = TRUE]

PostSync ==
  /\ Posting("sync")
  /\ NewRecord(parent.arg)
  /\ MarkExec(parent.arg)
  /\ parent' = [parent EXCEPT !.st = "waiting"]
  /\ UNCHANGED <<queueVars, frames, thread, result, runVars, fault>>

PostCall ==
  /\ Posting("call")
  /\ NewRecord(parent.arg)
  /\ parent' = Idle
  /\ UNCHANGED <<queueVars, isExec, frames, thread, result, runVars, fault>>

\* Faulty: the message goes to the queue of scripts.
EnqueueWrong(m) == evalQ' = Append(evalQ, m) /\ UNCHANGED msgQ
\* The message is written over the closing bracket of the array in msgQ.
Enqueue(m) == msgQ' = Append(msgQ, m) /\ UNCHANGED evalQ
Sent(m) ==
  /\ Enqueue(m)
  /\ sent' = sent \cup {m}
  /\ UNCHANGED <<torn, posted, recVars, frames, thread, result, runVars, fault>>

PostSend ==
  /\ Posting("send")
  /\ Sent(parent.arg)
  /\ parent' = Idle

\* Interp.send of a child of the sub-interp, from the child's thread.
ChildSend ==
  /\ thread = "serving"
  /\ \E m \in Msgs \ sent : ~(Posting("send") /\ parent.arg = m) /\ Sent(m)
  /\ UNCHANGED parent

\* Faulty: pthread_mutex_trylock where the interps have no lockTimeout.
AlwaysTimed == TRUE
\* pthread_mutex_timedlock is given a moment long past, so it fails at once
\* whenever another thread is inside the mutex.
LockMayFail == LockTimed

\* The operation could not enter QMutex and returns an error.
PostFails ==
  /\ LockMayFail
  /\ parent.st = "posting" /\ thread = "serving"
  /\ parent' = Idle
  /\ UNCHANGED <<queueVars, recVars, frames, thread, result, runVars, fault>>

\* while (s->isExec) Jsi_Sleep(interp, 1), then s->rc is read and s freed.
WaitDone ==
  /\ parent.st = "waiting" /\ ~isExec[parent.arg] /\ heap[parent.arg] = "live"
  /\ heap' = [heap EXCEPT ![parent.arg] = "freed"]
  /\ parent' = [parent EXCEPT !.st = "reading"]
  /\ UNCHANGED <<queueVars, listVars, isExec, frames, thread, result, runVars,
                 fault>>

\* An eval that failed gives the error; otherwise the value returned is
\* sinterp->ret as it is now, read without any mutex.
ReadResult ==
  /\ parent.st = "reading" /\ thread = "serving"
  /\ result' = [result EXCEPT ![parent.arg] = IF parent.arg \in Throwing THEN Failed
                                              ELSE iret]
  /\ parent' = Idle
  /\ UNCHANGED <<queueVars, recVars, frames, thread, runVars, fault>>

-----------------------------------------------------------------------------
(* SubInterpEvalCallback, in T.                                            *)

Top == frames[Len(frames)]
At(pc) == frames # <<>> /\ Top.pc = pc
SetTop(f) == frames' = [frames EXCEPT ![Len(frames)] = f]
GoTo(pc) == SetTop([Top EXCEPT !.pc = pc])
Return == frames' = SubSeq(frames, 1, Len(frames) - 1)

\* Serve the record after the one just unlinked, or leave.
Continue(nxt) ==
  IF nxt = None THEN Return
  ELSE SetTop([Top EXCEPT !.pc = "event", !.se = nxt, !.nxt = None])

\* The event loop calls the handler, or a script that T runs calls sys.update().
StartPass ==
  /\ thread = "serving"
  /\ frames = <<>> \/ At("eval") \/ At("exec")
  /\ Len(frames) < MaxDepth
  /\ frames' = Append(frames, NewFrame)
  /\ UNCHANGED <<queueVars, recVars, thread, askVars, runVars, fault>>

\* Faulty: the text is copied and left in the queue.
LeaveEvalQ == UNCHANGED evalQ
EmptyEvalQ == evalQ' = <<>>

\* With QMutex held: take the messages.  The queue emptied here is evalQ; msgQ
\* is emptied later, by ClearMsgs.  A message is handed to recvCmd with a NULL
\* return pointer, through which Jsi_FunctionInvoke writes when recvCmd is a
\* function; when it is not, or the text is no JSON, an error is logged.
TakeMsgs ==
  \/ msgQ = <<>> /\ GoTo("events") /\ UNCHANGED <<evalQ, fault>>
  \/ /\ msgQ # <<>>
     /\ evalQ' = <<>>
     /\ GoTo("clear")
     /\ \/ "function" \in Targets /\ ~torn /\ fault' = "nullRet"
        \/ ("other" \in Targets \/ torn) /\ UNCHANGED fault

\* The first section under QMutex.
TakeEvals ==
  /\ At("evals")
  /\ \/ evalQ = <<>> /\ TakeMsgs /\ UNCHANGED runVars
     \/ /\ evalQ # <<>>
        /\ EmptyEvalQ
        /\ IF \E i \in DOMAIN evalQ : evalQ[i] \in Malformed
           THEN GoTo("msgs") /\ UNCHANGED runVars
           ELSE /\ SetTop([Top EXCEPT !.pc = "eval", !.cur = Head(evalQ),
                                      !.buf = Tail(evalQ)])
                /\ ran' = Append(ran, Head(evalQ))
                /\ iret' = 0
                /\ UNCHANGED execs
        /\ UNCHANGED fault
  /\ UNCHANGED <<msgVars, posted, recVars, thread, askVars>>

\* A script of the joined text ends: by an exception, which abandons the rest of
\* the text, or normally, and the next one starts or the value is kept in ret.
EvalStep ==
  /\ At("eval")
  /\ \/ /\ Top.cur \in Throwing
        /\ SetTop([Top EXCEPT !.pc = "msgs", !.buf = <<>>])
        /\ UNCHANGED <<ran, iret>>
     \/ /\ Top.cur \notin Throwing /\ Top.buf # <<>>
        /\ SetTop([Top EXCEPT !.cur = Head(Top.buf), !.buf = Tail(Top.buf)])
        /\ ran' = Append(ran, Head(Top.buf))
        /\ UNCHANGED iret
     \/ /\ Top.cur \notin Throwing /\ Top.buf = <<>>
        /\ GoTo("msgs")
        /\ iret' = Top.cur
        /\ UNCHANGED ran
  /\ UNCHANGED <<queueVars, recVars, thread, askVars, execs, fault>>

\* The section entered again after the scripts ran.
ReadMsgs ==
  /\ At("msgs")
  /\ TakeMsgs
  /\ UNCHANGED <<posted, msgVars, recVars, thread, askVars, runVars>>

\* Jsi_DSSetLength(&interp->interpMsgQ, 0), outside QMutex.  It may cut into a
\* send that has read the old length and has not yet written message m.
ClearMsgs ==
  /\ At("clear")
  /\ GoTo("events")
  /\ \/ /\ msgQ' = <<>> /\ torn' = FALSE
        /\ UNCHANGED <<sent, parent>>
     \/ \E m \in Msgs \ sent :
          /\ msgQ' = <<m>> /\ torn' = TRUE
          /\ sent' = sent \cup {m}
          /\ parent' = IF Posting("send") /\ parent.arg = m THEN Idle ELSE parent
  /\ UNCHANGED <<evalQ, posted, recVars, thread, result, runVars, fault>>

\* Read the head of the list, under QMutex.
TakeEvent ==
  /\ At("events")
  /\ Continue(head)
  /\ UNCHANGED <<queueVars, recVars, thread, askVars, runVars, fault>>

\* Read se->isExec and start what the record asks for.
RunEvent ==
  /\ At("event") /\ heap[Top.se] = "live"
  /\ LET se == Top.se IN
     \/ /\ se \in Syncs /\ isExec[se]
        /\ SetTop([Top EXCEPT !.pc = "exec", !.ex = TRUE])
        /\ execs' = [execs EXCEPT ![se] = IF @ < 2 THEN @ + 1 ELSE @]
        /\ iret' = 0
        /\ UNCHANGED <<ran, fault>>
     \/ \* A call: to the named function, with the NULL return pointer, too.
        /\ ~(se \in Syncs /\ isExec[se])
        /\ SetTop([Top EXCEPT !.pc = "unlink", !.ex = FALSE])
        /\ \/ "function" \in Targets /\ se \in Calls /\ fault' = "nullRet"
           \/ ("other" \in Targets \/ se \in Syncs) /\ UNCHANGED fault
        /\ UNCHANGED runVars
  /\ UNCHANGED <<queueVars, recVars, thread, askVars>>

\* A synchronous eval ends: its value is left in ret unless it failed, its rc and
\* data in se.
ExecDone ==
  /\ At("exec") /\ heap[Top.se] = "live"
  /\ GoTo("unlink")
  /\ iret' = IF Top.se \in Throwing THEN iret ELSE Top.se
  /\ UNCHANGED <<queueVars, recVars, thread, askVars, ran, execs, fault>>

\* Faulty: free the record whoever owns it.
FreeAlways(se, ex) == heap' = [heap EXCEPT ![se] = "freed"]
\* if (!isExec) Jsi_Free(se): the waiter frees its own record.
FreeServed(se, ex) == IF ex THEN UNCHANGED heap
                      ELSE heap' = [heap EXCEPT ![se] = "freed"]

\* The section that unlinks se and reads the new head.
Unlink ==
  /\ At("unlink") /\ heap[Top.se] = "live"
  /\ head' = next[Top.se]
  /\ FreeServed(Top.se, Top.ex)
  /\ IF Top.ex THEN SetTop([Top EXCEPT !.pc = "wake", !.nxt = next[Top.se]])
     ELSE Continue(next[Top.se])
  /\ UNCHANGED <<queueVars, next, isExec, thread, askVars, runVars, fault>>

\* Faulty: the waiter is not released.
StayBusy(se) == UNCHANGED isExec
\* oldse->isExec = 0: the waiter may go on.
Release(se) == isExec' = [isExec EXCEPT ![se] = FALSE]
Wake ==
  /\ At("wake") /\ heap[Top.se] = "live"
  /\ Release(Top.se)
  /\ Continue(Top.nxt)
  /\ UNCHANGED <<queueVars, listVars, heap, thread, askVars, runVars, fault>>

\* A timed lock of QMutex fails against a poster: the callback returns an error
\* from where it is.
LockFails ==
  /\ LockMayFail
  /\ At("evals") \/ At("msgs") \/ At("events") \/ At("unlink")
  /\ parent.st = "posting" \/ Msgs \ sent # {}
  /\ Return
  /\ UNCHANGED <<queueVars, recVars, thread, askVars, runVars, fault>>

\* The startup script of T ends; NewInterpThread erases the sub-interp.
ThreadEnd ==
  /\ ScriptEnds /\ thread = "serving" /\ frames = <<>>
  /\ thread' = "gone"
  /\ UNCHANGED <<queueVars, recVars, frames, askVars, runVars, fault>>

\* What the next step of a thread reads or writes was freed: a record, or the
\* sub-interp that T erased after the parent had fetched its address.
TouchesFreed ==
  \/ \E pc \in {"event", "exec", "unlink", "wake"} :
       At(pc) /\ heap[Top.se] = "freed"
  \/ parent.st = "waiting" /\ ~isExec[parent.arg] /\ heap[parent.arg] = "freed"
  \/ (Posting("sync") \/ Posting("call")) /\ \E m \in Chain : heap[m] = "freed"
  \/ parent.st \in {"posting", "reading"} /\ thread = "gone"
UseFreed ==
  /\ TouchesFreed
  /\ fault' = "freedMemory"
  /\ UNCHANGED <<queueVars, recVars, frames, thread, askVars, runVars>>

-----------------------------------------------------------------------------
ParentStep == \/ ParentFetch \/ PostScript \/ PostSync \/ PostCall \/ PostSend
              \/ PostFails \/ WaitDone \/ ReadResult
CallbackStep == \/ TakeEvals \/ EvalStep \/ ReadMsgs \/ ClearMsgs \/ TakeEvent
                \/ RunEvent \/ ExecDone \/ Unlink \/ Wake \/ LockFails

\* After a fault the process has no defined behaviour: nothing more is modelled.
Next == /\ fault = "none"
        /\ \/ ParentStep \/ ChildSend \/ StartPass \/ CallbackStep
           \/ ThreadEnd \/ UseFreed

Spec == Init /\ [][Next]_vars

\* The event loop of T calls the callback again and again, each callback runs
\* on, and the parent's poll loop runs.
FairSpec == /\ Spec
            /\ WF_vars(fault = "none" /\ frames = <<>> /\ StartPass)
            /\ WF_vars(fault = "none" /\ CallbackStep)
            /\ WF_vars(fault = "none" /\ (WaitDone \/ ReadResult))

-----------------------------------------------------------------------------
(* Properties.                                                             *)

\* The shape of the state.
TypeOK ==
  /\ posted \in 0..NumScripts
  /\ evalQ \in Seq(Scripts) /\ msgQ \in Seq(Msgs) /\ torn \in BOOLEAN
  /\ sent \subseteq Msgs
  /\ head \in Nodes \cup {None} /\ next \in [Nodes -> Nodes \cup {None}]
  /\ heap \in [Nodes -> {"none", "live", "freed"}]
  /\ isExec \in [Syncs -> BOOLEAN]
  /\ frames \in Seq(Frame) /\ Len(frames) <= MaxDepth
  /\ thread \in {"serving", "gone"}
  /\ parent \in Asking
  /\ iret \in Scripts \cup Syncs \cup {0}
  /\ result \in [Syncs -> Scripts \cup Syncs \cup {0, Failed, None}]
  /\ ran \in Seq(Scripts)
  /\ execs \in [Syncs -> 0..2]
  /\ fault \in Faults

\* Scripts posted with eval(js, true) start in the order of the calls, and none
\* starts twice, whatever is lost on the way.
ScriptsInOrder == \A i, j \in DOMAIN ran : i < j => ran[i] < ran[j]

\* The same without the order, which nested callbacks do not keep: a text of
\* evalQ is handed to one evaluation only.
ScriptsAtMostOnce == \A i, j \in DOMAIN ran : ran[i] = ran[j] => i = j

\* A synchronous eval is evaluated once: the list node is not served again by
\* a later pass, by a nested pass, or after the waiter has been released.
SyncRunsOnce == \A s \in Syncs : execs[s] <= 1

\* What may lead to a second evaluation: a callback returned, the lock of QMutex
\* refused, with the record it had evaluated still marked and in the list.
InHand(s) == \E d \in DOMAIN frames : /\ frames[d].se = s
                                      /\ frames[d].pc \in {"exec", "unlink", "wake"}
LeftBehind(s) == execs[s] >= 1 /\ isExec[s] /\ ~InHand(s)

\* Where callbacks nest and locks are refused, a synchronous eval can be evaluated
\* again, but only by a callback nested in its own evaluation, or after the lock for
\* its unlinking was refused; nothing else leaves an evaluated record behind.
EvaluatedAgain ==
  [][\A s \in Syncs :
       /\ LeftBehind(s)' => LeftBehind(s) \/ (At("unlink") /\ Top.se = s /\ LockFails)
       /\ At("event") /\ Top.se = s /\ RunEvent /\ isExec[s] /\ execs[s] >= 1 =>
            \/ LeftBehind(s)
            \/ \E d \in 1..(Len(frames) - 1) : frames[d].se = s /\ frames[d].pc = "exec"]_vars

\* The caller of a synchronous eval gets its answer only after the eval ran.
AnswerAfterRun == \A s \in Syncs : result[s] # None => execs[s] >= 1

\* Whatever callbacks are nested and whatever locks fail: no text of evalQ is evaluated
\* twice, and no caller is answered whose script was not evaluated.
EvalsServed == ScriptsAtMostOnce /\ AnswerAfterRun

\* The list from interpStrEvents holds live records only, and every record
\* somebody depends on: a call not made yet, a waiter not released yet.
ListSound ==
  /\ \A n \in Chain : heap[n] = "live"
  /\ \A c \in Calls : heap[c] = "live" => c \in Chain
  /\ \A s \in Syncs : isExec[s] =>
       s \in Chain \/ \E i \in DOMAIN frames : frames[i].pc = "wake"
                                               /\ frames[i].se = s

\* The hand-over between the waiter, which frees its record, and T, which has
\* just unlinked it, never touches freed memory.
NoFreedMemory == fault # "freedMemory"

\* A caller that waits in a synchronous eval is answered.
SyncAnswered ==
  \A s \in Syncs : (parent.st = "waiting" /\ parent.arg = s) ~> result[s] # None

\* No script posted with eval(js, true) disappears: it waits in evalQ, it is part
\* of a text being evaluated, or it was started.
NoScriptLost ==
  \A n \in 1..posted :
    \/ \E i \in DOMAIN evalQ : evalQ[i] = n
    \/ \E i \in DOMAIN ran : ran[i] = n
    \/ \E f \in DOMAIN frames : \E i \in DOMAIN frames[f].buf : frames[f].buf[i] = n

\* The abstract service of EvalService.tla, read off this state: pending is what
\* is left of the callback's text and then of evalQ.  While no callback is nested
\* the queues implement it, with its fairness: scripts run once and in order, each
\* synchronous eval is evaluated once and answered.  An exception, a text that does
\* not parse and a message make it lossy.
Service == INSTANCE EvalService WITH
  Lossy   <- (Throwing \cap Scripts) \cup Malformed # {} \/ Msgs # {},
  given   <- posted,
  pending <- (IF frames = <<>> THEN <<>> ELSE frames[1].buf) \o evalQ,
  done    <- ran,
  sync    <- [s \in Syncs |-> IF result[s] # None THEN "answered"
                              ELSE IF execs[s] > 0 THEN "evaluated"
                              ELSE IF isExec[s] THEN "asked" ELSE "idle"]
ImplementsService == Service!Spec

=============================================================================
