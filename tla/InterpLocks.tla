------------------------------ MODULE InterpLocks ------------------------------
(***************************************************************************)
(* The mutex of an interp (interp->Mutex) and the threads that run scripts *)
(* (jsiInterp.c, jsiEval.c, jsiCmds.c).                                    *)
(*                                                                         *)
(* Every interp has a recursive mutex.  A thread that runs code of an      *)
(* interp is meant to hold it: jsi_evalStrFile takes one level for the     *)
(* time of an evaluation, the event loop of a sub-interp without a script  *)
(* takes one for good.  A thread enters another interp through an alias    *)
(* (into the parent), a synchronous call or an eval (into a child).  It    *)
(* then gives up one level of its own mutex (unless the interp was made    *)
(* with doUnlock:false) and takes it again afterwards; Jsi_Sleep gives up  *)
(* one level while it sleeps.                                              *)
(*                                                                         *)
(* What is evaluated is abstracted to the operations a script may start.   *)
(* The queues themselves, with their QMutex, are in InterpQueues.          *)
(***************************************************************************)
EXTENDS Naturals, Sequences, FiniteSets

CONSTANTS Main, Subs,   \* the main interp, the sub-interps
          Parent,       \* the interp that created each sub-interp
          Home,         \* threadId: the thread an interp belongs to
          Loops,        \* threaded sub-interps that were given no script
          Keepers,      \* interps made with doUnlock:false
          Ops,          \* the operations scripts use
          LockTimed,    \* the interps have lockTimeout >= 0
          MaxDepth,     \* bound on the activations of one thread
          None

Interps == {Main} \cup Subs
\* A thread is named after the interp it was created for.
Threads == {Main} \cup {s \in Subs : Home[s] = s}

\* What is assumed of the constants; MCThreads assumes it of its other instances too.
LocksAssumption ==
  /\ Parent \in [Subs -> Interps]
  /\ Home \in [Interps -> Threads] /\ Home[Main] = Main
  /\ \A s \in Subs : Home[s] \in {s, Home[Parent[s]]}
  /\ Loops \subseteq Threads \ {Main}
  /\ Keepers \subseteq Interps
  /\ Ops \subseteq {"nested", "alias", "call", "eval", "sleep"}
  /\ LockTimed \in BOOLEAN
  /\ MaxDepth \in Nat \ {0}
  /\ Main \notin Subs /\ None \notin Interps

ASSUME ConstantsAssumption == LocksAssumption

VARIABLES mutex,   \* of every interp: the thread that owns it, and the level
          stack,   \* of every thread: its activations, the innermost last
          job,     \* of every thread: the state of the eval it waits for
          mark     \* auxiliary: what happened to a thread that may have left the
                   \* levels it holds uneven

vars == <<mutex, stack, job, mark>>

\* at: the interp whose code runs; kind: what took the level of at.Mutex that
\* the activation runs under (a loop, jsi_evalStrFile, or an operation that
\* invokes one function of at); to: the other interp of the pending operation;
\* serves: the thread whose synchronous eval this is.
PCs == {"enter", "run", "sleep", "lookup", "convert", "lock", "busy", "posted",
        "wait", "relock", "convback"}
Frame == [at : Interps, kind : {"loop", "eval", "func"}, pc : PCs,
          to : Interps \cup {None}, serves : Threads \cup {None}]

Activation(i, kind, pc, t) ==
  [at |-> i, kind |-> kind, pc |-> pc, to |-> None, serves |-> t]

\* Every thread runs its first code and holds the mutex of its interp.
Init ==
  /\ mutex = [i \in Interps |-> IF i \in Threads THEN [owner |-> i, level |-> 1]
                                ELSE [owner |-> None, level |-> 0]]
  /\ stack = [t \in Threads |->
       <<Activation(t, IF t \in Loops THEN "loop" ELSE "eval", "run", None)>>]
  /\ job = [t \in Threads |-> "none"]
  /\ mark = [t \in Threads |-> "even"]

-----------------------------------------------------------------------------
(* PTHREAD_MUTEX_RECURSIVE.                                                *)

Free(t, i) == mutex[i].owner \in {t, None}
Locked(t, i) == [mutex EXCEPT ![i] = [owner |-> t, level |-> @.level + 1]]
\* Unlocking a mutex that another thread owns, or nobody, is refused (EPERM).
Unlocked(t, i) ==
  LET n == mutex[i].level - 1
  IN IF mutex[i].owner # t THEN mutex
     ELSE [mutex EXCEPT ![i] = [owner |-> IF n = 0 THEN None ELSE t, level |-> n]]
\* With a lockTimeout the deadline given to pthread_mutex_timedlock is long
\* past: a lock that is not free is refused at once.
Refused(t, i) == LockTimed /\ ~Free(t, i)

Children(i) == {s \in Subs : Parent[s] = i}

Top(t) == stack[t][Len(stack[t])]
At(t, pc) == Top(t).pc = pc
\* A stack whose innermost activation is replaced by f.
Turned(s, f) == [s EXCEPT ![Len(s)] = f]
GoTo(t, pc) == stack' = [stack EXCEPT ![t] = Turned(@, [Top(t) EXCEPT !.pc = pc])]
Pending(t, pc, to) ==
  stack' = [stack EXCEPT ![t] = Turned(@, [Top(t) EXCEPT !.pc = pc, !.to = to])]
\* The innermost activation goes to pc and f starts on top of it.
Push(t, pc, to, f) ==
  /\ Len(stack[t]) < MaxDepth
  /\ stack' = [stack EXCEPT ![t] = Append(Turned(@, [Top(t) EXCEPT !.pc = pc, !.to = to]), f)]
\* The innermost activation returns.  An operation it was started by goes on; a
\* call has converted its result while it ran and is done with the other interp.
Pop(t) ==
  LET rest == SubSeq(stack[t], 1, Len(stack[t]) - 1)
      caller == rest[Len(rest)]
      call == Top(t).kind = "func" /\ Top(t).at \in Children(caller.at)
      goesOn == [caller EXCEPT !.pc = "relock", !.to = IF call THEN None ELSE @]
  IN /\ stack' = [stack EXCEPT ![t] = IF caller.pc # "busy" THEN rest ELSE Turned(rest, goesOn)]
     /\ job' = IF Top(t).serves = None THEN job
               ELSE [job EXCEPT ![Top(t).serves] = "done"]

\* A script is running and starts op, which may take one more activation.
Does(t, op) == op \in Ops /\ At(t, "run") /\ Top(t).kind # "loop"
               /\ Len(stack[t]) < MaxDepth
\* if (interp->doUnlock) Jsi_MutexUnlock(interp, interp->Mutex)
GiveUp(t, i) == IF i \in Keepers THEN mutex ELSE Unlocked(t, i)

-----------------------------------------------------------------------------
(* Evaluations inside an interp, and sleep.                                *)

\* source(), eval(), an asynchronous script or event served by sys.update() or
\* by the loop of a sub-interp: jsi_evalStrFile is entered once more.
Nested(t) ==
  /\ "nested" \in Ops /\ At(t, "run")
  /\ Push(t, "run", None, Activation(Top(t).at, "eval", "enter", None))
  /\ UNCHANGED <<mutex, job>>

\* sys.update() or the loop finds a synchronous eval in the queue of its interp.
Serve(t) ==
  /\ At(t, "run")
  /\ \E u \in Threads :
       /\ job[u] = "asked" /\ Top(u).to = Top(t).at
       /\ Push(t, "run", None, Activation(Top(t).at, "eval", "enter", u))
       /\ job' = [job EXCEPT ![u] = "running"]
  /\ UNCHANGED mutex

Enter(t) ==
  /\ At(t, "enter") /\ Free(t, Top(t).at)
  /\ mutex' = Locked(t, Top(t).at)
  /\ GoTo(t, "run")
  /\ UNCHANGED job

\* jsi_evalStrFile evaluates nothing and returns JSI_OK.
EnterRefused(t) ==
  /\ At(t, "enter") /\ Refused(t, Top(t).at)
  /\ Pop(t)
  /\ UNCHANGED mutex

\* The unlock at the end of jsi_evalStrFile, or of the operation that entered at.
FinishUnlocks(t) == Unlocked(t, Top(t).at)

Finish(t) ==
  /\ At(t, "run") /\ Len(stack[t]) > 1
  /\ mutex' = FinishUnlocks(t)
  /\ Pop(t)

Sleep(t) ==
  /\ At(t, "run") /\ ("sleep" \in Ops \/ Top(t).kind = "loop")
  /\ mutex' = Unlocked(t, Top(t).at)
  /\ GoTo(t, "sleep")
  /\ UNCHANGED job

\* Faulty: the sleeper goes on without its mutex.
NotRetaken(t, i) == mutex
\* The level that Jsi_Sleep, or an operation, gave up is taken again.
Retaken(t, i) == Locked(t, i)

Wake(t) ==
  /\ At(t, "sleep") /\ Free(t, Top(t).at)
  /\ mutex' = Retaken(t, Top(t).at)
  /\ GoTo(t, "run")
  /\ UNCHANGED job

\* "could not reget mutex": the script goes on without it.
WakeRefused(t) ==
  /\ At(t, "sleep") /\ Refused(t, Top(t).at)
  /\ GoTo(t, "run")
  /\ UNCHANGED <<mutex, job>>

-----------------------------------------------------------------------------
(* AliasInvoke and InterpCallCmd (synchronous).                            *)

\* The arguments of an alias are parsed again as values of the parent.
Alias(t) ==
  /\ Does(t, "alias") /\ Top(t).at \in Subs
  /\ Pending(t, "convert", Parent[Top(t).at])
  /\ UNCHANGED <<mutex, job>>

AliasRelease(t) ==
  /\ At(t, "convert")
  /\ mutex' = GiveUp(t, Top(t).at)
  /\ GoTo(t, "lock")
  /\ UNCHANGED job

Call(t) ==
  /\ Does(t, "call")
  /\ \E s \in Children(Top(t).at) : Pending(t, "lookup", s)
  /\ UNCHANGED <<mutex, job>>

\* Faulty: as much of the caller's mutex as there is remains held.
LookupHeld(t) == mutex
LookupRelease(t) == GiveUp(t, Top(t).at)

\* The name is looked up in the child: its mutex is taken and given back while
\* the caller still holds its own, of which a level is given up after that.
Lookup(t) ==
  /\ At(t, "lookup") /\ Free(t, Top(t).to)
  /\ mutex' = LookupRelease(t)
  /\ GoTo(t, "lock")
  /\ UNCHANGED job

LookupRefused(t) ==
  /\ At(t, "lookup") /\ Refused(t, Top(t).to)
  /\ GoTo(t, "run")
  /\ UNCHANGED <<mutex, job>>

\* The function of the other interp runs in this thread.
EnterOther(t) ==
  /\ At(t, "lock") /\ Free(t, Top(t).to)
  /\ mutex' = Locked(t, Top(t).to)
  /\ Push(t, "busy", Top(t).to, Activation(Top(t).to, "func", "run", None))
  /\ UNCHANGED job

EnterOtherRefused(t) ==
  /\ At(t, "lock") /\ Refused(t, Top(t).to)
  /\ Pending(t, "relock", None)
  /\ UNCHANGED <<mutex, job>>

\* Take back the level given up; then the result of an alias or eval is converted.
Relock(t) ==
  /\ At(t, "relock")
  /\ \/ Top(t).at \in Keepers /\ UNCHANGED mutex
     \/ /\ Top(t).at \notin Keepers /\ Free(t, Top(t).at)
        /\ mutex' = Retaken(t, Top(t).at)
  /\ GoTo(t, "convback")
  /\ UNCHANGED job

\* The operation returns an error: the script goes on without its mutex.
RelockRefused(t) ==
  /\ At(t, "relock")
  /\ Top(t).at \notin Keepers /\ Refused(t, Top(t).at)
  /\ GoTo(t, "run")
  /\ UNCHANGED <<mutex, job>>

Converted(t) ==
  /\ At(t, "convback")
  /\ Pending(t, "run", None)
  /\ UNCHANGED <<mutex, job>>

-----------------------------------------------------------------------------
(* InterpEvalCmd (synchronous).                                            *)

EvalSameThread(t) ==
  /\ Does(t, "eval")
  /\ \E s \in Children(Top(t).at) :
       /\ Home[s] = Home[Top(t).at]
       /\ Push(t, "busy", s, Activation(s, "eval", "enter", None))
  /\ mutex' = GiveUp(t, Top(t).at)
  /\ UNCHANGED job

\* The eval of a child in another thread is queued.
EvalPost(t) ==
  /\ Does(t, "eval")
  /\ \E s \in Children(Top(t).at) :
       Home[s] # Home[Top(t).at] /\ Pending(t, "posted", s)
  /\ mutex' = GiveUp(t, Top(t).at)
  /\ job' = [job EXCEPT ![t] = "asked"]

\* The child's QMutex is refused to the timed lock, at any moment another thread is
\* inside it: an error, without the level given up.
EvalPostRefused(t) ==
  /\ LockTimed /\ Does(t, "eval")
  /\ \E s \in Children(Top(t).at) : Home[s] # Home[Top(t).at]
  /\ mutex' = GiveUp(t, Top(t).at)
  /\ UNCHANGED <<stack, job>>

\* while (s->isExec) Jsi_Sleep(interp, 1): the first Jsi_Sleep gives up another
\* level, of a mutex the thread may no longer hold.
FirstSleep(t) ==
  /\ At(t, "posted") /\ job[t] # "done"
  /\ mutex' = Unlocked(t, Top(t).at)
  /\ GoTo(t, "wait")
  /\ UNCHANGED job

\* The last Jsi_Sleep of the loop returns, with the mutex taken again.  The ones
\* before it leave the mutex as they found it.
LastSleep(t) ==
  /\ At(t, "wait") /\ job[t] = "done"
  /\ Free(t, Top(t).at) /\ mutex' = Locked(t, Top(t).at)
  /\ GoTo(t, "relock")
  /\ job' = [job EXCEPT ![t] = "none"]

LastSleepRefused(t) ==
  /\ At(t, "wait") /\ job[t] = "done" /\ Refused(t, Top(t).at)
  /\ GoTo(t, "relock")
  /\ job' = [job EXCEPT ![t] = "none"]
  /\ UNCHANGED mutex

\* Served before the caller looked.
NoSleep(t) ==
  /\ At(t, "posted") /\ job[t] = "done"
  /\ GoTo(t, "relock")
  /\ job' = [job EXCEPT ![t] = "none"]
  /\ UNCHANGED mutex

-----------------------------------------------------------------------------
Inside(t) == \/ Nested(t) \/ Serve(t) \/ Enter(t) \/ EnterRefused(t) \/ Finish(t)
             \/ Sleep(t) \/ Wake(t)
Across(t) == \/ Alias(t) \/ AliasRelease(t) \/ Call(t) \/ Lookup(t)
             \/ LookupRefused(t) \/ EnterOther(t) \/ EnterOtherRefused(t)
             \/ Relock(t) \/ Converted(t)
Evals(t)  == EvalSameThread(t) \/ EvalPost(t) \/ LastSleep(t) \/ NoSleep(t)

\* A level that was given up is not taken again because the lock was refused.
LevelLost(t) == \/ WakeRefused(t) \/ RelockRefused(t) \/ EvalPostRefused(t)
                \/ LastSleepRefused(t)

Next ==
  \E t \in Threads :
    \/ (Inside(t) \/ Across(t) \/ Evals(t)) /\ UNCHANGED mark
    \/ FirstSleep(t)
       /\ mark' = [mark EXCEPT ![t] = IF @ = "even" THEN "waited" ELSE @]
    \/ LevelLost(t) /\ mark' = [mark EXCEPT ![t] = "refused"]

Spec == Init /\ [][Next]_vars

-----------------------------------------------------------------------------
(* Properties.                                                             *)

\* The shape of the state; no activation but the first of a thread is its loop.
TypeOK ==
  /\ mutex \in [Interps -> [owner : Threads \cup {None}, level : Nat]]
  /\ stack \in [Threads -> Seq(Frame)]
  /\ job \in [Threads -> {"none", "asked", "running", "done"}]
  /\ mark \in [Threads -> {"even", "waited", "refused"}]
  /\ \A t \in Threads : Len(stack[t]) \in 1..MaxDepth
  /\ \A i \in Interps : (mutex[i].owner = None) <=> (mutex[i].level = 0)

\* A thread that runs script code of an interp owns the mutex of that interp, so
\* that no other thread runs code of it at the same time: giving levels up and
\* taking them again, nested to any depth and across interps, never leaves a
\* script to go on unprotected, unless a timed lock was refused to its thread.
RunsOwned ==
  \A t \in Threads :
    At(t, "run") /\ mark[t] # "refused" => mutex[Top(t).at].owner = t

\* The levels of i.Mutex that the activations of thread t account for: one for each
\* that runs code of i or is about to enter or leave another interp, and for each that
\* went to another interp without giving its level up.
Holding == {"run", "lookup", "convert", "convback"}
Away == {"posted", "lock", "busy", "relock"}
Needs(f, i) == f.at = i /\ (f.pc \in Holding \/ (i \in Keepers /\ f.pc \in Away))
Levels(t, i) == Cardinality({k \in DOMAIN stack[t] : Needs(stack[t][k], i)})

\* No level is given up twice or kept behind: a thread has locked the mutex of each
\* interp as many times as it has activations in need of it, until it waits for an
\* eval in another thread or is refused a lock.
LevelsBalanced ==
  \A i \in Interps, t \in Threads :
    mark[t] = "even" =>
      Levels(t, i) = IF mutex[i].owner = t THEN mutex[i].level ELSE 0

\* The wait of a synchronous eval takes two levels back and may have given up only
\* one, and refused locks lose levels; but however many operations are made, no
\* more than one level in excess is ever kept behind.
OneLevelKept ==
  \A i \in Interps, t \in Threads :
    mutex[i].owner = t => mutex[i].level <= Levels(t, i) + 1

\* What the mutexes promise, whatever is nested, whoever waits and whatever is refused.
LocksSound == RunsOwned /\ LevelsBalanced /\ OneLevelKept

\* What a thread cannot go on without, where locks are not timed: the mutex
\* somebody owns, or the thread that is evaluating what it waits for.
BlockedOn(t) ==
  CASE Top(t).pc \in {"enter", "sleep"} -> {mutex[Top(t).at].owner} \ {t, None}
    [] At(t, "relock") -> IF Top(t).at \in Keepers THEN {}
                          ELSE {mutex[Top(t).at].owner} \ {t, None}
    [] Top(t).pc \in {"lookup", "lock"} -> {mutex[Top(t).to].owner} \ {t, None}
    [] At(t, "wait") -> {u \in Threads : \E k \in DOMAIN stack[u] : stack[u][k].serves = t}
    [] OTHER -> {}
Deadlocked(D) == D # {} /\ \A t \in D : BlockedOn(t) \cap D # {}

\* No threads wait for each other in a circle.
NoDeadlock == \A D \in SUBSET Threads : ~Deadlocked(D)

\* A synchronous call gets through to the sub-interp: the caller is not part of a
\* circle of threads waiting for each other.
CallReturns ==
  \A D \in SUBSET Threads :
    Deadlocked(D) => \A t \in D : ~At(t, "lookup")

=============================================================================
