------------------------------ MODULE MCThreads ------------------------------
(***************************************************************************)
(* What several threads do: the mutexes of trees of interps, and the       *)
(* queues of a threaded sub-interp.  Several instances are checked in one  *)
(* run; a behaviour is one of one of them, and part says of which: a trio  *)
(* of interps, given by the constants; a chain of threads; queues whose    *)
(* callbacks nest; and a trio whose child has no script, in a run of its   *)
(* own.                                                                    *)
(***************************************************************************)
EXTENDS InterpLocks, TLC

CONSTANTS a, b, p,                    \* sub-interps
          Syncs, Calls, Msgs, Targets, Failed   \* of InterpQueues

VARIABLES part, rowMutex, rowStack, rowJob, rowMark,
          posted, evalQ, msgQ, torn, sent, head, next, heap, isExec, frames,
          thread, parent, iret, result, ran, execs, fault

rowVars == <<rowMutex, rowStack, rowJob, rowMark>>
queueVars == <<posted, evalQ, msgQ, torn, sent, head, next, heap, isExec, frames,
               thread, parent, iret, result, ran, execs, fault>>
allVars == <<part, vars, rowVars, queueVars>>

\* a: a threaded sub-interp of the main interp; p: a sub-interp in its thread.
TrioParent == [s \in {a, p} |-> Main]
TrioHome   == [i \in {Main, a, p} |-> IF i = a THEN a ELSE Main]
\* Two threaded sub-interps; b is a child of a.
ChainParent == [s \in {a, b} |-> IF s = a THEN Main ELSE a]
ChainHome   == [i \in {Main, a, b} |-> i]

\* Three threads, each interp the parent of the next, and no nested evaluation.
Row == INSTANCE InterpLocks WITH Subs <- {a, b}, Parent <- ChainParent,
            Home <- ChainHome, Loops <- {}, Keepers <- {},
            Ops <- {"alias", "call", "sleep"}, LockTimed <- FALSE, MaxDepth <- 3,
            mutex <- rowMutex, stack <- rowStack, job <- rowJob, mark <- rowMark

\* A sub-interp without a script, calls into it and aliases out of it.
Duo == INSTANCE InterpLocks WITH Subs <- {a, p}, Parent <- TrioParent,
          Home <- TrioHome, Loops <- {a}, Keepers <- {},
          Ops <- {"nested", "alias", "call", "sleep"}, LockTimed <- FALSE, MaxDepth <- 3

\* Nested callbacks, locks that fail, functions called, a thread that ends.
Queues == INSTANCE InterpQueues WITH NumScripts <- 3, Throwing <- {1}, Malformed <- {2},
             MaxDepth <- 2, LockTimed <- TRUE, ScriptEnds <- TRUE

ASSUME InstancesAssumption == Row!LocksAssumption /\ Duo!LocksAssumption

ThreadsInit == part \in {"trio", "chain", "queues"} /\ Init /\ Row!Init /\ Queues!Init
ThreadsNext ==
  \/ part = "trio" /\ Next /\ UNCHANGED <<part, rowVars, queueVars>>
  \/ part = "chain" /\ Row!Next /\ UNCHANGED <<part, vars, queueVars>>
  \/ part = "queues" /\ Queues!Next /\ UNCHANGED <<part, vars, rowVars>>
ThreadsSpec == ThreadsInit /\ [][ThreadsNext]_allVars

DuoSpec == /\ part = "duo" /\ Duo!Init /\ Row!Init /\ Queues!Init
           /\ [][Duo!Next /\ UNCHANGED <<part, rowVars, queueVars>>]_allVars

\* Evals are interchangeable in what is checked of the queues.
Symmetry == Permutations(Syncs)

\* The properties of the chain and of the queues, as in InterpLocks and InterpQueues.
ChainNoDeadlock == Row!NoDeadlock
EvalsServed == Queues!EvalsServed
EvaluatedAgain == Queues!EvaluatedAgain
DuoCallReturns == Duo!CallReturns
=============================================================================
