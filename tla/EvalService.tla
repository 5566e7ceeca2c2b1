------------------------------ MODULE EvalService ------------------------------
(***************************************************************************)
(* What a threaded sub-interp promises to the interp that owns it, without *)
(* queues, mutexes or callbacks:                                           *)
(*   i.eval(js, true)  hands over a script, which runs later, after the    *)
(*                     scripts handed over before it, and only once;       *)
(*   i.eval(js)        is evaluated once and then answered.                *)
(* The two kinds are not ordered against each other: a synchronous eval    *)
(* may overtake the scripts handed over before it.  A service that is      *)
(* Lossy may forget scripts, the oldest first, never a synchronous eval.   *)
(***************************************************************************)
EXTENDS Naturals, Sequences

CONSTANTS NumScripts, Syncs, Lossy

VARIABLES given,     \* how many scripts were handed over
          pending,   \* scripts handed over and not started, in order
          done,      \* scripts started, in order
          sync       \* how far each synchronous eval is

serviceVars == <<given, pending, done, sync>>

Init == /\ given = 0 /\ pending = <<>> /\ done = <<>>
        /\ sync = [s \in Syncs |-> "idle"]

\* Scripts are numbered as they are handed over.
HandOver ==
  /\ given < NumScripts
  /\ given' = given + 1
  /\ pending' = Append(pending, given + 1)
  /\ UNCHANGED <<done, sync>>

RunScript ==
  /\ pending # <<>>
  /\ done' = Append(done, Head(pending))
  /\ pending' = Tail(pending)
  /\ UNCHANGED <<given, sync>>

Lose ==
  /\ Lossy
  /\ \E k \in 1..Len(pending) : pending' = SubSeq(pending, k + 1, Len(pending))
  /\ UNCHANGED <<given, done, sync>>

Advance(s, from, to) == sync[s] = from /\ sync' = [sync EXCEPT ![s] = to]

\* One caller: it has one question out at a time.
Ask(s) ==
  /\ \A t \in Syncs : sync[t] \in {"idle", "answered"}
  /\ Advance(s, "idle", "asked") /\ UNCHANGED <<given, pending, done>>
Evaluate(s) == Advance(s, "asked", "evaluated") /\ UNCHANGED <<given, pending, done>>
Answer(s) == Advance(s, "evaluated", "answered") /\ UNCHANGED <<given, pending, done>>

Serve == RunScript \/ \E s \in Syncs : Evaluate(s) \/ Answer(s)
Next == HandOver \/ Lose \/ Serve \/ \E s \in Syncs : Ask(s)

Spec == /\ Init /\ [][Next]_serviceVars
        /\ WF_serviceVars(RunScript)
        /\ WF_serviceVars(\E s \in Syncs : Evaluate(s) \/ Answer(s))

=============================================================================
