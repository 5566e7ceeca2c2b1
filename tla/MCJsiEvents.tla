------------------------------ MODULE MCJsiEvents -------------------------------
(***************************************************************************)
(* JsiEvents for TLC: a table of two buckets, and options of sys.update():   *)
(* a time, a number of passes.  Two instances are checked in one run; a      *)
(* behaviour is one of one of them, and part says of which: timers, given by *)
(* the constants, and the clock, with no timers but longer updates that      *)
(* begin and end in different seconds.                                       *)
(***************************************************************************)
EXTENDS JsiEvents

VARIABLE part

\* The ids 1 and 2 share a bucket.
BucketOf(id) == (id + 1) \div 2

SomeUpdates == {[minTime |-> 2, maxPasses |-> 0], [minTime |-> -1, maxPasses |-> 1]}
LongUpdates == [minTime : {1, 3, 4, 5}, maxPasses : {0, 2}]

Clock == INSTANCE JsiEvents WITH Delays <- {}, Ops <- {}, Updates <- LongUpdates,
            MaxTime <- 4 * MsPerSec, MaxIds <- 1, MaxDepth <- 1

ASSUME ClockAssumption == Clock!EventsAssumption

PartsInit == part \in {"timers", "clock"} /\ Init
PartsNext == /\ UNCHANGED part
             /\ \/ part = "timers" /\ Next
                \/ part = "clock" /\ Clock!Next

\* The fairness of FairSpec, in the part checked.
Ticks == IF part = "timers" THEN Tick ELSE Clock!Tick
PassSteps == IF part = "timers" THEN PassStep ELSE Clock!PassStep
HandlerEnds == HandlerFails \/ HandlerDone \/ HandlerDoneFreed
PartsSpec ==
  /\ PartsInit /\ [][PartsNext]_<<vars, part>>
  /\ WF_vars(~fault /\ Ticks) /\ WF_vars(~fault /\ PassSteps)
  /\ \A d \in 1..MaxDepth : SF_vars(~fault /\ Len(loops) = d /\ HandlerEnds)
=============================================================================
