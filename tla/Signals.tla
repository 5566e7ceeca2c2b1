------------------------------ MODULE Signals ------------------------------
(***************************************************************************)
(* Signals (jsiSignal.c) and the pass over the events that runs their      *)
(* callbacks (Jsi_EventProcess in jsiCmds.c).                              *)
(*                                                                         *)
(* A handler, which any thread may have to run between any two             *)
(* instructions, sets a bit of the sigmask of the first interp that        *)
(* loaded the commands (sigloc).  A pass of any interp tests and clears    *)
(* the bits, each a load and a store of the whole mask, without a lock.    *)
(* What a pass does to events that are cleared under it is in JsiEvents.   *)
(***************************************************************************)
EXTENDS Integers, Sequences, FiniteSets, SequencesExt

CONSTANTS
    Interps, Primary,    \* the interps, each in a thread; sigloc is that of Primary
    Sigs, Alrm,          \* signals, and the one of alarm()
    Uncaught,            \* those the host lets nobody catch
    Lists,               \* the lists of names that scripts give, "?" for an unknown one
    MaxEvents, MaxSends, MaxDepth, MaxOps   \* bounds

\* The primary interp and the alarm are among the others.
ASSUME SignalsAssumption == Primary \in Interps /\ Alrm \in Sigs /\ MaxOps \in Nat

VARIABLES
    alive,             \* the interps that are not deleted
    original,          \* auxiliary: the dispositions the process began with
    disposition,       \* of the host: "dfl", "ign", or "handler" or "ignorer" of the code
    signal_handling,   \* what the code takes it for: "default", "handle" or "ignore"
    sa_old,            \* the dispositions to restore
    sigmask,           \* the bits of the primary interp
    eventTbl,          \* the signal events by id: interp and signal
    alarm,             \* an alarm is set
    passes,            \* the passes of each interp, one in the handler of another
    sent, runs,        \* auxiliary: signals caught, and callbacks run, of each
    owed,              \* auxiliary: signals caught since a callback was last due for them
    before,            \* auxiliary: what runs and sent were when an event was made
    fault, slips, ops

hostVars == <<original, disposition, signal_handling, sa_old>>
auxVars == <<sent, runs, before>>
vars == <<alive, hostVars, sigmask, eventTbl, alarm, passes, auxVars, owed, fault, slips, ops>>

Scan(todo) == [at |-> "scan", todo |-> todo, ev |-> 0, mask |-> {}]

Init ==
    /\ alive = Interps
    /\ original \in [Sigs -> {"dfl", "ign"}] /\ \A s \in Uncaught : original[s] = "dfl"
    /\ disposition = original
    /\ signal_handling = [s \in Sigs |-> "default"] /\ sa_old = [s \in Sigs |-> "zero"]
    /\ sigmask = {} /\ eventTbl = <<>> /\ alarm = FALSE
    /\ passes = [i \in Interps |-> <<>>]
    /\ sent = [s \in Sigs |-> 0] /\ runs = [s \in Sigs |-> 0] /\ owed = {} /\ before = <<>>
    /\ fault = "none" /\ slips = {} /\ ops = 0

Top(i) == Last(passes[i])
Becomes(i, frame) == passes' = [passes EXCEPT ![i] = Append(Front(@), frame)]
\* A script runs: outside of passes, or in the callback of one.
Scripting(i) == /\ fault = "none" /\ i \in alive /\ ops < MaxOps
                /\ passes[i] # <<>> => Top(i).at = "run"

-----------------------------------------------------------------------------
(* Dispositions. *)

\* sigaction() on the signals of S.
Sigaction(S, to) ==
    disposition' = [s \in Sigs |-> IF s \in S \ Uncaught THEN to[s] ELSE disposition[s]]

\* What is there is kept when the default is left, and only then.
Saved(S) ==
    [s \in Sigs |-> IF s \in S \ Uncaught /\ signal_handling[s] = "default"
                    THEN disposition[s] ELSE sa_old[s]]

Become(S, action, to) ==
    LET changed == {s \in S : signal_handling[s] # action} IN
    /\ Sigaction(changed, to)
    /\ sa_old' = IF action = "default" THEN sa_old ELSE Saved(changed)
    /\ signal_handling' = [s \in Sigs |-> IF s \in S THEN action ELSE signal_handling[s]]

\* The names before the first that is unknown; then the command fails.
Known(list) ==
    {list[n] : n \in {m \in DOMAIN list : \A k \in 1..m : list[k] # "?"}}

\* signal.handle(), signal.ignore(), signal.default(): the primary interp alone may.
SignalSub(i, list, action) ==
    /\ Scripting(i) /\ i = Primary
    /\ Become(Known(list), action,
              [s \in Sigs |-> CASE action = "handle" -> "handler"
                                [] action = "ignore" -> "ignorer"
                                [] action = "default" -> sa_old[s]])
    /\ ops' = ops + 1
    /\ UNCHANGED <<alive, original, sigmask, eventTbl, alarm, passes, auxVars, owed, fault,
                   slips>>

\* signal.callback(): any interp may.
SignalCallback(i, s) ==
    /\ Scripting(i) /\ Len(eventTbl) < MaxEvents
    /\ eventTbl' = Append(eventTbl, [interp |-> i, sig |-> s])
    /\ before' = Append(before, [sent |-> sent[s], runs |-> runs[s], bit |-> s \in sigmask])
    /\ Become({s}, "handle", [t \in Sigs |-> "handler"])
    /\ ops' = ops + 1
    /\ UNCHANGED <<alive, original, sigmask, alarm, passes, sent, runs, owed, fault, slips>>

SignalAlarm(i, secs) ==
    /\ Scripting(i) /\ alarm # (secs # 0)
    /\ alarm' = (secs # 0)
    /\ ops' = ops + 1
    /\ UNCHANGED <<alive, hostVars, sigmask, eventTbl, passes, auxVars, owed, fault, slips>>

-----------------------------------------------------------------------------
(* A signal comes, from kill() or of itself.                               *)

Sent == LET S == DOMAIN sent IN
        FoldSet(LAMBDA s, n : n + sent[s], 0, S)

\* signal_handler: the bit is set, also when the interp it is in was freed.
Caught(s) ==
    /\ IF Primary \in alive
       THEN sigmask' = sigmask \cup {s} /\ owed' = owed \cup {s} /\ UNCHANGED <<fault, slips>>
       ELSE /\ fault' = "freed mask" /\ slips' = slips \cup {"deleted"}
            /\ UNCHANGED <<sigmask, owed>>
    /\ sent' = [sent EXCEPT ![s] = @ + 1]

Signal(s) ==
    /\ fault = "none" /\ Sent < MaxSends
    /\ disposition[s] = "handler" /\ Caught(s)
    /\ UNCHANGED <<alive, hostVars, eventTbl, alarm, passes, runs, before, ops>>

AlarmRings ==
    /\ fault = "none" /\ Sent < MaxSends /\ alarm /\ alarm' = FALSE
    /\ IF disposition[Alrm] = "handler" THEN Caught(Alrm)
       ELSE UNCHANGED <<sigmask, sent, owed, fault, slips>>
    /\ UNCHANGED <<alive, hostVars, eventTbl, passes, runs, before, ops>>

-----------------------------------------------------------------------------
(* Jsi_EventProcess, as far as signals go.                                 *)

\* The events there are when it begins, in the order of the table, any.
PassBegins(i) ==
    /\ Scripting(i) /\ Len(passes[i]) < MaxDepth
    /\ passes' = [passes EXCEPT ![i] =
                    Append(@, Scan({n \in DOMAIN eventTbl : eventTbl[n].interp = i}))]
    /\ ops' = ops + 1
    /\ UNCHANGED <<alive, hostVars, sigmask, eventTbl, alarm, auxVars, owed, fault, slips>>

Passing(i, at) == fault = "none" /\ passes[i] # <<>> /\ Top(i).at = at

\* jsi_SignalIsSet
SignalIsSet(i, n) ==
    /\ Passing(i, "scan") /\ n \in Top(i).todo
    /\ IF Primary \notin alive
       THEN /\ fault' = "freed mask" /\ slips' = slips \cup {"deleted"} /\ UNCHANGED passes
       ELSE /\ Becomes(i, [Top(i) EXCEPT !.todo = @ \ {n}, !.ev = n,
                             !.at = IF eventTbl[n].sig \in sigmask THEN "load" ELSE "scan"])
            /\ UNCHANGED <<fault, slips>>
    /\ UNCHANGED <<alive, hostVars, sigmask, eventTbl, alarm, auxVars, owed, ops>>

\* jsi_SignalClear: the mask is loaded, ...
ClearLoads(i) ==
    /\ Passing(i, "load")
    /\ Primary \in alive
    /\ Becomes(i, [Top(i) EXCEPT !.at = "store", !.mask = sigmask])
    /\ slips' = IF eventTbl[Top(i).ev].sig \in sigmask THEN slips ELSE slips \cup {"torn"}
    /\ UNCHANGED <<alive, hostVars, sigmask, eventTbl, alarm, auxVars, owed, fault, ops>>

\* Faulty: the mask is cleared.
ClearedAll(mask, s) == {}

\* ... and stored without the bit, and without those that were set meanwhile.
Cleared(mask, s) == mask \ {s}

\* Then the callback runs.
ClearStores(i) ==
    /\ Passing(i, "store")
    /\ Primary \in alive
    /\ LET s == eventTbl[Top(i).ev].sig IN
       /\ sigmask' = Cleared(Top(i).mask, s)
       /\ slips' = IF sigmask = Top(i).mask THEN slips ELSE slips \cup {"torn"}
       /\ runs' = [runs EXCEPT ![s] = @ + 1]
       /\ owed' = owed \ {s}
    /\ Becomes(i, [Top(i) EXCEPT !.at = "run", !.mask = {}])
    /\ UNCHANGED <<alive, hostVars, eventTbl, alarm, sent, before, fault, ops>>

CallbackReturns(i) ==
    /\ Passing(i, "run")
    /\ Becomes(i, Scan(Top(i).todo))
    /\ UNCHANGED <<alive, hostVars, sigmask, eventTbl, alarm, auxVars, owed, fault, slips, ops>>

PassEnds(i) ==
    /\ Passing(i, "scan") /\ Top(i).todo = {}
    /\ passes' = [passes EXCEPT ![i] = Front(@)]
    /\ UNCHANGED <<alive, hostVars, sigmask, eventTbl, alarm, auxVars, owed, fault, slips, ops>>

\* An interp is freed with its mask; neither sigloc nor the dispositions are reset.
InterpFree(i) ==
    /\ fault = "none" /\ i \in alive /\ passes[i] = <<>>
    /\ \A j \in Interps : passes[j] # <<>> => Top(j).at \notin {"load", "store"}
    /\ alive' = alive \ {i}
    /\ UNCHANGED <<hostVars, sigmask, eventTbl, alarm, passes, auxVars, owed, fault, slips, ops>>

Next ==
    \/ \E i \in Interps :
          \/ \E list \in Lists, action \in {"handle", "ignore", "default"} :
                SignalSub(i, list, action)
          \/ \E s \in Sigs : SignalCallback(i, s)
          \/ \E secs \in {0, 1} : SignalAlarm(i, secs)
          \/ PassBegins(i) \/ (\E n \in DOMAIN eventTbl : SignalIsSet(i, n))
          \/ ClearLoads(i) \/ ClearStores(i) \/ CallbackReturns(i) \/ PassEnds(i)
          \/ InterpFree(i)
    \/ \E s \in Sigs : Signal(s)
    \/ AlarmRings

Spec == Init /\ [][Next]_vars

-----------------------------------------------------------------------------
TypeOK ==
    /\ alive \subseteq Interps /\ sigmask \subseteq Sigs /\ owed \subseteq Sigs
    /\ signal_handling \in [Sigs -> {"default", "handle", "ignore"}]
    /\ ops \in 0..MaxOps

\* What the code takes the disposition of a signal for is what it is, for every signal that
\* can be caught; and the default is what the process began with, however often and by
\* whichever command it was changed, also by lists that failed in the middle.
DispositionsTrue ==
    \A s \in Sigs \ Uncaught :
        disposition[s] = CASE signal_handling[s] = "handle" -> "handler"
                           [] signal_handling[s] = "ignore" -> "ignorer"
                           [] signal_handling[s] = "default" -> original[s]

\* A signal that was caught waits in the mask until a callback is due for it, whatever
\* other signals, passes and callbacks do, unless a load and a store of the mask had
\* another store between them.
NoSignalLost == "torn" \notin slips => owed \subseteq sigmask

\* Callbacks run no more often than signals came, together and since each was made (and
\* once more when the bit was set already: a signal from before it).
RunsOwed ==
    "torn" \notin slips =>
        /\ \A s \in Sigs : runs[s] <= sent[s]
        /\ \A n \in DOMAIN eventTbl :
              LET s == eventTbl[n].sig IN
              runs[s] - before[n].runs <=
                  sent[s] - before[n].sent + (IF before[n].bit THEN 1 ELSE 0)

\* No freed memory is used unless the primary interp was deleted.
MaskThere == fault # "none" => "deleted" \in slips

SignalsSound == TypeOK /\ DispositionsTrue /\ NoSignalLost /\ RunsOwed /\ MaskThere
=============================================================================
