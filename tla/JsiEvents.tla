-------------------------------- MODULE JsiEvents --------------------------------
(***************************************************************************)
(* The event table of an interp and the loops that serve it (jsiCmds.c;    *)
(* NewInterpThread in jsiInterp.c).                                        *)
(*                                                                         *)
(* setTimeout, setInterval and the queue handler of jsi_AddEventHandler    *)
(* put events in the table.  sys.update() and the loop of a threaded       *)
(* sub-interp make passes over it (Jsi_EventProcess) and run the handlers  *)
(* of the events that are due.  A handler is a script: it may set timers,  *)
(* clear any event, call sys.update() again and exit().                    *)
(*                                                                         *)
(* Time is counted in milliseconds, MsPerSec of them to a second.  A pass  *)
(* walks along the buckets of a hash table (JsiHash), new entries first,   *)
(* and reads the next entry of the bucket before the handler of this one   *)
(* runs.  The table is not rebuilt: it has fewer than 30 entries.  Signal  *)
(* events and the deletion of the interp are left out.                     *)
(***************************************************************************)
EXTENDS Integers, Sequences, FiniteSetsExt

CONSTANTS Delays,     \* the delays given to setTimeout and setInterval
          Onces,      \* which are used: TRUE setTimeout, FALSE setInterval
          Updates,    \* the options given to sys.update(), see UpdateOptions
          Ops,        \* what handlers do: "set", "clear", "update", "exit"
          MsPerSec,   \* 1000
          Buckets,    \* the number of buckets of the event table
          Index(_),   \* the bucket of an id
          MaxTime,    \* bound on the clock
          MaxIds,     \* bound on the events ever made
          MaxDepth,   \* bound on the loops active at once
          None

\* minTime -1: for ever; maxPasses 0: no limit.  The option maxEvents is read into
\* udata and never used; sleep is left at its 1 ms.
UpdateOptions == [minTime : {-1} \cup Nat, maxPasses : Nat]
Forever == [minTime |-> -1, maxPasses |-> 0]
Ids == 0..(MaxIds - 1)

ASSUME EventsAssumption ==
  /\ Onces \subseteq BOOLEAN
  /\ Delays \subseteq Nat /\ Updates \subseteq UpdateOptions
  /\ Ops \subseteq {"set", "clear", "update", "exit"}
  /\ \A id \in Ids : Index(id) \in 0..(Buckets - 1)
  /\ {MsPerSec, Buckets, MaxTime, MaxIds, MaxDepth} \subseteq Nat \ {0}
  /\ MsPerSec <= MaxTime
  /\ None \notin Int

VARIABLES threaded, \* the interp has a thread and runs the loop of NewInterpThread
          now,      \* the time of day
          events,   \* eventTbl: the events that exist, by id
          nextId,   \* eventIdx
          served,   \* hasEventHdl
          loops,    \* activations of SysUpdateCmd and NewInterpThread, innermost last
          exited,   \* interp->exited
          fault,    \* the C program read freed memory
          meddled   \* auxiliary: a handler cleared an event or called sys.update()

vars == <<threaded, now, events, nextId, served, loops, exited, fault, meddled>>

Event == [type : {"timer", "always"}, when : Nat, every : Nat, once : BOOLEAN,
          count : 0..MaxDepth]   \* counts the first MaxDepth runs of a timer

\* opt: the options; start: when it was called, which counts if minTime > 0;
\* passes: counted up to maxPasses; cur: the time at which the pass it makes, or
\* the sleep it is in, started.  The pass: newIdx: the first id too new for it;
\* bucket: the next bucket to look into; next: the entry read ahead, or None; ev:
\* the event whose handler runs.
PCs == {"begin", "walk", "handler", "passed", "sleep"}
Loop == [pc : PCs, opt : UpdateOptions, start : Nat, passes : Nat, cur : Nat,
         newIdx : Nat, bucket : 0..Buckets, next : Ids \cup {None},
         ev : Ids \cup {None}]
NewLoop(opt) == [pc |-> "begin", opt |-> opt, start |-> IF opt.minTime > 0 THEN now ELSE 0, passes |-> 0,
                 cur |-> 0, newIdx |-> 0, bucket |-> 0, next |-> None, ev |-> None]

Live == DOMAIN events
Top == loops[Len(loops)]
At(pc) == loops # <<>> /\ Top.pc = pc
SetTop(f) == loops' = [loops EXCEPT ![Len(loops)] = f]
Return == loops' = SubSeq(loops, 1, Len(loops) - 1)

-----------------------------------------------------------------------------
(* The event table.                                                        *)

NewId == nextId
With(ev) == [i \in Live \cup {NewId} |-> IF i = NewId THEN ev ELSE events[i]]
Without(id) == [i \in Live \ {id} |-> events[i]]

\* Its when, which nothing reads, is left at 0.
QueueHandler == [type |-> "always", when |-> 0, every |-> 0, once |-> FALSE, count |-> 0]

\* jsi_AddEventHandler
AddEventHandler ==
  /\ served' = TRUE
  /\ IF served THEN UNCHANGED <<events, nextId>>
     ELSE nextId < MaxIds /\ events' = With(QueueHandler) /\ nextId' = NewId + 1

Init ==
  /\ threaded \in BOOLEAN
  /\ now = MsPerSec
  /\ loops = IF threaded THEN <<NewLoop(Forever)>> ELSE <<>>
  /\ events = [i \in IF threaded THEN {0} ELSE {} |-> QueueHandler]
  /\ nextId = IF threaded THEN 1 ELSE 0
  /\ served = threaded
  /\ exited = FALSE
  /\ fault = FALSE
  /\ meddled = FALSE

-----------------------------------------------------------------------------
(* Scripts: the one at top level, and the handlers of events.  Once the     *)
(* interp has exited no instruction is executed.                            *)

Running == ~exited /\ IF loops = <<>> THEN ~threaded ELSE Top.pc = "handler"
Does(op) == Running /\ (loops = <<>> \/ op \in Ops)

\* setTimeout and setInterval; the sum of the milliseconds is carried to the second.
SetTimer(ms, once) ==
  /\ Does("set") /\ nextId < MaxIds /\ now + ms <= MaxTime
  /\ events' = With([type |-> "timer", when |-> now + ms, every |-> ms,
                     once |-> once, count |-> 0])
  /\ nextId' = NewId + 1
  /\ UNCHANGED <<threaded, now, served, loops, exited, fault, meddled>>

\* clearInterval of an event of any kind, the running one included.
Clear(id) ==
  /\ Does("clear")
  /\ events' = Without(id)
  /\ meddled' = (meddled \/ loops # <<>>)
  /\ UNCHANGED <<threaded, now, nextId, served, loops, exited, fault>>

\* sys.update()
Update(opt) ==
  /\ Does("update") /\ Len(loops) < MaxDepth /\ now + opt.minTime <= MaxTime
  /\ AddEventHandler
  /\ loops' = Append(loops, NewLoop(opt))
  /\ meddled' = (meddled \/ loops # <<>>)
  /\ UNCHANGED <<threaded, now, exited, fault>>

\* exit(): the error it returns unwinds the script.
Exit ==
  /\ Does("exit")
  /\ exited' = TRUE
  /\ UNCHANGED <<threaded, now, events, nextId, served, loops, fault, meddled>>

-----------------------------------------------------------------------------
(* Jsi_EventProcess.                                                       *)

BeginPass ==
  /\ At("begin")
  /\ SetTop([Top EXCEPT !.pc = "walk", !.cur = now, !.newIdx = nextId])
  /\ UNCHANGED <<threaded, now, events, nextId, served, exited, fault, meddled>>

\* Faulty: a pass takes the events made while it runs, too.
NeverTooNew(id) == FALSE
\* "Avoid infinite loop of event creating events."
TooNew(id) == id >= Top.newIdx

\* A timer that is not due is skipped only if the milliseconds (and the seconds) of
\* the time it is due at are not 0.
Due(e) == e.type = "always" \/ e.when <= Top.cur \/ e.when % MsPerSec = 0

\* Faulty: an event that runs once is removed before its handler runs.
Taken(id) == IF events[id].once THEN Without(id) ELSE events
\* The table while the handler of id runs.
Started(id) == IF events[id].type = "timer" /\ events[id].count < MaxDepth
               THEN [events EXCEPT ![id].count = @ + 1] ELSE events

Newest(ids) == IF ids = {} THEN None ELSE Max(ids)
Chain(b) == {id \in Live : Index(id) = b}
Filled == {b \in Top.bucket..(Buckets - 1) : Chain(b) # {}}
\* Faulty: of every bucket the first entry only.
FirstOfBucket == IF Filled = {} THEN None ELSE Newest(Chain(Min(Filled)))
\* The search: the entry it read ahead, or the first of the next bucket in use.
NextFound == IF Top.next # None THEN Top.next
             ELSE IF Filled = {} THEN None ELSE Newest(Chain(Min(Filled)))

Visit(id) ==
  /\ At("walk") /\ id = NextFound /\ id \in Live
  /\ LET f == [Top EXCEPT !.bucket = Index(id) + 1,
                          !.next = Newest({i \in Chain(Index(id)) : i < id})] IN
     \/ /\ TooNew(id) \/ ~Due(events[id])
        /\ SetTop(f) /\ UNCHANGED events
     \/ /\ ~TooNew(id) /\ Due(events[id])
        /\ SetTop([f EXCEPT !.pc = "handler", !.ev = id])
        /\ events' = Started(id)
  /\ UNCHANGED <<threaded, now, nextId, served, exited, fault, meddled>>

\* The entry read ahead was cleared: its memory is read.
VisitFreed ==
  /\ At("walk") /\ NextFound \notin Live \cup {None}
  /\ fault' = TRUE
  /\ UNCHANGED <<threaded, now, events, nextId, served, loops, exited, meddled>>

PassOver == SetTop([Top EXCEPT !.pc = "passed", !.cur = 0, !.newIdx = 0, !.bucket = 0,
                               !.next = None, !.ev = None])

WalkDone ==
  /\ At("walk") /\ NextFound = None
  /\ PassOver
  /\ UNCHANGED <<threaded, now, events, nextId, served, exited, fault, meddled>>

\* Faulty: an event that runs once stays in the table.
Kept(id) == events
\* An event that runs once is removed; timers are due again after their interval,
\* counted from the start of the pass.
Finished(id) ==
  CASE events[id].once -> Without(id)
    [] events[id].type = "always" -> events
    [] OTHER -> [events EXCEPT ![id].when = Top.cur + events[id].every]

\* The handler fails after exit(), and the pass is left at once; the queue handler
\* may have nothing to run, or run what reports its failure elsewhere.  Other
\* failures are logged.
HandlerFails ==
  /\ At("handler") /\ exited
  /\ PassOver
  /\ UNCHANGED <<threaded, now, events, nextId, served, exited, fault, meddled>>

MayGoOn == exited => Top.ev \in Live /\ events[Top.ev].type = "always"

HandlerDone ==
  /\ At("handler") /\ Top.ev \in Live /\ MayGoOn
  /\ events' = Finished(Top.ev)
  /\ SetTop([Top EXCEPT !.pc = "walk", !.ev = None])
  /\ UNCHANGED <<threaded, now, nextId, served, exited, fault, meddled>>

\* The event was cleared: ev->once is read.
HandlerDoneFreed ==
  /\ At("handler") /\ Top.ev \notin Live /\ MayGoOn
  /\ fault' = TRUE
  /\ UNCHANGED <<threaded, now, events, nextId, served, loops, exited, meddled>>

-----------------------------------------------------------------------------
(* SysUpdateCmd and the loop of NewInterpThread.                           *)

Sec(t) == t \div MsPerSec
Ms(t)  == t % MsPerSec
\* Faulty: the milliseconds of the start are not taken off.
StartDropped == IF Sec(now) = Sec(Top.start) THEN Ms(now) - Ms(Top.start)
                ELSE (Sec(now) - Sec(Top.start)) * MsPerSec + Ms(now) + MsPerSec
\* The time since the update began, a second too much when the seconds differ.
Elapsed == IF Sec(now) = Sec(Top.start) THEN Ms(now) - Ms(Top.start)
           ELSE (Sec(now) - Sec(Top.start)) * MsPerSec + Ms(now)
                + (MsPerSec - Ms(Top.start))

\* Faulty: an update that has a time to wait never looks at it.
NeverDone == exited \/ Top.opt.minTime = 0
\* sys.update() returns after this pass.
UpdateDone ==
  \/ exited
  \/ Top.opt.minTime = 0
  \/ Top.opt.minTime > 0 /\ Elapsed >= Top.opt.minTime
  \/ Top.opt.maxPasses > 0 /\ Top.passes + 1 >= Top.opt.maxPasses
InThreadLoop == threaded /\ Len(loops) = 1

UpdateReturns ==
  /\ At("passed") /\ ~InThreadLoop /\ UpdateDone
  /\ Return
  /\ UNCHANGED <<threaded, now, events, nextId, served, exited, fault, meddled>>

\* The loop of a thread ends on a negative count only, which exit() does not give.
Sleep ==
  /\ At("passed") /\ (InThreadLoop \/ ~UpdateDone)
  /\ SetTop([Top EXCEPT !.pc = "sleep", !.cur = now, !.passes =
       IF Top.opt.maxPasses > 0 THEN @ + 1 ELSE @])
  /\ UNCHANGED <<threaded, now, events, nextId, served, exited, fault, meddled>>

\* At the bound of the clock a sleep takes no time.
Wake ==
  /\ At("sleep") /\ (now > Top.cur \/ now = MaxTime)
  /\ SetTop([Top EXCEPT !.pc = "begin", !.cur = 0])
  /\ UNCHANGED <<threaded, now, events, nextId, served, exited, fault, meddled>>

\* Handlers, sleeps and the script at top level take time, the walk takes none.
Tick ==
  /\ now < MaxTime /\ (loops # <<>> => Top.pc \in {"handler", "sleep"})
  /\ now' = now + 1
  /\ UNCHANGED <<threaded, events, nextId, served, loops, exited, fault, meddled>>

-----------------------------------------------------------------------------
Script == \/ \E ms \in Delays, once \in Onces : SetTimer(ms, once)
          \/ \E id \in Live : Clear(id)
          \/ \E opt \in Updates : Update(opt)
          \/ Exit
PassStep == \/ BeginPass \/ (\E id \in Ids : Visit(id)) \/ VisitFreed \/ WalkDone
            \/ HandlerFails \/ HandlerDone \/ HandlerDoneFreed \/ UpdateReturns \/ Sleep \/ Wake

\* After a fault the process has no defined behaviour.
Next == ~fault /\ (Script \/ PassStep \/ Tick)

Spec == Init /\ [][Next]_vars

\* Time passes, the thread is scheduled, and a handler that runs comes to its end.
FairSpec ==
  /\ Spec /\ WF_vars(~fault /\ Tick) /\ WF_vars(~fault /\ PassStep)
  /\ \A d \in 1..MaxDepth :
       SF_vars(~fault /\ Len(loops) = d
                 /\ (HandlerFails \/ HandlerDone \/ HandlerDoneFreed))

-----------------------------------------------------------------------------
(* Properties.                                                             *)

\* The shape of the state.
TypeOK ==
  /\ threaded \in BOOLEAN /\ now \in MsPerSec..MaxTime
  /\ Live \subseteq 0..(nextId - 1) /\ nextId \in 0..MaxIds
  /\ \A id \in Live : events[id] \in Event
  /\ loops \in Seq(Loop) /\ Len(loops) <= MaxDepth
  /\ {served, exited, fault, meddled} \subseteq BOOLEAN

\* A timeout runs once: the event that has fired is in the table only while its
\* handler runs, and fires again only if that handler calls sys.update()
\* (Jsi_EventProcess, once).  After exit() events are left where they are.
Activations(id) == {k \in DOMAIN loops : loops[k].pc = "handler" /\ loops[k].ev = id}
TimeoutOnce ==
  ~exited => \A id \in Live :
    events[id].once => events[id].count = Cardinality(Activations(id))

\* A pass never reads an event that was freed, although timeouts are removed from
\* the table it walks along and its handlers set new timers, as long as no
\* handler clears an event or calls sys.update().
NoFreedEvent == fault => meddled

\* sys.update() lets minTime pass before it returns, or all but one second of it
\* if a second began meanwhile, unless the interp exits or maxPasses is reached; and
\* once minTime has passed it does not go to sleep again.
UpdateWaits ==
  [][/\ UpdateReturns /\ ~exited /\ Top.opt.maxPasses = 0 =>
         \/ now - Top.start >= Top.opt.minTime
         \/ /\ Sec(now) > Sec(Top.start)
            /\ now - Top.start + MsPerSec >= Top.opt.minTime
     /\ Sleep /\ ~InThreadLoop /\ Top.opt.minTime > 0 =>
         now - Top.start < Top.opt.minTime]_vars

\* The events a pass may still visit: made before it, in a bucket it has not reached,
\* or not before the entry it has read ahead.
Ahead(l) == {id \in Ids : /\ id < l.newIdx
                          /\ \/ Index(id) >= l.bucket
                             \/ l.next # None /\ Index(id) = Index(l.next) /\ id <= l.next}

\* However many events the handlers make, a pass comes to its end: it runs events made
\* before it only, each once, and what it may still visit never grows, whatever the
\* handlers set and clear and whatever passes they nest.
InPass(l) == l.pc \in {"walk", "handler"}
PassAdvances ==
  [][\A k \in DOMAIN loops \cap DOMAIN loops' :
       InPass(loops[k]) /\ InPass(loops'[k]) =>
         /\ Ahead(loops'[k]) \subseteq Ahead(loops[k])
         /\ loops[k].pc = "walk" /\ loops'[k].pc = "handler" =>
              loops'[k].ev \in Ahead(loops[k]) \ Ahead(loops'[k])]_vars

\* "Setup function to run after given millisecs": the handler of a timer does not
\* start before the timer is due.
Starts == At("walk") /\ loops' # <<>> /\ loops'[Len(loops)].pc = "handler"
NotEarly ==
  [][Starts => LET e == events[loops'[Len(loops)].ev] IN
       e.type = "timer" => e.when <= now]_vars

\* A timer that is due fires (or is cleared) while an update for ever or the loop
\* of a thread is active, whatever the handlers do and even if it was made during
\* a pass that had to ignore it.
ServesForever == loops # <<>> /\ loops[1].opt = Forever
TimersRun ==
  \A id \in Ids :
    (ServesForever /\ id \in Live /\ events[id].type = "timer" /\ events[id].when <= now)
      ~> (id \notin Live \/ events[id].count > 0 \/ exited \/ fault)

\* Every sys.update() that is not to go on for ever returns, unless a handler it
\* runs calls one that does.
Endless(k) == \E j \in k..Len(loops) : loops[j].opt = Forever
UpdateEnds ==
  \A k \in 1..MaxDepth :
    (Len(loops) >= k /\ ~Endless(k)) ~> (Len(loops) < k \/ Endless(k) \/ fault)
=============================================================================
