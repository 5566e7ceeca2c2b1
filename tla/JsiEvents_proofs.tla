---------------------------- MODULE JsiEvents_proofs ----------------------------
(***************************************************************************)
(* Proofs about the event table and the loops that serve it, for every     *)
(* number of loops and of events, every hash function of the table and     *)
(* every set of delays and of options.                                     *)
(***************************************************************************)
EXTENDS JsiEvents, FiniteSetTheorems, SequenceTheorems, WellFoundedInduction, TLAPS

LEMMA Parameters ==
  /\ MsPerSec \in Nat \ {0} /\ Buckets \in Nat \ {0} /\ MaxTime \in Nat \ {0}
  /\ MaxIds \in Nat \ {0} /\ MaxDepth \in Nat \ {0}
  /\ MsPerSec <= MaxTime /\ None \notin Int /\ None \notin Ids
  /\ Delays \subseteq Nat /\ Onces \subseteq BOOLEAN /\ Updates \subseteq UpdateOptions
  /\ \A id \in Ids : Index(id) \in 0..(Buckets - 1)
<1>1. {MsPerSec, Buckets, MaxTime, MaxIds, MaxDepth} \subseteq Nat \ {0}
  BY EventsAssumption
<1>2. Ids \subseteq Int
  BY <1>1 DEF Ids
<1> QED
  BY <1>1, <1>2, EventsAssumption

-----------------------------------------------------------------------------
(* Sets of naturals.                                                       *)

LEMMA Least ==
  ASSUME NEW S, S \subseteq Nat, S # {}
  PROVE  \E x \in S : \A y \in S : x <= y
<1> DEFINE R == OpToRel(<, Nat)
<1>1. \A x, y \in Nat : x < y => <<x, y>> \in R
  BY DEF OpToRel
<1>2. IsWellFoundedOn(R, Nat)
  BY NatLessThanWellFounded
<1> HIDE DEF R
<1>3. PICK x \in S : \A y \in S : ~(<<y, x>> \in R)
  BY <1>2, WFMin
<1>4. \A y \in S : ~(y < x)
  BY <1>1, <1>3
<1>5. \A y \in S : x <= y
  BY <1>4
<1> QED
  BY <1>5

LEMMA Greatest ==
  ASSUME NEW n \in Nat, NEW S, S \subseteq 0..n, S # {}
  PROVE  \E x \in S : \A y \in S : x >= y
<1> DEFINE T == {i \in 0..n : n - i \in S}
<1>0. PICK z \in S : TRUE
  OBVIOUS
<1>1. T \subseteq Nat /\ n - z \in T
  BY <1>0
<1>2. PICK t \in T : \A y \in T : t <= y
  BY <1>1, Least
<1>3. \A y \in S : n - y \in T
  OBVIOUS
<1>4. n - t \in S /\ \A y \in S : n - t >= y
  BY <1>2, <1>3
<1> QED
  BY <1>4

LEMMA NewestOf ==
  ASSUME NEW S \in SUBSET Ids
  PROVE  Newest(S) \in S \cup {None} /\ (Newest(S) = None <=> S = {})
<1>1. CASE S = {}
  BY <1>1 DEF Newest
<1>2. CASE S # {}
  <2>1. MaxIds - 1 \in Nat /\ S \subseteq 0..(MaxIds - 1)
    BY Parameters DEF Ids
  <2>2. \E x \in S : \A y \in S : x >= y
    BY <2>1, <1>2, Greatest
  <2>3. Max(S) \in S
    BY <2>2 DEF Max
  <2>4. Newest(S) = Max(S)
    BY <1>2 DEF Newest
  <2> QED
    BY <2>3, <2>4, <1>2, Parameters
<1> QED
  BY <1>1, <1>2

-----------------------------------------------------------------------------
(* The inductive invariant.                                                *)

\* A loop that is not the innermost runs a handler; no loop began in the future, the
\* event whose handler a loop runs is one that was made, and only a pass reads ahead.
LoopsSound ==
  \A k \in 1..Len(loops) :
    /\ loops[k].start <= now /\ loops[k].cur <= now
    /\ k < Len(loops) => loops[k].pc = "handler"
    /\ loops[k].pc = "handler" => loops[k].ev \in 0..(nextId - 1)
    /\ loops[k].pc \notin {"walk", "handler"} => loops[k].next = None

\* As long as no handler clears an event or updates: there is one loop, and what it
\* still has to read, the event whose handler runs and the one read ahead, exists.
Undisturbed ==
  ~meddled =>
    /\ Len(loops) <= 1
    /\ \A k \in 1..Len(loops) :
         /\ loops[k].pc = "walk" => loops[k].next \in Live \cup {None}
         /\ loops[k].pc = "handler" =>
              /\ loops[k].ev \in Live
              /\ loops[k].next \in (Live \ {loops[k].ev}) \cup {None}

\* The queue handler is never one that runs once.
OnceTimers == \A id \in Live : events[id].once => events[id].type = "timer"

IInv == TypeOK /\ OnceTimers /\ LoopsSound /\ Undisturbed /\ NoFreedEvent /\ TimeoutOnce

LEMMA TopOf ==
  ASSUME TypeOK, loops # <<>>
  PROVE  /\ Len(loops) \in Nat \ {0} /\ Len(loops) <= MaxDepth /\ Top \in Loop
         /\ DOMAIN loops = 1..Len(loops)
<1>1. loops \in Seq(Loop) /\ Len(loops) \in Nat /\ Len(loops) # 0 /\ Len(loops) <= MaxDepth
  BY DEF TypeOK
<1> QED
  BY <1>1 DEF Top

LEMMA TopSet ==
  ASSUME TypeOK, loops # <<>>, NEW f \in Loop, SetTop(f)
  PROVE  /\ loops' \in Seq(Loop) /\ Len(loops') = Len(loops)
         /\ DOMAIN loops' = DOMAIN loops
         /\ \A k \in 1..(Len(loops) - 1) : loops'[k] = loops[k]
         /\ loops'[Len(loops)] = f
         /\ loops' # <<>>
<1>1. loops \in Seq(Loop) /\ Len(loops) \in 1..Len(loops)
  BY TopOf DEF TypeOK
<1>2. loops' = [loops EXCEPT ![Len(loops)] = f]
  BY DEF SetTop
<1> QED
  BY <1>1, <1>2

LEMMA ActivationsFinite ==
  ASSUME TypeOK
  PROVE  \A id : IsFiniteSet(Activations(id)) /\ Cardinality(Activations(id)) \in Nat
<1>1. IsFiniteSet(1..Len(loops))
  BY FS_Interval DEF TypeOK
<1>2. \A id : Activations(id) \subseteq 1..Len(loops)
  BY DEF TypeOK, Activations
<1> QED
  BY <1>1, <1>2, FS_Subset, FS_CardinalityType

\* The loops that run the handler of id, when only the innermost loop has changed.
LEMMA ActivationsOfTop ==
  ASSUME TypeOK, loops # <<>>, NEW f \in Loop, SetTop(f), NEW id
  PROVE  Activations(id)' = (Activations(id) \ {Len(loops)})
           \cup (IF f.pc = "handler" /\ f.ev = id THEN {Len(loops)} ELSE {})
<1> DEFINE n == Len(loops)
           D == DOMAIN loops
<1>1. n \in Nat \ {0} /\ D = 1..n
  BY TopOf
<1>2. /\ DOMAIN loops' = D /\ loops'[n] = f
      /\ \A k \in 1..(n - 1) : loops'[k] = loops[k]
  BY TopSet
<1>3. n \in D /\ \A k \in D : k # n => k \in 1..(n - 1)
  BY <1>1
<1>4. Activations(id)' = {k \in D : loops'[k].pc = "handler" /\ loops'[k].ev = id}
  BY <1>2 DEF Activations
<1>5. Activations(id) = {k \in D : loops[k].pc = "handler" /\ loops[k].ev = id}
  BY DEF Activations
<1> DEFINE A == Activations(id)
           B == (A \ {n}) \cup (IF f.pc = "handler" /\ f.ev = id THEN {n} ELSE {})
<1>6. n \in A' <=> n \in B
  BY <1>2, <1>3, <1>4
<1>7. ASSUME NEW k, k # n PROVE k \in A' <=> k \in B
  BY <1>2, <1>3, <1>4, <1>5, <1>7
<1> HIDE DEF A, B
<1>8. A' = B
  BY <1>6, <1>7
<1> QED
  BY <1>8 DEF A, B

LEMMA SameActivations ==
  ASSUME TypeOK, loops # <<>>, NEW f \in Loop, SetTop(f),
         Top.pc # "handler", f.pc # "handler", NEW id
  PROVE  Activations(id)' = Activations(id)
<1>1. Len(loops) \notin Activations(id)
  BY DEF Activations, Top
<1> QED
  BY <1>1, ActivationsOfTop

-----------------------------------------------------------------------------
(* One lemma for each kind of step.                                        *)

LEMMA InitIInv == Init => IInv
<1> SUFFICES ASSUME Init PROVE IInv
  OBVIOUS
<1>1. Forever \in UpdateOptions /\ QueueHandler \in Event
  BY Parameters DEF Forever, UpdateOptions, QueueHandler, Event
<1>2. NewLoop(Forever) \in Loop
  BY <1>1, Parameters DEF NewLoop, Loop, PCs, Forever
<1>3. loops \in Seq(Loop) /\ Len(loops) <= 1
      /\ \A k \in 1..Len(loops) : k = 1 /\ loops[k] = NewLoop(Forever)
  <2>1. CASE threaded
    BY <2>1, <1>2 DEF Init
  <2>2. CASE ~threaded
    BY <2>2 DEF Init
  <2> QED
    BY <2>1, <2>2 DEF Init
<1>4. TypeOK
  <2>1. Live \subseteq 0..(nextId - 1) /\ nextId \in 0..MaxIds
    BY Parameters DEF Init, Live
  <2>2. \A id \in Live : events[id] \in Event
    BY <1>1 DEF Init, Live
  <2>3. {served, exited, fault, meddled} \subseteq BOOLEAN
    BY DEF Init
  <2>4. now \in MsPerSec..MaxTime /\ Len(loops) <= MaxDepth
    BY <1>3, Parameters DEF Init
  <2> QED
    BY <2>1, <2>2, <2>3, <2>4, <1>3 DEF Init, TypeOK
<1>5. LoopsSound
  BY <1>3, Parameters DEF LoopsSound, NewLoop, Forever, Init
<1>6. Undisturbed
  BY <1>3 DEF Undisturbed, NewLoop
<1>7. TimeoutOnce
  BY DEF Init, TimeoutOnce, Live, QueueHandler
<1>8. OnceTimers
  BY DEF Init, OnceTimers, Live, QueueHandler
<1> QED
  BY <1>4, <1>5, <1>6, <1>7, <1>8 DEF IInv, NoFreedEvent, Init

\* A step of the innermost loop that leaves the table alone and runs no handler.
LEMMA TopStep ==
  ASSUME IInv, loops # <<>>, NEW f \in Loop, SetTop(f),
         Top.pc # "handler" \/ exited, f.pc # "handler",
         f.start <= now, f.cur <= now,
         f.pc # "walk" => f.next = None,
         f.pc = "walk" /\ ~meddled => f.next \in Live \cup {None},
         UNCHANGED <<threaded, now, events, nextId, served, exited, fault, meddled>>
  PROVE  IInv'
<1> USE DEF IInv
<1>1. /\ Len(loops) \in Nat \ {0} /\ Len(loops') = Len(loops)
      /\ \A k \in 1..Len(loops) :
           loops'[k] = IF k = Len(loops) THEN f ELSE loops[k]
  <2>1. Len(loops) \in Nat \ {0}
    BY TopOf
  <2>2. \A k \in 1..Len(loops) : k = Len(loops) \/ k \in 1..(Len(loops) - 1)
    BY <2>1
  <2> QED
    BY TopSet, <2>1, <2>2
<1>2. TypeOK'
  BY TopSet, <1>1 DEF TypeOK, Live
<1>3. LoopsSound'
  BY <1>1 DEF LoopsSound
<1>4. Undisturbed'
  BY <1>1 DEF Undisturbed, Live
<1>5. TimeoutOnce'
  <2>1. CASE exited
    BY <2>1 DEF TimeoutOnce
  <2>2. CASE ~exited
    <3>1. \A id : Activations(id)' = Activations(id)
      BY <2>2, SameActivations
    <3> QED
      BY <3>1, <2>2 DEF TimeoutOnce, Live
  <2> QED
    BY <2>1, <2>2
<1> QED
  BY <1>2, <1>3, <1>4, <1>5 DEF NoFreedEvent, OnceTimers, Live

\* Ids are not used again: no loop runs a handler of the next one.
LEMMA NewIdUnused ==
  ASSUME TypeOK, LoopsSound
  PROVE  NewId \notin Live /\ Cardinality(Activations(NewId)) = 0
<1>1. nextId \in Nat /\ Live \subseteq 0..(nextId - 1) /\ DOMAIN loops = 1..Len(loops)
  BY Parameters DEF TypeOK
<1>2. Activations(NewId) = {}
  BY <1>1 DEF Activations, LoopsSound, NewId
<1> QED
  BY <1>1, <1>2, FS_EmptySet DEF NewId

\* An event is made: what the table holds of the others is left alone.
LEMMA AddEvent ==
  ASSUME TypeOK, LoopsSound, TimeoutOnce, nextId < MaxIds, NEW e \in Event, e.count = 0,
         OnceTimers, e.once => e.type = "timer",
         events' = With(e), nextId' = NewId + 1,
         \A id : Activations(id)' = Activations(id), UNCHANGED exited
  PROVE  /\ Live' = Live \cup {nextId}
         /\ Live' \subseteq 0..(nextId' - 1) /\ nextId' \in 0..MaxIds /\ nextId' > nextId
         /\ \A id \in Live' : events'[id] \in Event
         /\ TimeoutOnce' /\ OnceTimers'
<1>1. nextId \in 0..MaxIds /\ Live \subseteq 0..(nextId - 1)
  BY DEF TypeOK
<1>2. Live' = Live \cup {nextId} /\ nextId' = nextId + 1
  BY DEF With, NewId, Live
<1>3. \A id \in Live' : events'[id] = IF id = nextId THEN e ELSE events[id]
  BY DEF With, NewId, Live
<1>4. \A id \in Live' : events'[id] \in Event
  BY <1>2, <1>3 DEF TypeOK
<1>5. TimeoutOnce'
  BY <1>2, <1>3, NewIdUnused DEF TimeoutOnce, NewId
<1>6. OnceTimers'
  BY <1>2, <1>3 DEF OnceTimers
<1> QED
  BY <1>1, <1>2, <1>4, <1>5, <1>6, Parameters

LEMMA SetTimerIInv ==
  ASSUME IInv, NEW ms \in Delays, NEW once \in Onces, SetTimer(ms, once)
  PROVE  IInv'
<1> USE DEF IInv
<1> DEFINE e == [type |-> "timer", when |-> now + ms, every |-> ms,
                 once |-> once, count |-> 0]
<1>1. /\ nextId < MaxIds /\ events' = With(e) /\ nextId' = NewId + 1
      /\ UNCHANGED <<threaded, now, served, loops, exited, fault, meddled>>
  BY DEF SetTimer
<1>2. e \in Event
  BY Parameters DEF Event, TypeOK
<1>3. \A id : Activations(id)' = Activations(id)
  BY <1>1 DEF Activations
<1> HIDE DEF e
<1>4. /\ Live' = Live \cup {nextId}
      /\ Live' \subseteq 0..(nextId' - 1) /\ nextId' \in 0..MaxIds /\ nextId' > nextId
      /\ \A id \in Live' : events'[id] \in Event
      /\ TimeoutOnce' /\ OnceTimers'
  BY <1>1, <1>2, <1>3, AddEvent DEF e
<1>5. TypeOK'
  BY <1>1, <1>4 DEF TypeOK
<1>6. LoopsSound'
  BY <1>1, <1>4, Parameters DEF LoopsSound, TypeOK
<1>7. Undisturbed'
  BY <1>1, <1>4 DEF Undisturbed
<1> QED
  BY <1>1, <1>4, <1>5, <1>6, <1>7 DEF NoFreedEvent

LEMMA ClearIInv ==
  ASSUME IInv, NEW id \in Live, Clear(id)
  PROVE  IInv'
<1> USE DEF IInv
<1>1. /\ Live' = Live \ {id} /\ \A i \in Live' : events'[i] = events[i]
      /\ meddled' = (meddled \/ loops # <<>>)
      /\ UNCHANGED <<threaded, now, nextId, served, loops, exited, fault>>
  BY DEF Clear, Without, Live
<1>2. TypeOK'
  <2>1. meddled' \in BOOLEAN
    BY <1>1
  <2> QED
    BY <1>1, <2>1 DEF TypeOK
<1>3. LoopsSound'
  BY <1>1 DEF LoopsSound
<1>4. Undisturbed'
  <2>1. CASE loops = <<>>
    <3>1. Len(loops') = 0
      BY <2>1, <1>1
    <3> QED
      BY <3>1 DEF Undisturbed
  <2>2. CASE loops # <<>>
    BY <2>2, <1>1 DEF Undisturbed
  <2> QED
    BY <2>1, <2>2
<1>5. TimeoutOnce'
  BY <1>1 DEF TimeoutOnce, Activations
<1> QED
  BY <1>1, <1>2, <1>3, <1>4, <1>5 DEF NoFreedEvent, OnceTimers

LEMMA UpdateIInv ==
  ASSUME IInv, NEW opt \in Updates, Update(opt)
  PROVE  IInv'
<1> USE DEF IInv
<1> DEFINE n == Len(loops)
<1>1. /\ n < MaxDepth /\ AddEventHandler /\ loops' = Append(loops, NewLoop(opt))
      /\ meddled' = (meddled \/ loops # <<>>)
      /\ loops # <<>> => Top.pc = "handler"
      /\ UNCHANGED <<threaded, now, exited, fault>>
  BY DEF Update, Does, Running
<1>2. loops \in Seq(Loop) /\ n \in Nat
  BY DEF TypeOK
<1>3. NewLoop(opt) \in Loop
  BY Parameters DEF NewLoop, Loop, PCs, UpdateOptions, TypeOK
<1>4. /\ loops' \in Seq(Loop) /\ Len(loops') = n + 1
      /\ loops'[n + 1] = NewLoop(opt)
      /\ \A k \in 1..n : loops'[k] = loops[k]
  BY <1>1, <1>2, <1>3
<1>5. \A id : Activations(id)' = Activations(id)
  <2>1. NewLoop(opt).pc = "begin"
    BY DEF NewLoop
  <2>2. /\ DOMAIN loops = 1..n /\ DOMAIN loops' = 1..(n + 1)
        /\ 1..(n + 1) = (1..n) \cup {n + 1}
    BY <1>2, <1>4
  <2> QED
    BY <1>4, <2>1, <2>2 DEF Activations
<1>6. /\ Live \subseteq Live' /\ Live' \subseteq 0..(nextId' - 1)
      /\ nextId' \in 0..MaxIds /\ nextId' >= nextId
      /\ \A id \in Live' : events'[id] \in Event
      /\ TimeoutOnce' /\ OnceTimers' /\ served' \in BOOLEAN
  <2>1. CASE served
    <3>1. UNCHANGED <<events, nextId>> /\ served' = TRUE
      BY <2>1, <1>1 DEF AddEventHandler
    <3>2. TimeoutOnce' /\ OnceTimers'
      BY <3>1, <1>1, <1>5 DEF TimeoutOnce, OnceTimers, Live
    <3> QED
      BY <3>1, <3>2, Parameters DEF TypeOK, Live
  <2>2. CASE ~served
    <3>1. nextId < MaxIds /\ events' = With(QueueHandler) /\ nextId' = NewId + 1
          /\ served' = TRUE
      BY <2>2, <1>1 DEF AddEventHandler
    <3>2. QueueHandler \in Event /\ QueueHandler.count = 0 /\ ~QueueHandler.once
      BY Parameters DEF QueueHandler, Event
    <3>3. nextId' > nextId => nextId' >= nextId
      BY <3>1, Parameters DEF TypeOK, NewId
    <3> QED
      BY <3>1, <3>2, <3>3, <1>1, <1>5, AddEvent
  <2> QED
    BY <2>1, <2>2
<1>7. TypeOK'
  <2>1. meddled' \in BOOLEAN
    BY <1>1
  <2>2. {served', exited', fault', meddled'} \subseteq BOOLEAN
    BY <1>1, <1>6, <2>1 DEF TypeOK
  <2>3. threaded' \in BOOLEAN /\ now' \in MsPerSec..MaxTime
    BY <1>1 DEF TypeOK
  <2>4. Len(loops') <= MaxDepth
    BY <1>1, <1>2, <1>4, Parameters
  <2> QED
    BY <1>4, <1>6, <2>2, <2>3, <2>4 DEF TypeOK
<1>8. \A k \in 1..(n + 1) : k = n + 1 \/ k \in 1..n
  BY <1>2
<1>9. LoopsSound'
  <2>1. /\ NewLoop(opt).start <= now /\ NewLoop(opt).cur <= now
        /\ NewLoop(opt).pc = "begin" /\ NewLoop(opt).next = None
    BY Parameters DEF NewLoop, TypeOK
  <2>2. n > 0 => loops[n].pc = "handler"
    BY <1>1, <1>2 DEF Top
  <2>3. \A k \in 1..n : k = n \/ k < n
    BY <1>2
  <2> QED
    BY <1>1, <1>2, <1>4, <1>6, <1>8, <2>1, <2>2, <2>3, Parameters DEF LoopsSound, TypeOK
<1>10. Undisturbed'
  <2>1. CASE loops = <<>>
    <3>1. n = 0 /\ NewLoop(opt).pc = "begin"
      BY <2>1 DEF NewLoop
    <3> QED
      BY <3>1, <1>4 DEF Undisturbed
  <2>2. CASE loops # <<>>
    BY <2>2, <1>1 DEF Undisturbed
  <2> QED
    BY <2>1, <2>2
<1> QED
  BY <1>1, <1>6, <1>7, <1>9, <1>10 DEF NoFreedEvent

LEMMA ExitIInv == IInv /\ Exit => IInv'
  BY DEF IInv, Exit, TypeOK, LoopsSound, Undisturbed, NoFreedEvent, TimeoutOnce, OnceTimers,
         Live

LEMMA TickIInv ==
  ASSUME IInv, Tick
  PROVE  IInv'
<1> USE DEF IInv
<1>1. /\ now' = now + 1 /\ now < MaxTime
      /\ UNCHANGED <<threaded, events, nextId, served, loops, exited, fault, meddled>>
  BY DEF Tick
<1>2. now' \in MsPerSec..MaxTime
  BY <1>1, Parameters DEF TypeOK
<1>3. TypeOK'
  BY <1>1, <1>2 DEF TypeOK, Live
<1>4. LoopsSound'
  <2>1. \A k \in 1..Len(loops) : loops[k] \in Loop
    BY DEF TypeOK
  <2>2. \A k \in 1..Len(loops) : loops[k].start \in Nat /\ loops[k].cur \in Nat
    BY <2>1 DEF Loop
  <2> QED
    BY <1>1, <2>2, Parameters DEF LoopsSound, TypeOK
<1> QED
  BY <1>1, <1>3, <1>4 DEF Undisturbed, NoFreedEvent, TimeoutOnce, OnceTimers, Live, Activations

\* The loop that is about to return runs no handler.
LEMMA UpdateReturnsIInv ==
  ASSUME IInv, UpdateReturns
  PROVE  IInv'
<1> USE DEF IInv
<1> DEFINE n == Len(loops)
<1>1. /\ loops # <<>> /\ Top.pc = "passed" /\ loops' = SubSeq(loops, 1, n - 1)
      /\ UNCHANGED <<threaded, now, events, nextId, served, exited, fault, meddled>>
  BY DEF UpdateReturns, At, Return
<1>2. n \in Nat \ {0} /\ n <= MaxDepth /\ loops \in Seq(Loop)
  BY <1>1, TopOf DEF TypeOK
<1>3. /\ loops' \in Seq(Loop) /\ Len(loops') = n - 1
      /\ \A k \in 1..(n - 1) : loops'[k] = loops[k]
  <2> HIDE DEF n
  <2>1. n - 1 \in 0..n /\ 1 \in 1..(n - 1 + 1) /\ n = Len(loops)
    BY <1>2 DEF n
  <2>2. \A i \in 1..(n - 1) : i \in 1..Len(loops) /\ loops[i] \in Loop
    BY <1>2, <2>1
  <2> QED
    BY <1>1, <1>2, <2>1, <2>2, SubSeqProperties
<1>4. TypeOK'
  BY <1>1, <1>2, <1>3, Parameters DEF TypeOK, Live
<1>5. \A k \in 1..(n - 1) : k \in 1..n /\ k < n
  BY <1>2
<1>6. LoopsSound'
  BY <1>1, <1>3, <1>5 DEF LoopsSound
<1>7. Undisturbed'
  BY <1>1, <1>2, <1>3, <1>5 DEF Undisturbed, Live
<1>8. \A id : Activations(id)' = Activations(id)
  <2>1. /\ DOMAIN loops = 1..n /\ DOMAIN loops' = 1..(n - 1)
        /\ 1..n = (1..(n - 1)) \cup {n}
    BY <1>2, <1>3
  <2> QED
    BY <1>1, <1>3, <2>1 DEF Activations, Top
<1>9. TimeoutOnce'
  BY <1>1, <1>8 DEF TimeoutOnce, Live
<1> QED
  BY <1>1, <1>4, <1>6, <1>7, <1>9 DEF NoFreedEvent, OnceTimers, Live

\* What a pass finds next exists, as long as nothing was cleared under it.
LEMMA FoundExists ==
  ASSUME IInv, At("walk"), ~meddled
  PROVE  NextFound \in Live \cup {None}
<1> USE DEF IInv
<1>1. \A b : Newest(Chain(b)) \in Live \cup {None}
  <2>1. Live \subseteq Ids
    BY Parameters DEF TypeOK, Ids
  <2>2. \A b : Chain(b) \in SUBSET Ids /\ Chain(b) \subseteq Live
    BY <2>1 DEF Chain
  <2> QED
    BY <2>2, NewestOf
<1>2. Top.next \in Live \cup {None}
  <2>1. Len(loops) \in 1..Len(loops) /\ loops[Len(loops)].pc = "walk"
    BY TopOf DEF At, Top
  <2> QED
    BY <2>1 DEF Undisturbed, Top
<1> QED
  BY <1>1, <1>2 DEF NextFound

LEMMA VisitFreedIInv ==
  ASSUME IInv, VisitFreed
  PROVE  IInv'
<1> USE DEF IInv
<1>1. /\ meddled /\ fault' = TRUE
      /\ UNCHANGED <<threaded, now, events, nextId, served, loops, exited, meddled>>
  BY FoundExists DEF VisitFreed, TypeOK
<1> QED
  BY <1>1 DEF TypeOK, LoopsSound, Undisturbed, TimeoutOnce, OnceTimers, NoFreedEvent,
                Live, Activations

\* The event whose handler returns exists, as long as nothing was cleared.
LEMMA HandlerDoneFreedIInv ==
  ASSUME IInv, HandlerDoneFreed
  PROVE  IInv'
<1> USE DEF IInv
<1>1. /\ loops # <<>> /\ Top.pc = "handler" /\ Top.ev \notin Live /\ fault' = TRUE
      /\ UNCHANGED <<threaded, now, events, nextId, served, loops, exited, meddled>>
  BY DEF HandlerDoneFreed, At
<1>2. meddled
  <2>1. Len(loops) \in 1..Len(loops)
    BY TopOf, <1>1
  <2> QED
    BY <1>1, <2>1 DEF Undisturbed, Top, TypeOK
<1> QED
  BY <1>1, <1>2 DEF TypeOK, LoopsSound, Undisturbed, TimeoutOnce, OnceTimers, NoFreedEvent, Live,
                    Activations

\* The innermost loop, in the two places the invariants look at it.
LEMMA TopSound ==
  ASSUME TypeOK, LoopsSound, loops # <<>>
  PROVE  /\ Top.start <= now /\ Top.cur <= now
         /\ Top.pc \notin {"walk", "handler"} => Top.next = None
         /\ Top.pc = "handler" => Top.ev \in 0..(nextId - 1)
         /\ Top.start \in Nat /\ Top.cur \in Nat /\ now \in Nat
<1>1. Len(loops) \in 1..Len(loops)
  BY TopOf
<1>2. Top.start \in Nat /\ Top.cur \in Nat
  BY TopOf DEF Loop
<1> QED
  BY <1>1, <1>2, Parameters DEF LoopsSound, Top, TypeOK

\* The next entry of the bucket, read before the handler of this one runs.
LEMMA ReadAhead ==
  ASSUME TypeOK, NEW id \in Live
  PROVE  Newest({i \in Chain(Index(id)) : i < id}) \in (Live \ {id}) \cup {None}
<1> DEFINE S == {i \in Chain(Index(id)) : i < id}
<1>1. Live \subseteq Ids /\ id \in Int
  BY Parameters DEF TypeOK, Ids
<1>2. S \in SUBSET Ids /\ S \subseteq Live \ {id}
  <2>1. S \subseteq Live /\ id \notin S
    BY <1>1 DEF Chain
  <2> QED
    BY <2>1, <1>1
<1> HIDE DEF S
<1>3. Newest(S) \in (Live \ {id}) \cup {None}
  BY <1>2, NewestOf
<1> QED
  BY <1>3 DEF S

LEMMA VisitIInv ==
  ASSUME IInv, NEW id \in Ids, Visit(id)
  PROVE  IInv'
<1> USE DEF IInv
<1> DEFINE n == Len(loops)
           a == Newest({i \in Chain(Index(id)) : i < id})
           f == [Top EXCEPT !.bucket = Index(id) + 1, !.next = a]
           h == [f EXCEPT !.pc = "handler", !.ev = id]
<1>1. /\ loops # <<>> /\ Top.pc = "walk" /\ id \in Live
      /\ UNCHANGED <<threaded, now, nextId, served, exited, fault, meddled>>
      /\ \/ SetTop(f) /\ UNCHANGED events
         \/ SetTop(h) /\ events' = Started(id)
  BY DEF Visit, At
<1>2. a \in (Live \ {id}) \cup {None}
  BY <1>1, ReadAhead
<1>3. Live \subseteq Ids /\ Live \subseteq 0..(nextId - 1)
  BY Parameters DEF TypeOK, Ids
<1>4. f \in Loop /\ f.pc = "walk" /\ f.next = a /\ f.start = Top.start /\ f.cur = Top.cur
  <2>1. Top \in Loop /\ Index(id) + 1 \in 0..Buckets /\ a \in Ids \cup {None}
    BY <1>1, <1>2, <1>3, TopOf, Parameters
  <2> HIDE DEF a
  <2> QED
    BY <2>1, <1>1 DEF Loop
<1>5. h \in Loop /\ h.pc = "handler" /\ h.ev = id /\ h.next = a
      /\ h.start = Top.start /\ h.cur = Top.cur
  <2> HIDE DEF f
  <2> QED
    BY <1>4 DEF Loop, PCs
<1> HIDE DEF f, h, a
<1>6. CASE SetTop(f) /\ UNCHANGED events
  BY <1>6, <1>1, <1>2, <1>4, TopStep, TopSound
<1>7. CASE SetTop(h) /\ events' = Started(id)
  <2>1. /\ n \in Nat \ {0} /\ n <= MaxDepth /\ Len(loops') = n /\ loops' \in Seq(Loop)
        /\ \A k \in 1..(n - 1) : loops'[k] = loops[k]
        /\ loops'[n] = h
    BY <1>1, <1>5, <1>7, TopOf, TopSet
  <2>2. /\ Live' = Live /\ n \notin Activations(id)
        /\ Activations(id) \subseteq 1..(n - 1)
        /\ IsFiniteSet(Activations(id)) /\ Cardinality(Activations(id)) \in Nat
    <3>1. n \notin Activations(id)
      BY <1>1 DEF Activations, Top
    <3>2. Activations(id) \subseteq 1..n
      BY TopOf, <1>1 DEF Activations
    <3>3. 1..n = (1..(n - 1)) \cup {n}
      BY <2>1
    <3> QED
      BY <1>7, <3>1, <3>2, <3>3, ActivationsFinite DEF Started, Live
  <2>3. Cardinality(Activations(id)) <= MaxDepth - 1
    <3>1. n - 1 \in Nat /\ IsFiniteSet(1..(n - 1)) /\ Cardinality(1..(n - 1)) = n - 1
      <4>1. n - 1 \in Nat /\ n - 1 \in Int /\ 1 \in Int /\ n - 1 - 1 + 1 = n - 1
        BY <2>1
      <4> HIDE DEF n
      <4> QED
        BY <4>1, FS_Interval
    <3>2. Cardinality(Activations(id)) <= Cardinality(1..(n - 1))
      BY <3>1, <2>2, FS_Subset
    <3> QED
      BY <3>1, <3>2, <2>1, <2>2, Parameters
  <2>4. \A i \in Live : /\ events'[i] \in Event
                        /\ events'[i].once = events[i].once
                        /\ events'[i].type = events[i].type
                        /\ i # id => events'[i] = events[i]
    <3>1. events[id] \in Event
      BY <1>1 DEF TypeOK
    <3>2. CASE events[id].type = "timer" /\ events[id].count < MaxDepth
      <4>1. events' = [events EXCEPT ![id].count = @ + 1]
        BY <3>2, <1>7 DEF Started
      <4>2. events'[id] = [events[id] EXCEPT !.count = @ + 1]
        BY <4>1, <1>1 DEF Live
      <4>3. /\ events'[id] \in Event /\ events'[id].once = events[id].once
            /\ events'[id].type = events[id].type
        BY <4>2, <3>1, <3>2, Parameters DEF Event
      <4> QED
        BY <4>1, <4>3 DEF Live, TypeOK
    <3>3. CASE ~(events[id].type = "timer" /\ events[id].count < MaxDepth)
      BY <3>3, <1>7 DEF Started, TypeOK
    <3> QED
      BY <3>2, <3>3
  <2>5. events[id].once /\ ~exited => events'[id].count = events[id].count + 1
    <3>1. ASSUME events[id].once, ~exited PROVE events'[id].count = events[id].count + 1
      <4>1. events[id].count = Cardinality(Activations(id))
        BY <3>1, <1>1 DEF TimeoutOnce
      <4>2. events[id].count < MaxDepth
        BY <4>1, <2>2, <2>3, Parameters
      <4>3. events[id].type = "timer"
        BY <3>1, <1>1 DEF OnceTimers
      <4> QED
        BY <4>2, <4>3, <1>7, <1>1 DEF Started, Live, TypeOK, Event
    <3> QED
      BY <3>1
  <2>6. TypeOK'
    BY <2>1, <2>2, <2>4, <1>1 DEF TypeOK
  <2>7. \A k \in 1..n : k = n \/ (k \in 1..(n - 1) /\ k < n)
    BY <2>1
  <2>8. LoopsSound'
    BY <2>1, <2>7, <1>1, <1>3, <1>5, TopSound DEF LoopsSound
  <2>9. Undisturbed'
    <3>1. n <= 1 => \A k \in 1..n : k = n
      BY <2>1
    <3> QED
      BY <2>1, <2>2, <3>1, <1>1, <1>2, <1>5 DEF Undisturbed
  <2>10. TimeoutOnce'
    <3>1. /\ Activations(id)' = Activations(id) \cup {n}
          /\ \A i : i # id => Activations(i)' = Activations(i)
      <4>1. \A i : n \notin Activations(i)
        BY <1>1 DEF Activations, Top
      <4>2. \A i : Activations(i)' = (Activations(i) \ {n})
                \cup (IF h.pc = "handler" /\ h.ev = i THEN {n} ELSE {})
        BY <1>1, <1>5, <1>7, ActivationsOfTop
      <4> QED
        BY <4>1, <4>2, <1>5
    <3>2. Cardinality(Activations(id)') = Cardinality(Activations(id)) + 1
      BY <3>1, <2>2, FS_AddElement
    <3> QED
      BY <3>1, <3>2, <2>2, <2>4, <2>5, <1>1 DEF TimeoutOnce
  <2> QED
    BY <2>2, <2>4, <2>6, <2>8, <2>9, <2>10, <1>1 DEF NoFreedEvent, OnceTimers
<1> QED
  BY <1>1, <1>6, <1>7

LEMMA HandlerDoneIInv ==
  ASSUME IInv, HandlerDone
  PROVE  IInv'
<1> USE DEF IInv
<1> DEFINE n == Len(loops)
           id == Top.ev
           f == [Top EXCEPT !.pc = "walk", !.ev = None]
<1>1. /\ loops # <<>> /\ Top.pc = "handler" /\ id \in Live
      /\ events' = Finished(id) /\ SetTop(f)
      /\ UNCHANGED <<threaded, now, nextId, served, exited, fault, meddled>>
  BY DEF HandlerDone, At
<1>2. /\ f \in Loop /\ f.pc = "walk" /\ f.next = Top.next
      /\ f.start = Top.start /\ f.cur = Top.cur
  BY <1>1, TopOf, Parameters DEF Loop, PCs
<1>3. events[id] \in Event
  BY <1>1 DEF TypeOK
<1>4. /\ Live' = IF events[id].once THEN Live \ {id} ELSE Live
      /\ \A i \in Live' : /\ events'[i] \in Event
                          /\ events'[i].once = events[i].once
                          /\ events'[i].type = events[i].type
                          /\ i # id => events'[i] = events[i]
  <2>1. CASE events[id].once
    <3>1. events' = [i \in Live \ {id} |-> events[i]]
      <4>1. events[id].type # "always"
        BY <2>1, <1>1 DEF OnceTimers
      <4>2. Finished(id) = Without(id)
        BY <2>1, <4>1 DEF Finished
      <4> QED
        BY <4>2, <1>1 DEF Without
    <3> QED
      BY <3>1, <2>1 DEF Live, TypeOK
  <2>2. CASE ~events[id].once /\ events[id].type = "always"
    <3>1. events' = events
      BY <2>2, <1>1 DEF Finished
    <3> QED
      BY <3>1, <2>2 DEF Live, TypeOK
  <2>3. CASE ~events[id].once /\ events[id].type # "always"
    <3>1. events' = [events EXCEPT ![id].when = Top.cur + events[id].every]
      BY <2>3, <1>1 DEF Finished
    <3>2. events'[id] = [events[id] EXCEPT !.when = Top.cur + events[id].every]
      BY <3>1, <1>1 DEF Live
    <3>3. Top.cur + events[id].every \in Nat
      BY <1>1, <1>3, TopSound DEF Event
    <3>4. /\ events'[id] \in Event /\ events'[id].once = events[id].once
          /\ events'[id].type = events[id].type
      BY <3>2, <3>3, <1>3 DEF Event
    <3> QED
      BY <3>1, <3>4, <2>3 DEF Live, TypeOK
  <2> QED
    BY <2>1, <2>2, <2>3
<1> HIDE DEF f, id
<1>5. /\ n \in Nat \ {0} /\ n <= MaxDepth /\ Len(loops') = n /\ loops' \in Seq(Loop)
      /\ \A k \in 1..(n - 1) : loops'[k] = loops[k]
      /\ loops'[n] = f
  BY <1>1, <1>2, TopOf, TopSet
<1>6. TypeOK'
  <2>1. Live' \subseteq 0..(nextId' - 1)
    BY <1>1, <1>4 DEF TypeOK
  <2> QED
    BY <2>1, <1>4, <1>5, <1>1 DEF TypeOK
<1>7. \A k \in 1..n : k = n \/ (k \in 1..(n - 1) /\ k < n)
  BY <1>5
<1>8. LoopsSound'
  BY <1>1, <1>2, <1>5, <1>7, TopSound DEF LoopsSound
<1>9. Undisturbed'
  <2>1. SUFFICES ASSUME ~meddled PROVE n <= 1 /\ f.next \in Live' \cup {None}
    <3>1. n <= 1 => \A k \in 1..n : k = n
      BY <1>5
    <3> QED
      BY <2>1, <3>1, <1>1, <1>2, <1>5 DEF Undisturbed
  <2>2. n \in 1..n
    BY <1>5
  <2>3. n <= 1 /\ Top.next \in (Live \ {id}) \cup {None}
    BY <2>1, <2>2, <1>1 DEF Undisturbed, Top, id
  <2> QED
    BY <2>3, <1>2, <1>4
<1>10. TimeoutOnce'
  <2>1. SUFFICES ASSUME ~exited, NEW i \in Live', events'[i].once
                 PROVE  events'[i].count = Cardinality(Activations(i)')
    BY <1>1 DEF TimeoutOnce
  <2>2. i # id /\ i \in Live /\ events'[i] = events[i]
    BY <2>1, <1>1, <1>4
  <2>3. Activations(i)' = Activations(i)
    <3>1. Activations(i)' = (Activations(i) \ {n})
             \cup (IF f.pc = "handler" /\ f.ev = i THEN {n} ELSE {})
      BY <1>1, <1>2, ActivationsOfTop
    <3>2. n \notin Activations(i)
      BY <2>2 DEF Activations, Top, id
    <3> QED
      BY <3>1, <3>2, <1>2
  <2> QED
    BY <2>1, <2>2, <2>3 DEF TimeoutOnce
<1>11. OnceTimers'
  BY <1>4 DEF OnceTimers
<1> QED
  BY <1>1, <1>6, <1>8, <1>9, <1>10, <1>11 DEF NoFreedEvent

\* The remaining steps change only the innermost loop.
LEMMA LoopStepIInv ==
  ASSUME IInv, BeginPass \/ WalkDone \/ HandlerFails \/ Sleep \/ Wake
  PROVE  IInv'
<1> USE DEF IInv
<1>1. loops # <<>> /\ UNCHANGED <<threaded, now, events, nextId, served, exited, fault, meddled>>
  BY DEF BeginPass, WalkDone, HandlerFails, Sleep, Wake, At
<1>2. Top \in Loop /\ now \in Nat /\ nextId \in Nat
  BY <1>1, TopOf, Parameters DEF TypeOK
<1>3. CASE BeginPass
  <2> DEFINE f == [Top EXCEPT !.pc = "walk", !.cur = now, !.newIdx = nextId]
  <2>1. Top.pc = "begin" /\ SetTop(f)
    BY <1>3 DEF BeginPass, At
  <2>2. /\ f \in Loop /\ f.pc = "walk" /\ f.start = Top.start /\ f.cur = now
        /\ f.next = Top.next
    BY <1>2 DEF Loop, PCs
  <2> HIDE DEF f
  <2>3. f.next = None /\ f.cur <= now /\ f.start <= now
    BY <2>1, <2>2, <1>1, <1>2, TopSound
  <2> QED
    BY <2>1, <2>2, <2>3, <1>1, TopStep
<1>4. CASE WalkDone \/ HandlerFails
  <2> DEFINE f == [Top EXCEPT !.pc = "passed", !.cur = 0, !.newIdx = 0, !.bucket = 0,
                               !.next = None, !.ev = None]
  <2>1. (Top.pc = "walk" \/ exited) /\ SetTop(f)
    BY <1>4 DEF WalkDone, HandlerFails, At, PassOver
  <2>2. 0 \in 0..Buckets
    BY Parameters
  <2>3. /\ f \in Loop /\ f.pc = "passed" /\ f.start = Top.start /\ f.cur = 0
        /\ f.next = None
    BY <1>2, <2>2 DEF Loop, PCs
  <2> HIDE DEF f
  <2>4. f.cur <= now /\ f.start <= now
    BY <2>3, <1>1, <1>2, TopSound
  <2> QED
    BY <2>1, <2>3, <2>4, <1>1, TopStep
<1>5. CASE Sleep
  <2> DEFINE p == IF Top.opt.maxPasses > 0 THEN Top.passes + 1 ELSE Top.passes
             f == [Top EXCEPT !.pc = "sleep", !.cur = now, !.passes = p]
  <2>1. Top.pc = "passed" /\ SetTop(f)
    BY <1>5 DEF Sleep, At
  <2>2. p \in Nat
    BY <1>2 DEF Loop
  <2> HIDE DEF p
  <2>3. /\ f \in Loop /\ f.pc = "sleep" /\ f.start = Top.start /\ f.cur = now
        /\ f.next = Top.next
    BY <2>2, <1>2 DEF Loop, PCs
  <2> HIDE DEF f
  <2>4. f.next = None /\ f.cur <= now /\ f.start <= now
    BY <2>1, <2>3, <1>1, <1>2, TopSound
  <2> QED
    BY <2>1, <2>3, <2>4, <1>1, TopStep
<1>6. CASE Wake
  <2> DEFINE f == [Top EXCEPT !.pc = "begin", !.cur = 0]
  <2>1. Top.pc = "sleep" /\ SetTop(f)
    BY <1>6 DEF Wake, At
  <2>2. /\ f \in Loop /\ f.pc = "begin" /\ f.start = Top.start /\ f.cur = 0
        /\ f.next = Top.next
    BY <1>2 DEF Loop, PCs
  <2> HIDE DEF f
  <2>3. f.next = None /\ f.cur <= now /\ f.start <= now
    BY <2>1, <2>2, <1>1, <1>2, TopSound
  <2> QED
    BY <2>1, <2>2, <2>3, <1>1, TopStep
<1> QED
  BY <1>3, <1>4, <1>5, <1>6

LEMMA NextIInv == IInv /\ [Next]_vars => IInv'
<1> SUFFICES ASSUME IInv, [Next]_vars PROVE IInv'
  OBVIOUS
<1>1. CASE Script
  BY <1>1, SetTimerIInv, ClearIInv, UpdateIInv, ExitIInv DEF Script
<1>2. CASE PassStep
  BY <1>2, VisitIInv, VisitFreedIInv, HandlerDoneIInv, HandlerDoneFreedIInv,
     UpdateReturnsIInv, LoopStepIInv DEF PassStep
<1>3. CASE Tick
  BY <1>3, TickIInv
<1>4. CASE UNCHANGED vars
  BY <1>4 DEF vars, IInv, TypeOK, OnceTimers, LoopsSound, Undisturbed, NoFreedEvent,
              TimeoutOnce, Live, Activations
<1> QED
  BY <1>1, <1>2, <1>3, <1>4 DEF Next

THEOREM Inductive == Spec => []IInv
  BY InitIInv, NextIInv, PTL DEF Spec

-----------------------------------------------------------------------------
(* The properties.                                                         *)

\* Type correctness: an event made, cleared or fired, a pass and a sleep keep the
\* shape of the table and of the loops (Jsi_EventProcess, SysUpdateCmd).
THEOREM TypeCorrect == Spec => []TypeOK
<1>1. IInv => TypeOK
  BY DEF IInv
<1> QED
  BY <1>1, Inductive, PTL

\* A timeout runs once: however deep calls of sys.update() are nested, the event
\* has fired as often as its handler is active now (Jsi_EventProcess, once).
THEOREM TimeoutsRunOnce == Spec => []TimeoutOnce
<1>1. IInv => TimeoutOnce
  BY DEF IInv
<1> QED
  BY <1>1, Inductive, PTL

\* A pass reads an event that was freed only after a handler cleared an event or
\* called sys.update(): the entry read ahead is another one than that whose
\* handler runs (Jsi_EventProcess, Jsi_HashSearchNext).
THEOREM NoFreedEventRead == Spec => []NoFreedEvent
<1>1. IInv => NoFreedEvent
  BY DEF IInv
<1> QED
  BY <1>1, Inductive, PTL

LEMMA Division ==
  ASSUME NEW n \in Nat, NEW m \in Nat \ {0}
  PROVE  n \div m \in Nat /\ n % m \in 0..(m - 1) /\ n = m * (n \div m) + (n % m)
  OBVIOUS

\* The time an update believes to have passed is the time since it began, or one
\* second more once a second began since.
LEMMA ElapsedIs ==
  ASSUME now \in Nat, Top.start \in Nat, Top.start <= now
  PROVE  IF Sec(now) = Sec(Top.start) THEN Elapsed = now - Top.start
         ELSE Sec(now) > Sec(Top.start) /\ Elapsed = now - Top.start + MsPerSec
<1> DEFINE M == MsPerSec
           s == Top.start
           a == now \div M
           b == s \div M
<1>1. M \in Nat \ {0}
  BY Parameters
<1>2. /\ a \in Nat /\ now % M \in 0..(M - 1) /\ now = M * a + (now % M)
  BY <1>1, Division
<1>3. /\ b \in Nat /\ s % M \in 0..(M - 1) /\ s = M * b + (s % M)
  BY <1>1, Division
<1> DEFINE r == now % M
           t == s % M
<1>4. Elapsed = IF a = b THEN r - t ELSE (a - b) * M + r + (M - t)
  BY DEF Elapsed, Sec, Ms
<1>5. Sec(now) = a /\ Sec(Top.start) = b
  BY DEF Sec
<1> HIDE DEF a, b, r, t, s, M
<1>6. CASE a = b
  <2>1. now - s = r - t
    BY <1>1, <1>2, <1>3, <1>6 DEF r, t
  <2> QED
    BY <2>1, <1>4, <1>5, <1>6 DEF s
<1>7. CASE a # b
  <2>1. (a - b) * M = M * a - M * b
    BY <1>1, <1>2, <1>3
  <2>2. (a - b) * M + r + (M - t) = now - s + M
    BY <2>1, <1>1, <1>2, <1>3 DEF r, t
  <2>3. ~(a < b)
    <3>1. SUFFICES ASSUME a + 1 <= b PROVE FALSE
      BY <1>2, <1>3
    <3>2. M * (a + 1) <= M * b
      BY <3>1, <1>1, <1>2, <1>3
    <3>3. M * (a + 1) = M * a + M
      BY <1>1, <1>2
    <3>4. s <= now /\ s \in Nat /\ now \in Nat
      BY DEF s
    <3> QED
      BY <3>2, <3>3, <3>4, <1>1, <1>2, <1>3
  <2> QED
    BY <2>2, <2>3, <1>2, <1>3, <1>4, <1>5, <1>7 DEF s, M
<1> QED
  BY <1>6, <1>7

\* sys.update() lets minTime pass before it returns, or all but one second of it if
\* a second began meanwhile (SysUpdateCmd, which adds a second when the seconds
\* differ); and it does not sleep again once minTime has passed.
THEOREM UpdatesWait == Spec => UpdateWaits
<1> DEFINE W == /\ UpdateReturns /\ ~exited /\ Top.opt.maxPasses = 0 =>
                     \/ now - Top.start >= Top.opt.minTime
                     \/ /\ Sec(now) > Sec(Top.start)
                        /\ now - Top.start + MsPerSec >= Top.opt.minTime
                /\ Sleep /\ ~InThreadLoop /\ Top.opt.minTime > 0 =>
                     now - Top.start < Top.opt.minTime
<1>1. IInv /\ [Next]_vars => [W]_vars
  <2> SUFFICES ASSUME IInv PROVE W
    OBVIOUS
  <2>0. ASSUME loops # <<>>
        PROVE  /\ Top.start \in Nat /\ now \in Nat /\ Top.start <= now
               /\ Top.opt.minTime \in Int
    BY <2>0, TopSound, TopOf DEF IInv, Loop, UpdateOptions
  <2>1. ASSUME UpdateReturns, ~exited, Top.opt.maxPasses = 0
        PROVE  \/ now - Top.start >= Top.opt.minTime
               \/ /\ Sec(now) > Sec(Top.start)
                  /\ now - Top.start + MsPerSec >= Top.opt.minTime
    <3>1. loops # <<>> /\ UpdateDone
      BY <2>1 DEF UpdateReturns, At
    <3>2. CASE Top.opt.minTime = 0
      BY <2>0, <3>1, <3>2
    <3>3. CASE Top.opt.minTime > 0 /\ Elapsed >= Top.opt.minTime
      BY <2>0, <3>1, <3>3, ElapsedIs
    <3> QED
      BY <2>1, <3>1, <3>2, <3>3 DEF UpdateDone
  <2>2. ASSUME Sleep, ~InThreadLoop, Top.opt.minTime > 0
        PROVE  now - Top.start < Top.opt.minTime
    <3>1. loops # <<>> /\ ~(Elapsed >= Top.opt.minTime)
      BY <2>2 DEF Sleep, At, UpdateDone
    <3>2. Elapsed = now - Top.start \/ Elapsed = now - Top.start + MsPerSec
      BY <2>0, <3>1, ElapsedIs
    <3> QED
      BY <2>0, <3>1, <3>2, Parameters
  <2> QED
    BY <2>1, <2>2
<1>2. UpdateWaits <=> [][W]_vars
  BY DEF UpdateWaits
<1> QED
  BY <1>1, Inductive, PTL DEF Spec, UpdateWaits

-----------------------------------------------------------------------------
(* A pass advances.                                                        *)

\* The entry read ahead is in the bucket the pass visits, the one before l.bucket.
BucketAhead == \A k \in 1..Len(loops) :
  loops[k].next # None => Index(loops[k].next) = loops[k].bucket - 1

\* What a visit finds, and where the pass is after it.
LEMMA VisitFinds ==
  ASSUME IInv, NEW id \in Ids, Visit(id), NEW f \in Loop,
         f.bucket = Index(id) + 1, f.newIdx = Top.newIdx,
         f.next = Newest({i \in Chain(Index(id)) : i < id}), BucketAhead
  PROVE  /\ f.next # None => Index(f.next) = f.bucket - 1 /\ f.next < id
         /\ Ahead(f) \subseteq Ahead(Top)
         /\ ~TooNew(id) => id \in Ahead(Top) \ Ahead(f)
<1>1. loops # <<>> /\ Top.pc = "walk" /\ id = NextFound /\ id \in Live
  BY DEF Visit, At
<1>2. /\ Top \in Loop /\ Live \subseteq Ids /\ Len(loops) \in 1..Len(loops)
      /\ \A i \in Ids : i \in Int /\ Index(i) \in 0..(Buckets - 1)
  <2>1. Top \in Loop /\ Len(loops) \in 1..Len(loops)
    BY <1>1, TopOf DEF IInv
  <2>2. Live \subseteq Ids /\ \A i \in Ids : i \in Int
    BY Parameters DEF IInv, TypeOK, Ids
  <2> QED
    BY <2>1, <2>2, Parameters
<1>3. f.next # None => f.next \in Ids /\ Index(f.next) = f.bucket - 1 /\ f.next < id
  <2> DEFINE S == {i \in Chain(Index(id)) : i < id}
  <2>1. S \in SUBSET Ids /\ \A i \in S : Index(i) = Index(id) /\ i < id
    BY <1>2 DEF Chain
  <2> HIDE DEF S
  <2>2. Newest(S) \in S \cup {None}
    BY <2>1, NewestOf
  <2>3. f.next = Newest(S)
    BY DEF S
  <2> QED
    BY <1>2, <2>1, <2>2, <2>3
<1>4. Top.newIdx \in Nat /\ Top.bucket \in 0..Buckets /\ Top.next \in Ids \cup {None}
  BY <1>2 DEF Loop
<1>5. CASE Top.next # None
  <2>1. id = Top.next
    BY <1>1, <1>5 DEF NextFound
  <2>2. Index(id) = Top.bucket - 1
    BY <1>2, <1>5, <2>1 DEF BucketAhead, Top
  <2>3. f.bucket = Top.bucket
    BY <1>2, <1>4, <2>2
  <2>4. Ahead(f) \subseteq Ahead(Top)
    <3> SUFFICES ASSUME NEW i \in Ahead(f) PROVE i \in Ahead(Top)
      OBVIOUS
    <3>1. i \in Ids /\ i < Top.newIdx
      BY DEF Ahead
    <3>2. CASE Index(i) >= f.bucket
      BY <2>3, <3>1, <3>2 DEF Ahead
    <3>3. CASE f.next # None /\ Index(i) = Index(f.next) /\ i <= f.next
      <4>1. f.next \in Int /\ f.next < id /\ i \in Int /\ id \in Int
        BY <1>2, <1>3, <3>1, <3>3
      <4>2. i <= id
        BY <3>3, <4>1
      <4>3. Index(f.next) = f.bucket - 1
        BY <1>3, <3>3
      <4>4. Index(i) = Index(id)
        BY <2>2, <2>3, <3>3, <4>3
      <4> QED
        BY <1>5, <2>1, <3>1, <4>2, <4>4 DEF Ahead
    <3> QED
      BY <3>2, <3>3 DEF Ahead
  <2>5. ~TooNew(id) => id \in Ahead(Top)
    BY <1>2, <1>4, <1>5, <2>1 DEF Ahead, TooNew
  <2>6. id \notin Ahead(f)
    BY <1>2, <1>3 DEF Ahead
  <2> QED
    BY <1>3, <2>4, <2>5, <2>6
<1>6. CASE Top.next = None
  <2>1. Filled # {} /\ id = Newest(Chain(Min(Filled)))
    BY <1>1, <1>2, <1>6, Parameters DEF NextFound
  <2>2. Min(Filled) \in Filled
    <3>1. Filled \subseteq Nat
      BY <1>4, Parameters DEF Filled
    <3>2. \E x \in Filled : \A y \in Filled : x <= y
      BY <2>1, <3>1, Least
    <3> QED
      BY <3>2 DEF Min
  <2>3. Index(id) = Min(Filled) /\ Index(id) >= Top.bucket
    <3> DEFINE S == Chain(Min(Filled))
    <3>1. S \in SUBSET Ids /\ \A i \in S : Index(i) = Min(Filled)
      BY <1>2 DEF Chain
    <3> HIDE DEF S
    <3>2. id \in S
      BY <1>2, <2>1, <3>1, NewestOf, Parameters DEF S
    <3>3. Index(id) = Min(Filled)
      BY <3>1, <3>2
    <3>4. Index(id) \in Top.bucket..(Buckets - 1)
      BY <2>2, <3>3 DEF Filled
    <3> QED
      BY <1>4, <3>3, <3>4, Parameters
  <2>4. Ahead(f) \subseteq Ahead(Top)
    <3> SUFFICES ASSUME NEW i \in Ahead(f) PROVE i \in Ahead(Top)
      OBVIOUS
    <3>1. i \in Ids /\ i < Top.newIdx
      BY DEF Ahead
    <3>2. Index(i) >= f.bucket \/ (f.next # None /\ Index(i) = Index(f.next))
      BY DEF Ahead
    <3>3. Index(i) >= Top.bucket
      BY <1>2, <1>3, <1>4, <2>3, <3>1, <3>2
    <3> QED
      BY <3>1, <3>3 DEF Ahead
  <2>5. ~TooNew(id) => id \in Ahead(Top)
    BY <1>2, <1>4, <2>3 DEF Ahead, TooNew
  <2>6. id \notin Ahead(f)
    BY <1>2, <1>3 DEF Ahead
  <2> QED
    BY <1>3, <2>4, <2>5, <2>6
<1> QED
  BY <1>5, <1>6

\* What one loop may do in one step.
Advances(l, m) ==
  InPass(l) /\ InPass(m) =>
    /\ Ahead(m) \subseteq Ahead(l)
    /\ l.pc = "walk" /\ m.pc = "handler" => m.ev \in Ahead(l) \ Ahead(m)
AllAdvance == \A k \in DOMAIN loops \cap DOMAIN loops' : Advances(loops[k], loops'[k])

LEMMA StaysPut == ASSUME NEW l PROVE Advances(l, l)
  BY DEF Advances

\* A step of the innermost loop.
LEMMA TopAdvance ==
  ASSUME IInv, BucketAhead, loops # <<>>, NEW f \in Loop, SetTop(f),
         f.next # None => Index(f.next) = f.bucket - 1, Advances(Top, f)
  PROVE  BucketAhead' /\ AllAdvance
<1>1. /\ Len(loops) \in Nat \ {0} /\ DOMAIN loops = 1..Len(loops)
      /\ Len(loops') = Len(loops) /\ DOMAIN loops' = DOMAIN loops
      /\ \A k \in 1..(Len(loops) - 1) : loops'[k] = loops[k]
      /\ loops'[Len(loops)] = f
  BY TopOf, TopSet DEF IInv
<1>2. \A k \in 1..Len(loops) :
        loops'[k] = loops[k] \/ (loops[k] = Top /\ loops'[k] = f)
  BY <1>1 DEF Top
<1>3. BucketAhead'
  BY <1>1, <1>2 DEF BucketAhead
<1>4. AllAdvance
  BY <1>1, <1>2, StaysPut DEF AllAdvance
<1> QED
  BY <1>3, <1>4

LEMMA VisitAdvances ==
  ASSUME IInv, BucketAhead, NEW id \in Ids, Visit(id)
  PROVE  BucketAhead' /\ AllAdvance
<1> DEFINE a == Newest({i \in Chain(Index(id)) : i < id})
           f == [Top EXCEPT !.bucket = Index(id) + 1, !.next = a]
           h == [f EXCEPT !.pc = "handler", !.ev = id]
<1>1. /\ loops # <<>> /\ Top.pc = "walk" /\ id \in Live
      /\ SetTop(f) \/ (SetTop(h) /\ ~TooNew(id))
  BY DEF Visit, At
<1>2. Top \in Loop /\ Index(id) + 1 \in 0..Buckets /\ a \in Ids \cup {None}
  <2>1. a \in (Live \ {id}) \cup {None}
    BY <1>1, ReadAhead DEF IInv
  <2>2. Live \subseteq Ids
    BY Parameters DEF IInv, TypeOK, Ids
  <2>3. Top \in Loop
    BY <1>1, TopOf DEF IInv
  <2> HIDE DEF a
  <2> QED
    BY <2>1, <2>2, <2>3, Parameters
<1>3. /\ f \in Loop /\ f.pc = "walk" /\ f.next = a /\ f.bucket = Index(id) + 1
      /\ f.newIdx = Top.newIdx
  <2> HIDE DEF a
  <2> QED
    BY <1>1, <1>2 DEF Loop
<1>4. /\ h \in Loop /\ h.pc = "handler" /\ h.ev = id /\ h.next = f.next
      /\ h.bucket = f.bucket /\ h.newIdx = f.newIdx
  <2> HIDE DEF f
  <2> QED
    BY <1>3 DEF Loop, PCs
<1> HIDE DEF f, h
<1>5. /\ f.next # None => Index(f.next) = f.bucket - 1
      /\ Ahead(f) \subseteq Ahead(Top)
      /\ ~TooNew(id) => id \in Ahead(Top) \ Ahead(f)
  BY <1>3, VisitFinds DEF a
<1>6. Ahead(h) = Ahead(f)
  BY <1>4 DEF Ahead
<1>7. Advances(Top, f) /\ (~TooNew(id) => Advances(Top, h))
  BY <1>1, <1>3, <1>4, <1>5, <1>6 DEF Advances
<1> QED
  BY <1>1, <1>3, <1>4, <1>5, <1>7, TopAdvance

LEMMA AdvanceNext ==
  ASSUME IInv, BucketAhead, [Next]_vars
  PROVE  BucketAhead' /\ AllAdvance
<1>1. CASE UNCHANGED loops
  BY <1>1, StaysPut DEF BucketAhead, AllAdvance
<1>2. ASSUME NEW opt \in Updates, Update(opt) PROVE BucketAhead' /\ AllAdvance
  <2>1. /\ loops \in Seq(Loop) /\ Len(loops) \in Nat
        /\ loops' = Append(loops, NewLoop(opt)) /\ NewLoop(opt).next = None
    BY <1>2 DEF Update, NewLoop, IInv, TypeOK
  <2>2. /\ Len(loops') = Len(loops) + 1 /\ loops'[Len(loops) + 1] = NewLoop(opt)
        /\ \A k \in 1..Len(loops) : loops'[k] = loops[k]
        /\ DOMAIN loops = 1..Len(loops)
    BY <2>1
  <2>3. \A k \in 1..Len(loops') : k \in 1..Len(loops) \/ k = Len(loops) + 1
    BY <2>1, <2>2
  <2> QED
    BY <2>1, <2>2, <2>3, StaysPut DEF BucketAhead, AllAdvance
<1>3. CASE UpdateReturns
  <2>1. /\ loops \in Seq(Loop) /\ Len(loops) \in Nat \ {0} /\ DOMAIN loops = 1..Len(loops)
        /\ loops' = SubSeq(loops, 1, Len(loops) - 1)
    BY <1>3, TopOf DEF UpdateReturns, At, Return, IInv, TypeOK
  <2>2. /\ Len(loops') = Len(loops) - 1 /\ DOMAIN loops' = 1..(Len(loops) - 1)
        /\ \A k \in 1..(Len(loops) - 1) : loops'[k] = loops[k]
    BY <2>1
  <2>3. \A k \in 1..Len(loops') : k \in 1..Len(loops) /\ loops'[k] = loops[k]
    BY <2>1, <2>2
  <2> QED
    BY <2>1, <2>2, <2>3, StaysPut DEF BucketAhead, AllAdvance
<1>4. ASSUME NEW id \in Ids, Visit(id) PROVE BucketAhead' /\ AllAdvance
  BY <1>4, VisitAdvances
<1>5. CASE BeginPass \/ WalkDone \/ HandlerFails \/ HandlerDone \/ Sleep \/ Wake
  <2>1. loops # <<>> /\ Top \in Loop /\ now \in Nat /\ nextId \in Nat
    BY <1>5, TopOf, Parameters
       DEF BeginPass, WalkDone, HandlerFails, HandlerDone, Sleep, Wake, At, IInv, TypeOK
  <2>2. /\ Top.next # None => Index(Top.next) = Top.bucket - 1
        /\ Top.pc \notin {"walk", "handler"} => Top.next = None
    BY <2>1, TopOf, TopSound DEF BucketAhead, Top, IInv
  <2>3. CASE HandlerDone
    <3> DEFINE f == [Top EXCEPT !.pc = "walk", !.ev = None]
    <3>1. SetTop(f) /\ Top.pc = "handler"
      BY <2>3 DEF HandlerDone, At
    <3>2. /\ f \in Loop /\ f.pc = "walk" /\ f.next = Top.next
          /\ f.bucket = Top.bucket /\ f.newIdx = Top.newIdx
      BY <2>1 DEF Loop, PCs
    <3> HIDE DEF f
    <3>3. Ahead(f) = Ahead(Top)
      BY <3>2 DEF Ahead
    <3>4. Advances(Top, f)
      BY <3>1, <3>2, <3>3 DEF Advances
    <3> QED
      BY <2>1, <2>2, <3>1, <3>2, <3>4, TopAdvance
  <2>4. CASE BeginPass
    <3> DEFINE f == [Top EXCEPT !.pc = "walk", !.cur = now, !.newIdx = nextId]
    <3>1. SetTop(f) /\ Top.pc = "begin"
      BY <2>4 DEF BeginPass, At
    <3>2. f \in Loop /\ f.next = Top.next
      BY <2>1 DEF Loop, PCs
    <3> HIDE DEF f
    <3>3. Advances(Top, f)
      BY <3>1 DEF Advances, InPass
    <3> QED
      BY <2>1, <2>2, <3>1, <3>2, <3>3, TopAdvance
  <2>5. CASE WalkDone \/ HandlerFails
    <3> DEFINE f == [Top EXCEPT !.pc = "passed", !.cur = 0, !.newIdx = 0, !.bucket = 0,
                                !.next = None, !.ev = None]
    <3>1. SetTop(f)
      BY <2>5 DEF WalkDone, HandlerFails, PassOver
    <3>2. f \in Loop /\ f.next = None /\ f.pc = "passed"
      <4>1. 0 \in 0..Buckets
        BY Parameters
      <4> QED
        BY <2>1, <4>1 DEF Loop, PCs
    <3> HIDE DEF f
    <3>3. Advances(Top, f)
      BY <3>2 DEF Advances, InPass
    <3> QED
      BY <2>1, <3>1, <3>2, <3>3, TopAdvance
  <2>6. CASE Sleep
    <3> DEFINE p == IF Top.opt.maxPasses > 0 THEN Top.passes + 1 ELSE Top.passes
               f == [Top EXCEPT !.pc = "sleep", !.cur = now, !.passes = p]
    <3>1. SetTop(f) /\ Top.pc = "passed"
      BY <2>6 DEF Sleep, At
    <3>2. p \in Nat
      BY <2>1 DEF Loop
    <3> HIDE DEF p
    <3>3. f \in Loop /\ f.next = Top.next /\ f.pc = "sleep"
      BY <2>1, <3>2 DEF Loop, PCs
    <3> HIDE DEF f
    <3>4. Advances(Top, f)
      BY <3>3 DEF Advances, InPass
    <3> QED
      BY <2>1, <2>2, <3>1, <3>3, <3>4, TopAdvance
  <2>7. CASE Wake
    <3> DEFINE f == [Top EXCEPT !.pc = "begin", !.cur = 0]
    <3>1. SetTop(f) /\ Top.pc = "sleep"
      BY <2>7 DEF Wake, At
    <3>2. f \in Loop /\ f.next = Top.next /\ f.pc = "begin"
      BY <2>1 DEF Loop, PCs
    <3> HIDE DEF f
    <3>3. Advances(Top, f)
      BY <3>2 DEF Advances, InPass
    <3> QED
      BY <2>1, <2>2, <3>1, <3>2, <3>3, TopAdvance
  <2> QED
    BY <1>5, <2>3, <2>4, <2>5, <2>6, <2>7
<1>6. \/ UNCHANGED loops \/ UpdateReturns
      \/ \E opt \in Updates : Update(opt)
      \/ \E id \in Ids : Visit(id)
      \/ BeginPass \/ WalkDone \/ HandlerFails \/ HandlerDone \/ Sleep \/ Wake
  BY DEF Next, Script, PassStep, SetTimer, Clear, Exit, VisitFreed, HandlerDoneFreed, Tick, vars
<1> QED
  BY <1>1, <1>2, <1>3, <1>4, <1>5, <1>6

\* A pass over the table of events comes to its end whatever its handlers make: it visits
\* events made before it, each once, and what is left to visit never grows.
THEOREM PassesAdvance == Spec => PassAdvances
<1>1. Init => BucketAhead
  BY DEF Init, BucketAhead, NewLoop
<1>2. IInv /\ BucketAhead /\ [Next]_vars => BucketAhead' /\ AllAdvance
  BY AdvanceNext
<1>3. AllAdvance => \A k \in DOMAIN loops \cap DOMAIN loops' :
       InPass(loops[k]) /\ InPass(loops'[k]) =>
         /\ Ahead(loops'[k]) \subseteq Ahead(loops[k])
         /\ loops[k].pc = "walk" /\ loops'[k].pc = "handler" =>
              loops'[k].ev \in Ahead(loops[k]) \ Ahead(loops'[k])
  BY DEF AllAdvance, Advances
<1> QED
  BY <1>1, <1>2, <1>3, Inductive, PTL DEF Spec, PassAdvances
=============================================================================
