--------------------------- MODULE InterpLocks_proofs ---------------------------
(***************************************************************************)
(* Proofs about the mutexes of interps, for every tree of interps, every   *)
(* choice of those that have a thread, a loop or doUnlock:false, and every *)
(* depth of the evaluations in a thread.                                   *)
(***************************************************************************)
EXTENDS InterpLocks, FiniteSetTheorems, SequenceTheorems, WellFoundedInduction, TLAPS

USE ConstantsAssumption DEF LocksAssumption

-----------------------------------------------------------------------------
(* The inductive invariant. *)

Mutexes == [Interps -> [owner : Threads \cup {None}, level : Nat]]
Jobs == [Threads -> {"none", "asked", "running", "done"}]
Marks == {"even", "waited", "refused"}

\* A mutex is owned exactly when its level is above 0.
Owned(m) == m \in Mutexes /\ \A i \in Interps : (m[i].owner = None) <=> (m[i].level = 0)

Last(s) == s[Len(s)]
Below(s) == SubSeq(s, 1, Len(s) - 1)

\* Only the innermost activation waits for something; the others go on when the one above
\* returns.  The first code of a thread entered its mutex when the thread began.
Shape(s) ==
  /\ s \in Seq(Frame) /\ Len(s) \in 1..MaxDepth
  /\ s[1].pc # "enter"
  /\ \A k \in 1..(Len(s) - 1) : s[k].pc \in {"run", "busy"}
  /\ Last(s).pc \in {"lookup", "convert", "lock"} => Last(s).to \in Interps

\* The levels of i.Mutex that thread t has locked, and those that a stack accounts for.
Held(m, t, i) == IF m[i].owner = t THEN m[i].level ELSE 0
Needed(s, i) == Cardinality({k \in 1..Len(s) : Needs(s[k], i)})

\* What an eval in another thread gave up while it sleeps.
Sleeps(f, i) == f.pc = "wait" /\ f.at = i

\* h levels are held where l are needed, by a thread that is asleep in an eval or not: as
\* many, until an eval waits for another thread; no fewer, until a lock is refused; and at
\* most one in excess, but none by an interp that keeps its mutex or while it sleeps.
Fits(h, l, asleep, keeper, mk) ==
  /\ mk = "even" => h = l /\ ~asleep
  /\ mk = "waited" => l <= h + (IF asleep /\ ~keeper THEN 1 ELSE 0)
  /\ h <= l + (IF asleep \/ keeper THEN 0 ELSE 1)

Balanced(m, t, s, mk) ==
  \A i \in Interps : Fits(Held(m, t, i), Needed(s, i), Sleeps(Last(s), i), i \in Keepers, mk)

IInv ==
  /\ Owned(mutex) /\ job \in Jobs /\ mark \in [Threads -> Marks]
  /\ DOMAIN stack = Threads
  /\ stack = [t \in Threads |-> stack[t]]
  /\ \A t \in Threads : Shape(stack[t])
  /\ \A t \in Threads : Balanced(mutex, t, stack[t], mark[t])

-----------------------------------------------------------------------------
(* Stacks, and the levels they account for. *)

LEMMA ThreadsAreInterps == Threads \subseteq Interps /\ None \notin Threads
BY DEF Threads, Interps

LEMMA NeededType ==
  ASSUME NEW s \in Seq(Frame), NEW i
  PROVE  /\ IsFiniteSet({k \in 1..Len(s) : Needs(s[k], i)})
         /\ Needed(s, i) \in Nat
<1>1. Len(s) \in Nat
  OBVIOUS
<1>2. IsFiniteSet(1..Len(s))
  BY <1>1, FS_Interval
<1>3. {k \in 1..Len(s) : Needs(s[k], i)} \subseteq 1..Len(s)
  OBVIOUS
<1>4. IsFiniteSet({k \in 1..Len(s) : Needs(s[k], i)})
  BY <1>2, <1>3, FS_Subset
<1> QED
  BY <1>4, FS_CardinalityType DEF Needed

Weight(f, i) == IF Needs(f, i) THEN 1 ELSE 0

LEMMA NeededAppend ==
  ASSUME NEW s \in Seq(Frame), NEW f \in Frame, NEW i
  PROVE  Needed(Append(s, f), i) = Needed(s, i) + Weight(f, i)
<1> DEFINE n == Len(s)
           g == Append(s, f)
           A == {k \in 1..Len(s) : Needs(s[k], i)}
           B == {k \in 1..Len(g) : Needs(g[k], i)}
<1>1. n \in Nat /\ Len(g) = n + 1 /\ g[n + 1] = f /\ \A k \in 1..n : g[k] = s[k]
  OBVIOUS
<1>2. \A k : k \in 1..Len(g) <=> k \in 1..n \/ k = n + 1
  BY <1>1
<1>3. B = IF Needs(f, i) THEN A \cup {n + 1} ELSE A
  BY <1>1, <1>2
<1>4. n + 1 \notin A
  BY <1>1
<1>5. IsFiniteSet(A) /\ Cardinality(A) \in Nat
  BY NeededType DEF Needed
<1>6. Cardinality(A \cup {n + 1}) = Cardinality(A) + 1
  BY <1>4, <1>5, FS_AddElement
<1>7. Needed(s, i) = Cardinality(A) /\ Needed(g, i) = Cardinality(B)
  BY DEF Needed
<1> HIDE DEF A, B, g, n
<1>8. CASE Needs(f, i)
  BY <1>3, <1>5, <1>6, <1>7, <1>8 DEF Weight, g
<1>9. CASE ~Needs(f, i)
  BY <1>3, <1>5, <1>7, <1>9 DEF Weight, g
<1> QED
  BY <1>8, <1>9

LEMMA BelowFacts ==
  ASSUME NEW s \in Seq(Frame), s # <<>>
  PROVE  /\ Below(s) \in Seq(Frame) /\ Len(Below(s)) = Len(s) - 1 /\ Len(s) \in Nat \ {0}
         /\ \A k \in 1..(Len(s) - 1) : Below(s)[k] = s[k]
         /\ Last(s) \in Frame /\ s = Append(Below(s), Last(s))
<1>1. Len(s) \in Nat \ {0}
  OBVIOUS
<1>2. /\ Below(s) \in Seq(Frame) /\ Len(Below(s)) = Len(s) - 1
      /\ \A k \in 1..(Len(s) - 1) : Below(s)[k] = s[k]
  <2> DEFINE n == Len(s) - 1
             g == Below(s)
  <2>1. n \in Nat /\ 1 \in Int /\ \A k \in 1..n : s[k] \in Frame
    BY <1>1
  <2>2. /\ g \in Seq(Frame)
        /\ Len(g) = IF 1 <= n THEN n - 1 + 1 ELSE 0
        /\ \A k \in 1..(n - 1 + 1) : g[k] = s[1 + k - 1]
    <3> HIDE DEF n
    <3> QED
      BY <2>1, SubSeqProperties DEF Below, n
  <2> HIDE DEF n, g
  <2>3. Len(g) = n
    BY <2>1, <2>2
  <2>4. ASSUME NEW k \in 1..n PROVE g[k] = s[k]
    <3>1. k \in 1..(n - 1 + 1) /\ 1 + k - 1 = k
      BY <2>1
    <3> QED
      BY <3>1, <2>2
  <2> QED
    BY <2>2, <2>3, <2>4 DEF n, g
<1>3. Last(s) \in Frame
  BY <1>1 DEF Last
<1>4. s = Append(Below(s), Last(s))
  <2> DEFINE g == Append(Below(s), Last(s))
  <2>1. g \in Seq(Frame) /\ Len(g) = Len(s)
    BY <1>1, <1>2, <1>3, AppendProperties
  <2>2. \A k \in 1..Len(s) : g[k] = s[k]
    <3>1. g[Len(s)] = Last(s)
      BY <1>1, <1>2, <1>3, AppendProperties
    <3>2. \A k \in 1..(Len(s) - 1) : g[k] = s[k]
      BY <1>1, <1>2, <1>3, AppendProperties
    <3> HIDE DEF g
    <3>3. \A k \in 1..Len(s) : k = Len(s) \/ k \in 1..(Len(s) - 1)
      BY <1>1
    <3> QED
      BY <3>1, <3>2, <3>3 DEF Last
  <2> HIDE DEF g
  <2>3. g = s
    BY <2>1, <2>2, SeqEqual
  <2> QED
    BY <2>3 DEF g
<1> QED
  BY <1>1, <1>2, <1>3, <1>4

LEMMA NeededBelow ==
  ASSUME NEW s \in Seq(Frame), s # <<>>, NEW i
  PROVE  Needed(s, i) = Needed(Below(s), i) + Weight(Last(s), i)
<1>1. Below(s) \in Seq(Frame) /\ Last(s) \in Frame /\ s = Append(Below(s), Last(s))
  BY BelowFacts
<1>2. PICK g \in Seq(Frame), f \in Frame : g = Below(s) /\ f = Last(s) /\ s = Append(g, f)
  BY <1>1
<1>3. Needed(s, i) = Needed(g, i) + Weight(f, i)
  BY <1>2, NeededAppend
<1> QED
  BY <1>2, <1>3

LEMMA TurnedFacts ==
  ASSUME NEW s \in Seq(Frame), s # <<>>, NEW f \in Frame
  PROVE  /\ Turned(s, f) \in Seq(Frame) /\ Len(Turned(s, f)) = Len(s) /\ Turned(s, f) # <<>>
         /\ Last(Turned(s, f)) = f
         /\ \A k \in 1..(Len(s) - 1) : Turned(s, f)[k] = s[k]
         /\ \A i : Needed(Turned(s, f), i) = Needed(s, i) - Weight(Last(s), i) + Weight(f, i)
<1> DEFINE r == Turned(s, f)
<1>1. Len(s) \in Nat \ {0}
  OBVIOUS
<1>2. r \in Seq(Frame) /\ Len(r) = Len(s)
  BY <1>1, ExceptSeq DEF Turned
<1>3. Last(r) = f /\ \A k \in 1..(Len(s) - 1) : r[k] = s[k]
  <2>1. \A k \in 1..Len(s) : r[k] = IF k = Len(s) THEN f ELSE s[k]
    BY <1>1, ExceptSeq DEF Turned
  <2> HIDE DEF r
  <2>2. Len(s) \in 1..Len(s) /\ \A k \in 1..(Len(s) - 1) : k \in 1..Len(s) /\ k # Len(s)
    BY <1>1
  <2> QED
    BY <1>2, <2>1, <2>2 DEF Last
<1>4. r # <<>>
  BY <1>1, <1>2
<1> HIDE DEF r
<1>5. Below(r) = Below(s)
  <2>1. /\ Below(r) \in Seq(Frame) /\ Below(s) \in Seq(Frame)
        /\ Len(Below(r)) = Len(s) - 1 /\ Len(Below(s)) = Len(s) - 1
        /\ \A k \in 1..(Len(s) - 1) : Below(r)[k] = r[k] /\ Below(s)[k] = s[k]
    BY <1>2, <1>4, BelowFacts
  <2> QED
    BY <1>3, <2>1, SeqEqual
<1>6. ASSUME NEW i
      PROVE  Needed(r, i) = Needed(s, i) - Weight(Last(s), i) + Weight(f, i)
  <2>1. Needed(r, i) = Needed(Below(s), i) + Weight(f, i)
    BY <1>2, <1>3, <1>4, <1>5, NeededBelow
  <2>2. Needed(s, i) = Needed(Below(s), i) + Weight(Last(s), i)
    BY NeededBelow
  <2>3. Needed(Below(s), i) \in Nat
    BY BelowFacts, NeededType
  <2>4. Weight(f, i) \in {0, 1} /\ Weight(Last(s), i) \in {0, 1}
    BY DEF Weight
  <2> QED
    BY <2>1, <2>2, <2>3, <2>4
<1> QED
  BY <1>2, <1>3, <1>4, <1>6 DEF r

-----------------------------------------------------------------------------
(* Locking and unlocking. *)

\* From m to n thread t has locked j once more.
Gains(m, n, t, j) ==
  /\ Owned(n)
  /\ Held(n, t, j) = Held(m, t, j) + 1
  /\ \A i \in Interps \ {j} : Held(n, t, i) = Held(m, t, i)
  /\ \A u \in Threads \ {t}, i \in Interps : Held(n, u, i) = Held(m, u, i)

\* From m to n thread t has unlocked j, if it had it.
Loses(m, n, t, j) ==
  /\ Owned(n)
  /\ Held(n, t, j) = IF Held(m, t, j) = 0 THEN 0 ELSE Held(m, t, j) - 1
  /\ \A i \in Interps \ {j} : Held(n, t, i) = Held(m, t, i)
  /\ \A u \in Threads \ {t}, i \in Interps : Held(n, u, i) = Held(m, u, i)

LEMMA HeldType ==
  ASSUME NEW m, Owned(m), NEW t \in Threads, NEW i \in Interps
  PROVE  Held(m, t, i) \in Nat /\ (Held(m, t, i) = 0 <=> m[i].owner # t)
<1>1. m[i].level \in Nat /\ (m[i].owner = None <=> m[i].level = 0)
  BY DEF Owned, Mutexes
<1>2. t # None
  BY ThreadsAreInterps
<1> QED
  BY <1>1, <1>2 DEF Held

LEMMA LockedGains ==
  ASSUME Owned(mutex), NEW t \in Threads, NEW j \in Interps, Free(t, j)
  PROVE  Gains(mutex, Locked(t, j), t, j)
<1> DEFINE n == Locked(t, j)
<1>1. /\ mutex \in Mutexes /\ mutex[j].owner \in {t, None} /\ t # None
      /\ mutex[j].owner = None <=> mutex[j].level = 0
  BY ThreadsAreInterps DEF Owned, Free
<1>2. /\ n \in Mutexes /\ n[j] = [owner |-> t, level |-> mutex[j].level + 1]
      /\ \A i \in Interps \ {j} : n[i] = mutex[i]
  BY <1>1 DEF Locked, Mutexes
<1>3. mutex[j].level \in Nat
  BY <1>1 DEF Mutexes
<1>4. n[j].owner = t /\ n[j].level = mutex[j].level + 1
  BY <1>2
<1> HIDE DEF n
<1>5. Owned(n)
  BY <1>1, <1>2, <1>3, <1>4 DEF Owned
<1>6. Held(n, t, j) = Held(mutex, t, j) + 1
  BY <1>1, <1>3, <1>4 DEF Held
<1>7. \A u \in Threads \ {t} : Held(n, u, j) = Held(mutex, u, j)
  BY <1>1, <1>4, ThreadsAreInterps DEF Held
<1>8. \A u \in Threads, i \in Interps \ {j} : Held(n, u, i) = Held(mutex, u, i)
  BY <1>2 DEF Held
<1> QED
  BY <1>5, <1>6, <1>7, <1>8 DEF Gains, n

LEMMA UnlockedLoses ==
  ASSUME Owned(mutex), NEW t \in Threads, NEW j \in Interps
  PROVE  Loses(mutex, Unlocked(t, j), t, j)
<1> DEFINE n == Unlocked(t, j)
<1>1. /\ mutex \in Mutexes /\ mutex[j].level \in Nat /\ t # None
      /\ mutex[j].owner = None <=> mutex[j].level = 0
  BY ThreadsAreInterps DEF Owned, Mutexes
<1>2. CASE mutex[j].owner # t
  <2>1. n = mutex
    BY <1>2 DEF Unlocked
  <2> HIDE DEF n
  <2>2. Held(mutex, t, j) = 0
    BY <1>2 DEF Held
  <2> QED
    BY <2>1, <2>2 DEF Loses, n
<1>3. CASE mutex[j].owner = t
  <2>0. mutex[j] \in [owner : Threads \cup {None}, level : Nat] /\ mutex[j].level \in Nat \ {0}
    BY <1>1, <1>3 DEF Mutexes
  <2> DEFINE x == [owner |-> IF mutex[j].level - 1 = 0 THEN None ELSE t,
                   level |-> mutex[j].level - 1]
  <2>1. /\ n \in Mutexes /\ \A i \in Interps \ {j} : n[i] = mutex[i]
        /\ n[j].level = mutex[j].level - 1
        /\ n[j].owner = IF mutex[j].level = 1 THEN None ELSE t
    <3>1. n = [mutex EXCEPT ![j] = x]
      BY <1>3 DEF Unlocked
    <3>2. /\ x \in [owner : Threads \cup {None}, level : Nat]
          /\ x.level = mutex[j].level - 1
          /\ x.owner = IF mutex[j].level = 1 THEN None ELSE t
      BY <2>0
    <3> HIDE DEF n, x
    <3> QED
      BY <1>1, <3>1, <3>2 DEF Mutexes
  <2> HIDE DEF n
  <2>3. \A i \in Interps \ {j} : n[i] = mutex[i]
    BY <2>1
  <2>4. n[j].owner = None <=> n[j].level = 0
    BY <1>1, <2>0, <2>1
  <2>5. Owned(n)
    BY <2>1, <2>3, <2>4, <1>1 DEF Owned
  <2>6. Held(mutex, t, j) = mutex[j].level /\ mutex[j].level # 0
    BY <1>1, <1>3 DEF Held
  <2>7. Held(n, t, j) = mutex[j].level - 1
    BY <1>1, <2>1, <2>3 DEF Held
  <2>8. \A u \in Threads \ {t} : Held(n, u, j) = 0 /\ Held(mutex, u, j) = 0
    BY <1>1, <1>3, <2>1, <2>3, ThreadsAreInterps DEF Held
  <2>9. \A u \in Threads, i \in Interps \ {j} : Held(n, u, i) = Held(mutex, u, i)
    BY <2>3 DEF Held
  <2> QED
    BY <2>5, <2>6, <2>7, <2>8, <2>9 DEF Loses, n
<1> QED
  BY <1>2, <1>3

LEMMA GiveUpLoses ==
  ASSUME Owned(mutex), NEW t \in Threads, NEW j \in Interps
  PROVE  IF j \in Keepers THEN GiveUp(t, j) = mutex ELSE Loses(mutex, GiveUp(t, j), t, j)
BY UnlockedLoses DEF GiveUp

-----------------------------------------------------------------------------
(* The initial states, and what a step of a thread must show. *)

LEMMA NeededOne ==
  ASSUME NEW f \in Frame, NEW i
  PROVE  Needed(<<f>>, i) = Weight(f, i)
<1>1. <<>> \in Seq(Frame) /\ Append(<<>>, f) = <<f>>
  OBVIOUS
<1>2. Needed(<<>>, i) = 0
  <2>1. {k \in 1..Len(<<>>) : Needs((<<>>)[k], i)} = {}
    OBVIOUS
  <2> QED
    BY <2>1, FS_EmptySet DEF Needed
<1>3. Needed(<<f>>, i) = Needed(<<>>, i) + Weight(f, i)
  <2> DEFINE e == <<>>
  <2>1. e \in Seq(Frame) /\ Append(e, f) = <<f>>
    BY <1>1
  <2>2. Needed(<<>>, i) = Needed(e, i)
    OBVIOUS
  <2> HIDE DEF e
  <2>3. Needed(Append(e, f), i) = Needed(e, i) + Weight(f, i)
    BY <2>1, NeededAppend
  <2> QED
    BY <2>1, <2>2, <2>3
<1>4. Weight(f, i) \in {0, 1}
  BY DEF Weight
<1> QED
  BY <1>2, <1>3, <1>4

LEMMA InitIInv == Init => IInv
<1> SUFFICES ASSUME Init PROVE IInv
  OBVIOUS
<1>1. Owned(mutex)
  BY ThreadsAreInterps DEF Init, Owned, Mutexes
<1>2. job \in Jobs /\ mark \in [Threads -> Marks]
  BY DEF Init, Jobs, Marks
<1>3. ASSUME NEW t \in Threads
      PROVE  Shape(stack[t]) /\ Balanced(mutex, t, stack[t], mark[t])
  <2>1. PICK f \in Frame : /\ stack[t] = <<f>> /\ f.at = t /\ f.pc = "run"
    BY ThreadsAreInterps DEF Init, Frame, PCs, Activation
  <2>2. Len(<<f>>) = 1 /\ Last(<<f>>) = f
    BY DEF Last
  <2>3. Shape(<<f>>)
    BY <2>1, <2>2 DEF Shape
  <2>4. ASSUME NEW i \in Interps
        PROVE  Fits(Held(mutex, t, i), Needed(<<f>>, i), Sleeps(f, i), i \in Keepers, "even")
    <3>1. Needed(<<f>>, i) = IF i = t THEN 1 ELSE 0
      BY <2>1, NeededOne DEF Weight, Needs, Holding
    <3>2. Held(mutex, t, i) = IF i = t THEN 1 ELSE 0
      BY ThreadsAreInterps DEF Init, Held
    <3>3. ~Sleeps(f, i)
      BY <2>1 DEF Sleeps
    <3> QED
      BY <3>1, <3>2, <3>3 DEF Fits
  <2>5. mark[t] = "even"
    BY DEF Init
  <2> QED
    BY <2>1, <2>2, <2>3, <2>4, <2>5 DEF Balanced
<1>4. DOMAIN stack = Threads /\ stack = [t \in Threads |-> stack[t]]
  BY DEF Init
<1> QED
  BY <1>1, <1>2, <1>3, <1>4 DEF IInv

\* A step of thread t changes its stack to s, its mark to mk, and only what t holds.
LEMMA StepKeeps ==
  ASSUME IInv, NEW t \in Threads, NEW s, NEW mk \in Marks,
         stack' = [stack EXCEPT ![t] = s], mark' = [mark EXCEPT ![t] = mk], job' \in Jobs,
         Owned(mutex'), Shape(s), Balanced(mutex', t, s, mk),
         \A u \in Threads \ {t}, i \in Interps : Held(mutex', u, i) = Held(mutex, u, i)
  PROVE  IInv'
<1>1. /\ DOMAIN stack' = Threads /\ stack' = [u \in Threads |-> stack'[u]]
      /\ stack'[t] = s /\ \A u \in Threads \ {t} : stack'[u] = stack[u]
  BY DEF IInv
<1>2. /\ mark' \in [Threads -> Marks] /\ mark'[t] = mk
      /\ \A u \in Threads \ {t} : mark'[u] = mark[u]
  BY DEF IInv
<1>3. \A u \in Threads \ {t} : Balanced(mutex', u, stack[u], mark[u])
  BY DEF IInv, Balanced
<1>4. \A u \in Threads : Balanced(mutex', u, stack'[u], mark'[u])
  BY <1>1, <1>2, <1>3
<1>5. \A u \in Threads : Shape(stack'[u])
  BY <1>1 DEF IInv
<1> QED
  BY <1>1, <1>2, <1>4, <1>5 DEF IInv

-----------------------------------------------------------------------------
(* Steps of the innermost activation. *)

\* The levels an activation of i needs at pc.
AtPc(pc, i) == IF pc \in Holding \/ (i \in Keepers /\ pc \in Away) THEN 1 ELSE 0

LEMMA WeightAt ==
  ASSUME NEW f, NEW i
  PROVE  Weight(f, i) = IF f.at = i THEN AtPc(f.pc, i) ELSE 0
BY DEF Weight, AtPc, Needs

\* What the invariant says of the innermost activation of a thread.
LEMMA TopFacts ==
  ASSUME IInv, NEW t \in Threads
  PROVE  /\ stack[t] \in Seq(Frame) /\ stack[t] # <<>> /\ Len(stack[t]) \in 1..MaxDepth
         /\ Top(t) = Last(stack[t]) /\ Top(t) \in Frame /\ Top(t).at \in Interps
         /\ Shape(stack[t]) /\ Balanced(mutex, t, stack[t], mark[t])
<1>1. Shape(stack[t]) /\ Balanced(mutex, t, stack[t], mark[t])
  BY DEF IInv
<1>2. stack[t] \in Seq(Frame) /\ Len(stack[t]) \in 1..MaxDepth
  BY <1>1 DEF Shape
<1>3. stack[t] # <<>>
  BY <1>2
<1>4. Top(t) = Last(stack[t]) /\ Last(stack[t]) \in Frame
  BY <1>2, <1>3, BelowFacts DEF Top, Last
<1> QED
  BY <1>1, <1>2, <1>3, <1>4 DEF Frame

LEMMA TopLevels ==
  ASSUME IInv, NEW t \in Threads, NEW i, i = Top(t).at, NEW l, l = Needed(stack[t], i),
         NEW h, h = Held(mutex, t, i)
  PROVE  /\ h \in Nat /\ l \in Nat /\ l >= AtPc(Top(t).pc, i)
         /\ Fits(h, l, Top(t).pc = "wait", i \in Keepers, mark[t])
<1>1. /\ stack[t] \in Seq(Frame) /\ stack[t] # <<>> /\ Top(t) = Last(stack[t])
      /\ i \in Interps /\ Balanced(mutex, t, stack[t], mark[t])
  BY TopFacts
<1>2. h \in Nat /\ l \in Nat
  BY <1>1, HeldType, NeededType DEF IInv
<1>3. l = Needed(Below(stack[t]), i) + AtPc(Top(t).pc, i)
  BY <1>1, NeededBelow, WeightAt
<1>4. Needed(Below(stack[t]), i) \in Nat
  BY <1>1, BelowFacts, NeededType
<1>5. AtPc(Top(t).pc, i) \in {0, 1}
  BY DEF AtPc
<1>6. l >= AtPc(Top(t).pc, i)
  BY <1>3, <1>4, <1>5
<1>7. Sleeps(Last(stack[t]), i) <=> Top(t).pc = "wait"
  BY <1>1 DEF Sleeps
<1>8. Fits(h, l, Sleeps(Last(stack[t]), i), i \in Keepers, mark[t])
  BY <1>1 DEF Balanced
<1>9. Fits(h, l, Top(t).pc = "wait", i \in Keepers, mark[t])
  BY <1>7, <1>8 DEF Fits
<1> QED
  BY <1>2, <1>6, <1>9

\* A mark may only get worse.
Worse(old, new) == new = old \/ new = "refused" \/ (old = "even" /\ new = "waited")

LEMMA FitsWorse ==
  ASSUME NEW h \in Nat, NEW l \in Nat, NEW keeper, NEW old, NEW new, Worse(old, new),
         Fits(h, l, FALSE, keeper, old)
  PROVE  Fits(h, l, FALSE, keeper, new)
BY DEF Fits, Worse

LEMMA TwoOrMore == \A n \in 1..MaxDepth : n # 1 => 1 \in 1..(n - 1)
OBVIOUS

\* The innermost activation goes to pc, and its thread locks or unlocks its mutex or not.
LEMMA TurnKeeps ==
  ASSUME IInv, NEW t \in Threads, NEW pc \in PCs \ {"enter"}, NEW to \in Interps \cup {None},
         NEW mk \in Marks, NEW i, i = Top(t).at, NEW h, NEW l,
         stack' = [stack EXCEPT ![t] = Turned(stack[t], [Top(t) EXCEPT !.pc = pc, !.to = to])],
         mark' = [mark EXCEPT ![t] = mk], Worse(mark[t], mk), job' \in Jobs,
         mutex' = mutex \/ Gains(mutex, mutex', t, i) \/ Loses(mutex, mutex', t, i),
         pc \in {"lookup", "convert", "lock"} => to \in Interps,
         h = Held(mutex', t, i), l = Needed(stack[t], i) - AtPc(Top(t).pc, i) + AtPc(pc, i),
         Fits(h, l, pc = "wait", i \in Keepers, mk)
  PROVE  IInv'
<1> DEFINE f == [Top(t) EXCEPT !.pc = pc, !.to = to]
           s == Turned(stack[t], f)
<1>1. /\ stack[t] \in Seq(Frame) /\ stack[t] # <<>> /\ Len(stack[t]) \in 1..MaxDepth
      /\ Top(t) = Last(stack[t]) /\ Top(t) \in Frame /\ i \in Interps
      /\ Shape(stack[t]) /\ Balanced(mutex, t, stack[t], mark[t])
  BY TopFacts
<1>2. f \in Frame /\ f.at = i /\ f.pc = pc /\ f.to = to
  BY <1>1 DEF Frame
<1> HIDE DEF f
<1>3. /\ s \in Seq(Frame) /\ Len(s) = Len(stack[t]) /\ Last(s) = f
      /\ \A k \in 1..(Len(stack[t]) - 1) : s[k] = stack[t][k]
      /\ \A j : Needed(s, j) = Needed(stack[t], j) - Weight(Last(stack[t]), j) + Weight(f, j)
  BY <1>1, <1>2, TurnedFacts
<1> HIDE DEF s
<1>4. Shape(s)
  <2>1. s[1].pc # "enter"
    <3>1. CASE Len(s) = 1
      BY <1>2, <1>3, <3>1 DEF Last
    <3>2. CASE Len(s) # 1
      <4>1. 1 \in 1..(Len(stack[t]) - 1)
        <5>1. Len(stack[t]) \in 1..MaxDepth /\ Len(stack[t]) # 1
          BY <1>1, <1>3, <3>2
        <5> QED
          BY <5>1, TwoOrMore
      <4>2. stack[t][1].pc # "enter"
        BY <1>1 DEF Shape
      <4> QED
        BY <1>3, <4>1, <4>2
    <3> QED
      BY <3>1, <3>2
  <2>2. \A k \in 1..(Len(s) - 1) : s[k].pc \in {"run", "busy"}
    BY <1>1, <1>3 DEF Shape
  <2>3. Last(s).pc \in {"lookup", "convert", "lock"} => Last(s).to \in Interps
    BY <1>2, <1>3
  <2> QED
    BY <1>1, <1>3, <2>1, <2>2, <2>3 DEF Shape
<1>5. /\ Owned(mutex') /\ \A j \in Interps \ {i} : Held(mutex', t, j) = Held(mutex, t, j)
      /\ \A u \in Threads \ {t}, j \in Interps : Held(mutex', u, j) = Held(mutex, u, j)
  BY DEF Gains, Loses, IInv
<1>6. ASSUME NEW j \in Interps
      PROVE  Fits(Held(mutex', t, j), Needed(s, j), Sleeps(Last(s), j), j \in Keepers, mk)
  <2>1. CASE j = i
    <3>1. Needed(s, i) = Needed(stack[t], i) - AtPc(Top(t).pc, i) + AtPc(pc, i)
      BY <1>1, <1>2, <1>3, WeightAt
    <3>2. Sleeps(Last(s), i) <=> pc = "wait"
      BY <1>2, <1>3 DEF Sleeps
    <3> QED
      BY <2>1, <3>1, <3>2 DEF Fits
  <2>2. CASE j # i
    <3>1. Weight(Last(stack[t]), j) = 0 /\ Weight(f, j) = 0
      BY <1>1, <1>2, <2>2, WeightAt
    <3>2. Needed(s, j) = Needed(stack[t], j) /\ Needed(s, j) \in Nat
      <4>1. Needed(stack[t], j) \in Nat
        BY <1>1, NeededType
      <4>2. Needed(s, j) = Needed(stack[t], j) - 0 + 0
        BY <1>3, <3>1
      <4> QED
        BY <4>1, <4>2
    <3>3. Held(mutex', t, j) = Held(mutex, t, j) /\ Held(mutex', t, j) \in Nat
      BY <1>5, <2>2, HeldType DEF IInv
    <3>4. ~Sleeps(Last(s), j) /\ ~Sleeps(Last(stack[t]), j)
      BY <1>1, <1>2, <1>3, <2>2 DEF Sleeps
    <3>5. Fits(Held(mutex', t, j), Needed(s, j), FALSE, j \in Keepers, mark[t])
      <4>1. Fits(Held(mutex, t, j), Needed(stack[t], j), Sleeps(Last(stack[t]), j),
                 j \in Keepers, mark[t])
        BY <1>1 DEF Balanced
      <4> QED
        BY <3>2, <3>3, <3>4, <4>1 DEF Fits
    <3>6. Fits(Held(mutex', t, j), Needed(s, j), FALSE, j \in Keepers, mk)
      BY <3>2, <3>3, <3>5, FitsWorse
    <3> QED
      BY <3>4, <3>6 DEF Fits
  <2> QED
    BY <2>1, <2>2
<1>7. Balanced(mutex', t, s, mk)
  BY <1>6 DEF Balanced
<1>8. stack' = [stack EXCEPT ![t] = s]
  BY DEF s, f
<1> QED
  BY <1>4, <1>5, <1>7, <1>8, StepKeeps

-----------------------------------------------------------------------------
(* Each operation that leaves the stack as deep as it is. *)

LEMMA AwakeKeeps ==
  ASSUME IInv, NEW t \in Threads, NEW pc \in PCs \ {"enter", "wait"}, NEW to \in Interps \cup {None},
         NEW mk \in Marks, NEW i, i = Top(t).at, NEW h, NEW l,
         stack' = [stack EXCEPT ![t] = Turned(stack[t], [Top(t) EXCEPT !.pc = pc, !.to = to])],
         mark' = [mark EXCEPT ![t] = mk], Worse(mark[t], mk), job' \in Jobs,
         mutex' = mutex \/ Gains(mutex, mutex', t, i) \/ Loses(mutex, mutex', t, i),
         pc \in {"lookup", "convert", "lock"} => to \in Interps,
         h = Held(mutex', t, i), l = Needed(stack[t], i) - AtPc(Top(t).pc, i) + AtPc(pc, i),
         Fits(h, l, FALSE, i \in Keepers, mk)
  PROVE  IInv'
<1>1. Fits(h, l, pc = "wait", i \in Keepers, mk)
  BY DEF Fits
<1> QED
  BY <1>1, TurnKeeps

\* Thread t locks and unlocks i as the levels it needs of it change from was to will, or is
\* refused a level.
Moves(new, t, i, was, will, mk) ==
  \/ Gains(mutex, new, t, i) /\ was = 0 /\ will = 1 /\ mk = mark[t]
  \/ Loses(mutex, new, t, i) /\ was = 1 /\ will = 0 /\ mk = mark[t]
  \/ new = mutex /\ was = will /\ Worse(mark[t], mk)
  \/ new = mutex /\ was = 0 /\ will = 1 /\ mk = "refused"
  \/ Loses(mutex, new, t, i) /\ was = will /\ mk = "refused"

\* Moving between places where no eval sleeps: what is locked follows what is needed, or
\* a lock is refused.
LEMMA MoveKeeps ==
  ASSUME IInv, NEW t \in Threads, NEW pc \in PCs \ {"enter", "wait"}, NEW to \in Interps \cup {None},
         NEW mk \in Marks, NEW i, i = Top(t).at, NEW old, old = Top(t).pc, old # "wait",
         stack' = [stack EXCEPT ![t] = Turned(stack[t], [Top(t) EXCEPT !.pc = pc, !.to = to])],
         mark' = [mark EXCEPT ![t] = mk], job' \in Jobs,
         pc \in {"lookup", "convert", "lock"} => to \in Interps,
         Moves(mutex', t, i, AtPc(old, i), AtPc(pc, i), mk)
  PROVE  IInv'
<1>1. PICK h, l, was, will, g :
        /\ h = Held(mutex, t, i) /\ l = Needed(stack[t], i) /\ g = Held(mutex', t, i)
        /\ was = AtPc(old, i) /\ will = AtPc(pc, i)
  OBVIOUS
<1>2. /\ h \in Nat /\ l \in Nat /\ was \in {0, 1} /\ will \in {0, 1} /\ l >= was
      /\ Fits(h, l, FALSE, i \in Keepers, mark[t])
  BY <1>1, TopLevels DEF Fits, AtPc
<1>3. mark[t] \in Marks
  BY DEF IInv
<1>4. CASE Gains(mutex, mutex', t, i) /\ was = 0 /\ will = 1 /\ mk = mark[t]
  <2>1. g = h + 1
    BY <1>1, <1>4 DEF Gains
  <2>2. Fits(g, l - was + will, FALSE, i \in Keepers, mk)
    BY <2>1, <1>2, <1>4 DEF Fits
  <2> QED
    BY <1>1, <1>4, <2>2, AwakeKeeps DEF Worse
<1>5. CASE Loses(mutex, mutex', t, i) /\ was = 1 /\ will = 0 /\ mk = mark[t]
  <2>1. g = IF h = 0 THEN 0 ELSE h - 1
    BY <1>1, <1>5 DEF Loses
  <2>2. Fits(g, l - was + will, FALSE, i \in Keepers, mk)
    BY <2>1, <1>2, <1>3, <1>5 DEF Fits, Marks
  <2> QED
    BY <1>1, <1>5, <2>2, AwakeKeeps DEF Worse
<1>6. CASE mutex' = mutex /\ was = will /\ Worse(mark[t], mk)
  <2>1. g = h /\ l - was + will = l
    BY <1>1, <1>2, <1>6
  <2>2. Fits(g, l - was + will, FALSE, i \in Keepers, mk)
    BY <2>1, <1>2, <1>6, FitsWorse
  <2> QED
    BY <1>1, <1>6, <2>2, AwakeKeeps
<1>7. CASE mutex' = mutex /\ was = 0 /\ will = 1 /\ mk = "refused"
  <2>1. g = h
    BY <1>1, <1>7
  <2>2. Fits(g, l - was + will, FALSE, i \in Keepers, mk)
    BY <2>1, <1>2, <1>7 DEF Fits
  <2> QED
    BY <1>1, <1>7, <2>2, AwakeKeeps DEF Worse
<1>8. CASE Loses(mutex, mutex', t, i) /\ was = will /\ mk = "refused"
  <2>1. g = IF h = 0 THEN 0 ELSE h - 1
    BY <1>1, <1>8 DEF Loses
  <2>2. Fits(g, l - was + will, FALSE, i \in Keepers, mk)
    BY <2>1, <1>2, <1>8 DEF Fits
  <2> QED
    BY <1>1, <1>8, <2>2, AwakeKeeps DEF Worse
<1> QED
  BY <1>1, <1>4, <1>5, <1>6, <1>7, <1>8 DEF Moves

LEMMA Weights ==
  ASSUME NEW i
  PROVE  /\ AtPc("run", i) = 1 /\ AtPc("lookup", i) = 1 /\ AtPc("convert", i) = 1
         /\ AtPc("convback", i) = 1
         /\ AtPc("enter", i) = 0 /\ AtPc("sleep", i) = 0 /\ AtPc("wait", i) = 0
         /\ i \in Keepers => /\ AtPc("posted", i) = 1 /\ AtPc("lock", i) = 1
                             /\ AtPc("busy", i) = 1 /\ AtPc("relock", i) = 1
         /\ i \notin Keepers => /\ AtPc("posted", i) = 0 /\ AtPc("lock", i) = 0
                                /\ AtPc("busy", i) = 0 /\ AtPc("relock", i) = 0
BY DEF AtPc, Holding, Away

LEMMA GoToTurns ==
  ASSUME IInv, NEW t \in Threads, NEW pc, GoTo(t, pc)
  PROVE  \E to \in Interps \cup {None} :
           /\ stack' = [stack EXCEPT ![t] = Turned(stack[t], [Top(t) EXCEPT !.pc = pc, !.to = to])]
           /\ to = Top(t).to
<1>1. Top(t) \in Frame /\ Top(t).to \in Interps \cup {None}
  BY TopFacts DEF Frame
<1>2. [Top(t) EXCEPT !.pc = pc, !.to = Top(t).to] = [Top(t) EXCEPT !.pc = pc]
  BY <1>1 DEF Frame
<1> QED
  BY <1>1, <1>2 DEF GoTo

LEMMA SameMark ==
  ASSUME IInv, NEW t \in Threads, mark' = mark
  PROVE  mark' = [mark EXCEPT ![t] = mark[t]] /\ mark[t] \in Marks /\ Worse(mark[t], mark[t])
BY DEF IInv, Worse

\* The thread goes on inside its interp, or takes a level of its mutex back.
LEMMA TakingKeeps ==
  ASSUME IInv, NEW t \in Threads, Enter(t) \/ Wake(t) \/ Relock(t), mark' = mark
  PROVE  IInv'
<1>1. PICK i, old : i = Top(t).at /\ old = Top(t).pc
  OBVIOUS
<1>2. PICK pc \in {"run", "convback"} :
        /\ GoTo(t, pc) /\ job' = job
        /\ \/ old \in {"enter", "sleep", "relock"} /\ (old = "relock" => i \notin Keepers)
              /\ Free(t, i) /\ mutex' = Locked(t, i)
           \/ old = "relock" /\ i \in Keepers /\ mutex' = mutex
  BY <1>1 DEF Enter, Wake, Relock, At, Retaken
<1>3. i \in Interps /\ job' \in Jobs /\ Owned(mutex)
  BY <1>1, <1>2, TopFacts DEF IInv
<1>4. pc \in PCs \ {"enter", "wait"} /\ pc \notin {"lookup", "convert", "lock"} /\ AtPc(pc, i) = 1
  BY <1>2, Weights DEF PCs
<1>5. PICK to \in Interps \cup {None} :
        stack' = [stack EXCEPT ![t] = Turned(stack[t], [Top(t) EXCEPT !.pc = pc, !.to = to])]
  BY <1>2, GoToTurns
<1>6. mark' = [mark EXCEPT ![t] = mark[t]] /\ mark[t] \in Marks /\ Worse(mark[t], mark[t])
  BY SameMark
<1>7. old # "wait" /\ Moves(mutex', t, i, AtPc(old, i), AtPc(pc, i), mark[t])
  <2>1. CASE mutex' = Locked(t, i) /\ Free(t, i) /\ AtPc(old, i) = 0
    <3>1. Gains(mutex, mutex', t, i)
      BY <1>3, <2>1, LockedGains
    <3> QED
      BY <1>2, <1>4, <2>1, <3>1 DEF Moves
  <2>2. CASE mutex' = mutex /\ AtPc(old, i) = 1
    BY <1>2, <1>4, <1>6, <2>2 DEF Moves
  <2> QED
    BY <1>2, <2>1, <2>2, Weights
<1> QED
  BY <1>1, <1>3, <1>4, <1>5, <1>6, <1>7, MoveKeeps

\* A level is not taken back: the lock is refused.
LEMMA LosingKeeps ==
  ASSUME IInv, NEW t \in Threads, WakeRefused(t) \/ RelockRefused(t),
         mark' = [mark EXCEPT ![t] = "refused"]
  PROVE  IInv'
<1>1. PICK i, old : i = Top(t).at /\ old = Top(t).pc
  OBVIOUS
<1>2. /\ GoTo(t, "run") /\ job' = job /\ mutex' = mutex
      /\ old = "sleep" \/ (old = "relock" /\ i \notin Keepers)
  BY <1>1 DEF WakeRefused, RelockRefused, At
<1>3. i \in Interps /\ job' \in Jobs
  BY <1>1, <1>2, TopFacts DEF IInv
<1>4. "run" \in PCs \ {"enter", "wait"} /\ "run" \notin {"lookup", "convert", "lock"}
      /\ AtPc("run", i) = 1 /\ AtPc(old, i) = 0 /\ old # "wait" /\ "refused" \in Marks
  BY <1>2, Weights DEF PCs, Marks
<1>6. Moves(mutex', t, i, AtPc(old, i), AtPc("run", i), "refused")
  BY <1>2, <1>4 DEF Moves
<1>5. PICK to \in Interps \cup {None} :
        stack' = [stack EXCEPT ![t] = Turned(stack[t], [Top(t) EXCEPT !.pc = "run", !.to = to])]
  BY <1>2, GoToTurns
<1> QED
  BY <1>1, <1>3, <1>4, <1>5, <1>6, MoveKeeps

\* Sleeping gives a level up, and so does going to another interp, which a keeper does not.
LEMMA GivingKeeps ==
  ASSUME IInv, NEW t \in Threads, Sleep(t) \/ AliasRelease(t) \/ Lookup(t) \/ EvalPost(t),
         mark' = mark
  PROVE  IInv'
<1>1. PICK i, old : i = Top(t).at /\ old = Top(t).pc
  OBVIOUS
<1>2. /\ i \in Interps /\ Owned(mutex) /\ Top(t).to \in Interps \cup {None} /\ Subs \subseteq Interps
      /\ old \in {"convert", "lookup"} => Top(t).to \in Interps
  <2>1. old \in {"convert", "lookup"} => Top(t).to \in Interps
    BY <1>1, TopFacts DEF Shape
  <2> QED
    BY <1>1, <2>1, TopFacts DEF IInv, Frame, Interps
<1>3. PICK pc \in {"sleep", "lock", "posted"}, to \in Interps \cup {None} :
        /\ stack' = [stack EXCEPT ![t] = Turned(stack[t], [Top(t) EXCEPT !.pc = pc, !.to = to])]
        /\ pc = "lock" => to \in Interps
        /\ mutex' = IF pc = "sleep" THEN Unlocked(t, i) ELSE GiveUp(t, i)
        /\ old \in {"run", "convert", "lookup"} /\ job' \in Jobs
  <2>1. CASE Sleep(t)
    <3>1. GoTo(t, "sleep") /\ mutex' = Unlocked(t, i) /\ old = "run" /\ job' \in Jobs
      BY <1>1, <2>1 DEF Sleep, At, IInv
    <3> QED
      BY <3>1, GoToTurns
  <2>2. CASE AliasRelease(t) \/ Lookup(t)
    <3>1. /\ GoTo(t, "lock") /\ mutex' = GiveUp(t, i) /\ old \in {"convert", "lookup"}
          /\ job' \in Jobs
      BY <1>1, <2>2 DEF AliasRelease, Lookup, LookupRelease, At, IInv
    <3>2. PICK to \in Interps \cup {None} :
            /\ stack' = [stack EXCEPT ![t] = Turned(stack[t], [Top(t) EXCEPT !.pc = "lock", !.to = to])]
            /\ to = Top(t).to
      BY <3>1, GoToTurns
    <3>3. to \in Interps
      BY <1>2, <3>1, <3>2
    <3> QED
      BY <3>1, <3>2, <3>3
  <2>3. CASE EvalPost(t)
    <3>1. PICK s \in Subs : Pending(t, "posted", s)
      BY <2>3 DEF EvalPost, Children
    <3>2. mutex' = GiveUp(t, i) /\ old = "run" /\ job' \in Jobs
      BY <1>1, <2>3 DEF EvalPost, Does, At, IInv, Jobs
    <3> QED
      BY <1>2, <3>1, <3>2 DEF Pending
  <2> QED
    BY <2>1, <2>2, <2>3
<1>4. /\ pc \in PCs \ {"enter", "wait"} /\ old # "wait" /\ AtPc(old, i) = 1
      /\ pc \in {"lookup", "convert", "lock"} => to \in Interps
  BY <1>3, Weights DEF PCs
<1>5. mark' = [mark EXCEPT ![t] = mark[t]] /\ mark[t] \in Marks /\ Worse(mark[t], mark[t])
  BY SameMark
<1>6. Moves(mutex', t, i, AtPc(old, i), AtPc(pc, i), mark[t])
  <2>1. CASE i \in Keepers /\ pc # "sleep"
    <3>1. mutex' = mutex /\ AtPc(pc, i) = 1
      BY <1>2, <1>3, <2>1, GiveUpLoses, Weights
    <3> QED
      BY <1>4, <1>5, <3>1 DEF Moves
  <2>2. CASE ~(i \in Keepers /\ pc # "sleep")
    <3>1. Loses(mutex, mutex', t, i) /\ AtPc(pc, i) = 0
      BY <1>2, <1>3, <2>2, GiveUpLoses, UnlockedLoses, Weights
    <3> QED
      BY <1>4, <3>1 DEF Moves
  <2> QED
    BY <2>1, <2>2
<1>7. job' \in Jobs
  BY <1>3
<1> QED
  BY <1>1, <1>2, <1>3, <1>4, <1>5, <1>6, <1>7, MoveKeeps

\* Neither what is locked nor what is needed changes.
LEMMA WalkingKeeps ==
  ASSUME IInv, NEW t \in Threads,
         \/ Alias(t) \/ Call(t) \/ LookupRefused(t) \/ EnterOtherRefused(t)
         \/ Converted(t) \/ NoSleep(t),
         mark' = mark
  PROVE  IInv'
<1>1. PICK i, old : i = Top(t).at /\ old = Top(t).pc
  OBVIOUS
<1>2. /\ i \in Interps /\ Top(t).to \in Interps \cup {None}
      /\ \A s \in Subs : s \in Interps /\ Parent[s] \in Interps
  BY <1>1, TopFacts DEF Frame, Interps
<1>3. PICK pc \in {"convert", "lookup", "run", "relock"}, to \in Interps \cup {None} :
        /\ stack' = [stack EXCEPT ![t] = Turned(stack[t], [Top(t) EXCEPT !.pc = pc, !.to = to])]
        /\ pc \in {"convert", "lookup"} => to \in Interps
        /\ pc = "relock" => old \in {"lock", "posted"}
        /\ pc # "relock" => old \in {"run", "lookup", "convback"}
        /\ job' \in Jobs /\ mutex' = mutex
  <2>1. CASE Alias(t)
    <3>1. /\ Pending(t, "convert", Parent[i]) /\ i \in Subs /\ old = "run" /\ mutex' = mutex
          /\ job' \in Jobs
      BY <1>1, <2>1 DEF Alias, Does, At, IInv
    <3> QED
      BY <1>2, <3>1 DEF Pending
  <2>2. CASE Call(t)
    <3>1. PICK s \in Subs : Pending(t, "lookup", s)
      BY <2>2 DEF Call, Children
    <3>2. old = "run" /\ mutex' = mutex /\ job' \in Jobs
      BY <1>1, <2>2 DEF Call, Does, At, IInv
    <3> QED
      BY <1>2, <3>1, <3>2 DEF Pending
  <2>3. CASE LookupRefused(t)
    <3>1. GoTo(t, "run") /\ old = "lookup" /\ mutex' = mutex /\ job' \in Jobs
      BY <1>1, <2>3 DEF LookupRefused, At, IInv
    <3> QED
      BY <3>1, GoToTurns
  <2>4. CASE EnterOtherRefused(t)
    <3>1. Pending(t, "relock", None) /\ old = "lock" /\ mutex' = mutex /\ job' \in Jobs
      BY <1>1, <2>4 DEF EnterOtherRefused, At, IInv
    <3> QED
      BY <3>1 DEF Pending
  <2>5. CASE Converted(t)
    <3>1. Pending(t, "run", None) /\ old = "convback" /\ mutex' = mutex /\ job' \in Jobs
      BY <1>1, <2>5 DEF Converted, At, IInv
    <3> QED
      BY <3>1 DEF Pending
  <2>6. CASE NoSleep(t)
    <3>1. GoTo(t, "relock") /\ old = "posted" /\ mutex' = mutex /\ job' \in Jobs
      BY <1>1, <2>6 DEF NoSleep, At, IInv, Jobs
    <3> QED
      BY <3>1, GoToTurns
  <2> QED
    BY <2>1, <2>2, <2>3, <2>4, <2>5, <2>6
<1>4. /\ pc \in PCs \ {"enter", "wait"} /\ old # "wait" /\ AtPc(old, i) = AtPc(pc, i)
      /\ pc \in {"lookup", "convert", "lock"} => to \in Interps
  BY <1>3, Weights DEF PCs
<1>5. mark' = [mark EXCEPT ![t] = mark[t]] /\ mark[t] \in Marks /\ Worse(mark[t], mark[t])
  BY SameMark
<1>6. Moves(mutex', t, i, AtPc(old, i), AtPc(pc, i), mark[t])
  BY <1>3, <1>4, <1>5 DEF Moves
<1>7. job' \in Jobs
  BY <1>3
<1> QED
  BY <1>1, <1>2, <1>3, <1>4, <1>5, <1>6, <1>7, MoveKeeps

\* The eval is not queued: the script goes on, without the level that was given up.
LEMMA PostRefusedKeeps ==
  ASSUME IInv, NEW t \in Threads, EvalPostRefused(t), mark' = [mark EXCEPT ![t] = "refused"]
  PROVE  IInv'
<1>1. PICK i, old, to : i = Top(t).at /\ old = Top(t).pc /\ to = Top(t).to
  OBVIOUS
<1>2. mutex' = GiveUp(t, i) /\ stack' = stack /\ job' = job /\ old = "run"
  BY <1>1 DEF EvalPostRefused, Does, At
<1>3. /\ i \in Interps /\ job' \in Jobs /\ Owned(mutex) /\ to \in Interps \cup {None}
      /\ Top(t) \in Frame /\ Top(t) = Last(stack[t]) /\ Len(stack[t]) \in 1..MaxDepth
      /\ stack[t] \in Seq(Frame)
  BY <1>1, <1>2, TopFacts DEF IInv, Frame
<1>4. "run" \in PCs \ {"enter", "wait"} /\ "run" \notin {"lookup", "convert", "lock"}
      /\ AtPc("run", i) = 1 /\ old # "wait" /\ "refused" \in Marks
  BY <1>2, Weights DEF PCs, Marks
<1>5. stack' = [stack EXCEPT ![t] = Turned(stack[t], [Top(t) EXCEPT !.pc = "run", !.to = to])]
  <2>1. [Top(t) EXCEPT !.pc = "run", !.to = to] = Top(t)
    BY <1>1, <1>2, <1>3 DEF Frame
  <2>2. Turned(stack[t], Top(t)) = stack[t]
    BY <1>3 DEF Turned, Last
  <2>3. stack' = [stack EXCEPT ![t] = stack[t]]
    BY <1>2 DEF IInv
  <2> QED
    BY <2>1, <2>2, <2>3
<1>6. Moves(mutex', t, i, AtPc(old, i), AtPc("run", i), "refused")
  <2>1. CASE i \in Keepers
    <3>1. mutex' = mutex
      BY <1>2, <1>3, <2>1, GiveUpLoses
    <3> QED
      BY <1>2, <3>1 DEF Moves, Worse
  <2>2. CASE i \notin Keepers
    <3>1. Loses(mutex, mutex', t, i)
      BY <1>2, <1>3, <2>2, GiveUpLoses
    <3> QED
      BY <1>2, <3>1 DEF Moves
  <2> QED
    BY <2>1, <2>2
<1> QED
  BY <1>1, <1>3, <1>4, <1>5, <1>6, MoveKeeps

\* The first sleep of the wait gives a level up, after the one the post gave up.
LEMMA FirstSleepKeeps ==
  ASSUME IInv, NEW t \in Threads, NEW mk, FirstSleep(t),
         mk = IF mark[t] = "even" THEN "waited" ELSE mark[t], mark' = [mark EXCEPT ![t] = mk]
  PROVE  IInv'
<1>1. PICK i, old, h, l :
        /\ i = Top(t).at /\ old = Top(t).pc
        /\ h = Held(mutex, t, i) /\ l = Needed(stack[t], i)
  OBVIOUS
<1>2. mutex' = Unlocked(t, i) /\ GoTo(t, "wait") /\ job' = job /\ old = "posted"
  BY <1>1 DEF FirstSleep, At
<1>3. i \in Interps /\ Owned(mutex) /\ job' \in Jobs
  BY <1>1, <1>2, TopFacts DEF IInv
<1>4. Loses(mutex, mutex', t, i)
  BY <1>2, <1>3, UnlockedLoses
<1>5. PICK to \in Interps \cup {None} :
        stack' = [stack EXCEPT ![t] = Turned(stack[t], [Top(t) EXCEPT !.pc = "wait", !.to = to])]
  <2>1. PICK pc : pc = "wait" /\ GoTo(t, pc)
    BY <1>2
  <2>2. \E to \in Interps \cup {None} :
          /\ stack' = [stack EXCEPT ![t] = Turned(stack[t], [Top(t) EXCEPT !.pc = pc, !.to = to])]
          /\ to = Top(t).to
    BY <2>1, GoToTurns
  <2> QED
    BY <2>1, <2>2
<1>6. mark[t] \in Marks /\ mk \in Marks /\ mark' = [mark EXCEPT ![t] = mk] /\ Worse(mark[t], mk)
  BY <1>1 DEF IInv, Marks, Worse
<1>7. "wait" \in PCs \ {"enter"} /\ "wait" \notin {"lookup", "convert", "lock"}
  BY DEF PCs
<1>8. PICK was, will, g : /\ was = AtPc(old, i) /\ will = AtPc("wait", i)
                          /\ g = Held(mutex', t, i)
  OBVIOUS
<1>9. /\ h \in Nat /\ l \in Nat /\ l >= was /\ Fits(h, l, FALSE, i \in Keepers, mark[t])
      /\ was = (IF i \in Keepers THEN 1 ELSE 0) /\ will = 0
  <2>1. /\ h \in Nat /\ l \in Nat /\ l >= AtPc(old, i)
        /\ Fits(h, l, old = "wait", i \in Keepers, mark[t])
    BY <1>1, TopLevels
  <2>2. Fits(h, l, FALSE, i \in Keepers, mark[t])
    BY <1>2, <2>1 DEF Fits
  <2>3. was = (IF i \in Keepers THEN 1 ELSE 0) /\ will = 0
    BY <1>2, <1>8, Weights
  <2> QED
    BY <1>8, <2>1, <2>2, <2>3
<1>10. g = IF h = 0 THEN 0 ELSE h - 1
  BY <1>1, <1>4, <1>8 DEF Loses
<1>11. Fits(g, l - was + will, TRUE, i \in Keepers, mk)
  BY <1>1, <1>6, <1>9, <1>10 DEF Fits, Marks
<1>12. Fits(g, l - was + will, "wait" = "wait", i \in Keepers, mk)
  BY <1>11 DEF Fits
<1> QED
  BY <1>1, <1>3, <1>4, <1>5, <1>6, <1>7, <1>8, <1>12, TurnKeeps

\* The last one takes a level back, or is refused it.
LEMMA LastSleepKeeps ==
  ASSUME IInv, NEW t \in Threads,
         \/ LastSleep(t) /\ mark' = mark
         \/ LastSleepRefused(t) /\ mark' = [mark EXCEPT ![t] = "refused"]
  PROVE  IInv'
<1>1. PICK i, old, h, l :
        i = Top(t).at /\ old = Top(t).pc /\ h = Held(mutex, t, i) /\ l = Needed(stack[t], i)
  OBVIOUS
<1>2. PICK mk \in Marks :
        /\ GoTo(t, "relock") /\ old = "wait" /\ job' \in Jobs /\ mark' = [mark EXCEPT ![t] = mk]
        /\ \/ Free(t, i) /\ mutex' = Locked(t, i) /\ mk = mark[t]
           \/ mutex' = mutex /\ mk = "refused"
  <2>1. CASE LastSleep(t) /\ mark' = mark
    <3>1. mark[t] \in Marks /\ mark' = [mark EXCEPT ![t] = mark[t]]
      BY <2>1 DEF IInv
    <3>2. job' \in Jobs
      BY <2>1 DEF LastSleep, IInv, Jobs
    <3> QED
      BY <1>1, <2>1, <3>1, <3>2 DEF LastSleep, At
  <2>2. CASE LastSleepRefused(t) /\ mark' = [mark EXCEPT ![t] = "refused"]
    <3>1. "refused" \in Marks
      BY DEF Marks
    <3>2. job' \in Jobs
      BY <2>2 DEF LastSleepRefused, IInv, Jobs
    <3> QED
      BY <1>1, <2>2, <3>1, <3>2 DEF LastSleepRefused, At
  <2> QED
    BY <2>1, <2>2
<1>3. i \in Interps /\ Owned(mutex) /\ mark[t] \in Marks
  BY <1>1, TopFacts DEF IInv
<1>4. mutex' = mutex \/ Gains(mutex, mutex', t, i)
  BY <1>2, <1>3, LockedGains
<1>5. PICK to \in Interps \cup {None} :
        stack' = [stack EXCEPT ![t] = Turned(stack[t], [Top(t) EXCEPT !.pc = "relock", !.to = to])]
  <2>1. GoTo(t, "relock")
    BY <1>2
  <2> QED
    BY <2>1, GoToTurns
<1>6. "relock" \in PCs \ {"enter", "wait"} /\ "relock" \notin {"lookup", "convert", "lock"}
      /\ Worse(mark[t], mk)
  BY <1>2 DEF PCs, Worse
<1>7. PICK was, will, g : /\ was = AtPc(old, i) /\ will = AtPc("relock", i)
                          /\ g = Held(mutex', t, i)
  OBVIOUS
<1>8. /\ h \in Nat /\ l \in Nat /\ Fits(h, l, TRUE, i \in Keepers, mark[t])
      /\ will = (IF i \in Keepers THEN 1 ELSE 0) /\ was = 0
  <2>1. h \in Nat /\ l \in Nat /\ Fits(h, l, old = "wait", i \in Keepers, mark[t])
    BY <1>1, TopLevels
  <2>2. Fits(h, l, TRUE, i \in Keepers, mark[t])
    BY <1>2, <2>1 DEF Fits
  <2>3. will = (IF i \in Keepers THEN 1 ELSE 0) /\ was = 0
    BY <1>2, <1>7, Weights
  <2> QED
    BY <2>1, <2>2, <2>3
<1>9. Fits(g, l - was + will, FALSE, i \in Keepers, mk)
  <2>1. CASE mutex' = mutex /\ mk = "refused"
    <3>1. g = h
      BY <1>1, <1>7, <2>1
    <3> QED
      BY <1>8, <2>1, <3>1 DEF Fits
  <2>2. CASE Gains(mutex, mutex', t, i) /\ mk = mark[t]
    <3>1. g = h + 1
      BY <1>1, <1>7, <2>2 DEF Gains
    <3> QED
      BY <1>8, <2>2, <3>1 DEF Fits
  <2>3. CASE Free(t, i) /\ mutex' = Locked(t, i) /\ mk = mark[t]
    BY <1>3, <2>2, <2>3, LockedGains
  <2> QED
    BY <1>2, <2>1, <2>3
<1>10. job' \in Jobs /\ mark' = [mark EXCEPT ![t] = mk]
  BY <1>2
<1> QED
  BY <1>1, <1>4, <1>5, <1>6, <1>7, <1>9, <1>10, AwakeKeeps

-----------------------------------------------------------------------------
(* Activations that begin and end. *)

\* From h levels held and l needed to g and n: as many, one more of each or one fewer.
Follows(h, l, g, n) ==
  \/ g = h /\ n = l
  \/ g = h + 1 /\ n = l + 1
  \/ n = l - 1 /\ n >= 0 /\ g = IF h = 0 THEN 0 ELSE h - 1

LEMMA FitsFollows ==
  ASSUME NEW h \in Nat, NEW l \in Nat, NEW g, NEW n, NEW keeper, NEW mk \in Marks,
         Follows(h, l, g, n), Fits(h, l, FALSE, keeper, mk)
  PROVE  Fits(g, n, FALSE, keeper, mk)
<1>1. CASE g = h /\ n = l
  BY <1>1
<1>2. CASE g = h + 1 /\ n = l + 1
  BY <1>2 DEF Fits
<1>3. CASE n = l - 1 /\ n >= 0 /\ g = IF h = 0 THEN 0 ELSE h - 1
  BY <1>3 DEF Fits, Marks
<1> QED
  BY <1>1, <1>2, <1>3 DEF Follows

\* A step of thread t to a stack s whose innermost activation does not sleep.
LEMMA FollowKeeps ==
  ASSUME IInv, NEW t \in Threads, NEW s, Top(t).pc # "wait",
         stack' = [stack EXCEPT ![t] = s], mark' = mark, job' \in Jobs,
         Owned(mutex'), Shape(s), Last(s).pc # "wait",
         \A u \in Threads \ {t}, i \in Interps : Held(mutex', u, i) = Held(mutex, u, i),
         \A i \in Interps :
           Follows(Held(mutex, t, i), Needed(stack[t], i), Held(mutex', t, i), Needed(s, i))
  PROVE  IInv'
<1>1. /\ stack[t] \in Seq(Frame) /\ Top(t) = Last(stack[t])
      /\ Balanced(mutex, t, stack[t], mark[t])
  BY TopFacts
<1>2. mark[t] \in Marks /\ mark' = [mark EXCEPT ![t] = mark[t]]
  BY DEF IInv
<1>3. ASSUME NEW i \in Interps
      PROVE  Fits(Held(mutex', t, i), Needed(s, i), Sleeps(Last(s), i), i \in Keepers, mark[t])
  <2>1. ~Sleeps(Last(stack[t]), i) /\ ~Sleeps(Last(s), i)
    BY <1>1 DEF Sleeps
  <2>2. PICK h, l, g, n : /\ h = Held(mutex, t, i) /\ l = Needed(stack[t], i)
                          /\ g = Held(mutex', t, i) /\ n = Needed(s, i)
    OBVIOUS
  <2>3. h \in Nat /\ l \in Nat
    BY <1>1, <2>2, HeldType, NeededType DEF IInv
  <2>4. Fits(h, l, FALSE, i \in Keepers, mark[t])
    BY <1>1, <2>1, <2>2 DEF Balanced, Fits
  <2>5. Follows(h, l, g, n)
    BY <2>2
  <2>6. Fits(g, n, FALSE, i \in Keepers, mark[t])
    BY <1>2, <2>3, <2>4, <2>5, FitsFollows
  <2> QED
    BY <2>1, <2>2, <2>6 DEF Fits
<1>4. Balanced(mutex', t, s, mark[t])
  BY <1>3 DEF Balanced
<1> QED
  BY <1>2, <1>4, StepKeeps

\* The thread may go one activation deeper.
Room(s) == Len(s) < MaxDepth

\* s with its innermost activation replaced by g, and f on top.
Pushed(s, g, f) == Append(Turned(s, g), f)

\* An activation f on top of one that is at "run" or "busy" from then on.
LEMMA PushedFacts ==
  ASSUME NEW s, Shape(s), Room(s), NEW g \in Frame, g.pc \in {"run", "busy"},
         NEW f \in Frame, f.pc \in {"run", "enter"}
  PROVE  /\ Shape(Pushed(s, g, f)) /\ Last(Pushed(s, g, f)) = f
         /\ \A i : Needed(Pushed(s, g, f), i)
                     = Needed(s, i) - Weight(Last(s), i) + Weight(g, i) + Weight(f, i)
<1>1. PICK n \in Nat \ {0} : n = Len(s)
  BY DEF Shape
<1>2. s \in Seq(Frame) /\ s # <<>> /\ n < MaxDepth /\ s[1].pc # "enter"
      /\ \A k \in 1..(n - 1) : s[k].pc \in {"run", "busy"}
  BY <1>1 DEF Shape, Room
<1>3. PICK r : r = Turned(s, g)
  OBVIOUS
<1>4. /\ r \in Seq(Frame) /\ Len(r) = n /\ Last(r) = g
      /\ \A k \in 1..(n - 1) : r[k] = s[k]
      /\ \A i : Needed(r, i) = Needed(s, i) - Weight(Last(s), i) + Weight(g, i)
  <2>1. /\ Turned(s, g) \in Seq(Frame) /\ Len(Turned(s, g)) = Len(s) /\ Last(Turned(s, g)) = g
        /\ \A k \in 1..(Len(s) - 1) : Turned(s, g)[k] = s[k]
        /\ \A i : Needed(Turned(s, g), i) = Needed(s, i) - Weight(Last(s), i) + Weight(g, i)
    <3>1. s \in Seq(Frame) /\ s # <<>> /\ g \in Frame
      BY <1>2
    <3> QED
      BY <3>1, TurnedFacts
  <2> QED
    BY <1>1, <1>3, <2>1
<1>5. \A k \in 1..n : r[k].pc \in {"run", "busy"}
  <2>1. \A k \in 1..n : k \in 1..(n - 1) \/ k = n
    BY <1>1
  <2>2. r[n] = g
    BY <1>4 DEF Last
  <2> QED
    BY <1>2, <1>4, <2>1, <2>2
<1>6. PICK q : q = Append(r, f)
  OBVIOUS
<1>7. /\ q \in Seq(Frame) /\ Len(q) = n + 1 /\ q[n + 1] = f
      /\ \A k \in 1..n : q[k] = r[k]
  BY <1>4, <1>6, AppendProperties
<1>8. Last(q) = f
  BY <1>7 DEF Last
<1>9. Shape(q)
  <2>1. Len(q) \in 1..MaxDepth /\ Len(q) - 1 = n /\ 1 \in 1..n
    BY <1>1, <1>2, <1>7
  <2>2. q[1].pc # "enter"
    BY <1>5, <1>7, <2>1
  <2>3. \A k \in 1..(Len(q) - 1) : q[k].pc \in {"run", "busy"}
    BY <1>5, <1>7, <2>1
  <2> QED
    BY <1>7, <1>8, <2>1, <2>2, <2>3 DEF Shape
<1>10. \A i : Needed(q, i) = Needed(r, i) + Weight(f, i)
  BY <1>4, <1>6, NeededAppend
<1>11. q = Pushed(s, g, f)
  BY <1>3, <1>6 DEF Pushed
<1> QED
  BY <1>4, <1>8, <1>9, <1>10, <1>11

\* There is an activation below the innermost.
Deep(s) == Len(s) > 1

\* s without its innermost activation: the operation that started it goes on.
Popped(s, to) ==
  LET c == Last(Below(s))
  IN IF c.pc # "busy" THEN Below(s) ELSE Turned(Below(s), [c EXCEPT !.pc = "relock", !.to = to])

\* The innermost activation returns to one that goes on, or that was never away.
LEMMA PoppedFacts ==
  ASSUME NEW s, Shape(s), Deep(s), NEW to \in Interps \cup {None}
  PROVE  /\ Shape(Popped(s, to)) /\ Last(Popped(s, to)).pc # "wait"
         /\ \A i : /\ Needed(Popped(s, to), i) \in Nat
                   /\ Needed(s, i) = Needed(Popped(s, to), i) + Weight(Last(s), i)
<1>0. PICK r, c : r = Popped(s, to) /\ c = Last(Below(s))
  OBVIOUS
<1>1. PICK n \in Nat \ {0} : n = Len(s) - 1
  <2>1. Len(s) \in 1..MaxDepth /\ Len(s) > 1
    BY DEF Shape, Deep
  <2> QED
    BY <2>1
<1>2. /\ s \in Seq(Frame) /\ s # <<>> /\ Len(s) = n + 1 /\ Len(s) \in 1..MaxDepth
      /\ s[1].pc # "enter" /\ \A k \in 1..n : s[k].pc \in {"run", "busy"}
  BY <1>1 DEF Shape
<1>3. PICK b : b = Below(s)
  OBVIOUS
<1>4. /\ b \in Seq(Frame) /\ Len(b) = n /\ \A k \in 1..n : b[k] = s[k]
      /\ \A i : Needed(s, i) = Needed(b, i) + Weight(Last(s), i)
  BY <1>1, <1>2, <1>3, BelowFacts, NeededBelow
<1>5. n \in 1..n /\ 1 \in 1..n /\ n \in 1..MaxDepth
      /\ \A k \in 1..(n - 1) : k \in 1..n
  BY <1>1, <1>2
<1>6. b # <<>> /\ c = b[n] /\ c \in Frame /\ c.pc \in {"run", "busy"} /\ b[1].pc # "enter"
  BY <1>0, <1>2, <1>3, <1>4, <1>5 DEF Last
<1>7. CASE c.pc # "busy"
  <2>1. r = b /\ Last(b) = c
    BY <1>0, <1>3, <1>4, <1>6, <1>7 DEF Last, Popped
  <2>2. Shape(b)
    BY <1>2, <1>4, <1>5, <1>6, <1>7, <2>1 DEF Shape
  <2> QED
    BY <1>0, <1>4, <1>6, <2>1, <2>2, NeededType
<1>8. CASE c.pc = "busy"
  <2>1. PICK g : g = [c EXCEPT !.pc = "relock", !.to = to]
    OBVIOUS
  <2>2. g \in Frame /\ g.pc = "relock" /\ g.at = c.at
    BY <1>6, <2>1 DEF Frame, PCs
  <2>3. r = Turned(b, g)
    BY <1>0, <1>3, <1>8, <2>1 DEF Popped
  <2>4. /\ r \in Seq(Frame) /\ Len(r) = n /\ Last(r) = g /\ Last(b) = c
        /\ \A k \in 1..(n - 1) : r[k] = b[k]
        /\ \A i : Needed(r, i) = Needed(b, i) - Weight(c, i) + Weight(g, i)
    <3>1. /\ Turned(b, g) \in Seq(Frame) /\ Len(Turned(b, g)) = Len(b)
          /\ Last(Turned(b, g)) = g /\ \A k \in 1..(Len(b) - 1) : Turned(b, g)[k] = b[k]
          /\ \A i : Needed(Turned(b, g), i) = Needed(b, i) - Weight(Last(b), i) + Weight(g, i)
      BY <1>4, <1>6, <2>2, TurnedFacts
    <3>2. Last(b) = c
      BY <1>4, <1>6 DEF Last
    <3> QED
      BY <1>4, <2>3, <3>1, <3>2
  <2>5. \A i : Weight(g, i) = Weight(c, i) /\ Weight(c, i) \in {0, 1}
    BY <1>8, <2>2 DEF Weight, Needs, Holding, Away
  <2>6. \A i : Needed(r, i) = Needed(b, i) /\ Needed(r, i) \in Nat
    <3> TAKE i
    <3>1. Needed(b, i) \in Nat
      BY <1>4, NeededType
    <3>2. PICK x, y : x = Needed(b, i) /\ y = Weight(c, i)
      OBVIOUS
    <3>3. Needed(r, i) = x - y + y
      BY <2>4, <2>5, <3>2
    <3>4. x \in Nat /\ y \in {0, 1}
      BY <2>5, <3>1, <3>2
    <3> QED
      BY <3>2, <3>3, <3>4
  <2>7. r[1].pc # "enter"
    <3>1. CASE n = 1
      BY <2>2, <2>4, <3>1 DEF Last
    <3>2. CASE n # 1
      <4>1. 1 \in 1..(n - 1)
        BY <1>5, <3>2, TwoOrMore
      <4> QED
        BY <1>6, <2>4, <4>1
    <3> QED
      BY <3>1, <3>2
  <2>8. Shape(r)
    <3>1. /\ r \in Seq(Frame) /\ Len(r) \in 1..MaxDepth
          /\ \A k \in 1..(Len(r) - 1) : r[k].pc \in {"run", "busy"}
      BY <1>2, <1>4, <1>5, <2>4
    <3>2. Last(r).pc \notin {"lookup", "convert", "lock"}
      BY <2>2, <2>4
    <3> QED
      BY <2>7, <3>1, <3>2 DEF Shape
  <2> QED
    BY <1>0, <1>4, <2>2, <2>4, <2>6, <2>8
<1> QED
  BY <1>0, <1>7, <1>8

\* An evaluation that is about to begin: it needs no level until it has entered.
LEMMA StartingKeeps ==
  ASSUME IInv, NEW t \in Threads, Nested(t) \/ Serve(t), mark' = mark
  PROVE  IInv'
<1>0. PICK i : i = Top(t).at
  OBVIOUS
<1>1. PICK u \in Threads \cup {None} :
        /\ i = Top(t).at /\ Top(t).pc = "run" /\ Len(stack[t]) < MaxDepth
        /\ stack' = [stack EXCEPT ![t] =
             Append(Turned(@, [Top(t) EXCEPT !.pc = "run", !.to = None]),
                    Activation(i, "eval", "enter", u))]
        /\ mutex' = mutex /\ job' \in Jobs
  <2>1. CASE Nested(t)
    BY <1>0, <2>1 DEF Nested, Push, At, IInv
  <2>2. CASE Serve(t)
    <3>1. PICK u \in Threads :
            /\ Push(t, "run", None, Activation(Top(t).at, "eval", "enter", u))
            /\ job' = [job EXCEPT ![u] = "running"]
      BY <2>2 DEF Serve
    <3>2. job' \in Jobs
      BY <3>1 DEF IInv, Jobs
    <3> QED
      BY <1>0, <2>2, <3>1, <3>2 DEF Serve, Push, At
  <2> QED
    BY <2>1, <2>2
<1>2. /\ i \in Interps /\ Top(t) \in Frame /\ Top(t) = Last(stack[t]) /\ Shape(stack[t])
      /\ stack[t] \in Seq(Frame) /\ Owned(mutex)
  BY <1>1, TopFacts DEF IInv
<1>3. PICK f, g, s : /\ f = Activation(i, "eval", "enter", u)
                     /\ g = [Top(t) EXCEPT !.pc = "run", !.to = None]
                     /\ s = Append(Turned(stack[t], g), f)
  OBVIOUS
<1>4. f \in Frame /\ f.pc = "enter" /\ f.at = i
  BY <1>2, <1>3 DEF Frame, Activation, PCs
<1>5. g \in Frame /\ g.pc = "run" /\ g.at = i
  BY <1>1, <1>2, <1>3 DEF Frame, PCs
<1>6. /\ Shape(s) /\ Last(s) = f
      /\ \A j : Needed(s, j) = Needed(stack[t], j) - Weight(Last(stack[t]), j)
                                 + Weight(g, j) + Weight(f, j)
  <2>1. Shape(stack[t])
    BY <1>1, <1>2, <1>3
  <2>2. Room(stack[t])
    BY <1>1, <1>2, <1>3 DEF Room
  <2>3. g \in Frame /\ f \in Frame
    BY <1>1, <1>2, <1>3, <1>4, <1>5
  <2>4. g.pc \in {"run", "busy"}
    BY <1>1, <1>2, <1>3, <1>4, <1>5
  <2>5. f.pc \in {"run", "enter"}
    BY <1>1, <1>2, <1>3, <1>4, <1>5
  <2>6. s = Pushed(stack[t], g, f)
    BY <1>1, <1>2, <1>3, <1>4, <1>5 DEF Pushed
  <2> QED
    BY <2>1, <2>2, <2>3, <2>4, <2>5, <2>6, PushedFacts
<1>7. ASSUME NEW j \in Interps
      PROVE  Follows(Held(mutex, t, j), Needed(stack[t], j), Held(mutex', t, j), Needed(s, j))
  <2>1. /\ Weight(f, j) = 0 /\ Weight(g, j) = Weight(Last(stack[t]), j)
        /\ Weight(g, j) \in {0, 1}
    BY <1>1, <1>2, <1>4, <1>5 DEF Weight, Needs, Holding, Away
  <2>2. PICK w, n : w = Weight(g, j) /\ n = Needed(stack[t], j)
    OBVIOUS
  <2>3. w \in {0, 1} /\ n \in Nat /\ Needed(s, j) = n - w + w + 0
    BY <1>2, <1>6, <2>1, <2>2, NeededType
  <2>4. Needed(s, j) = n
    BY <2>3
  <2>5. Held(mutex', t, j) = Held(mutex, t, j)
    BY <1>1
  <2> QED
    BY <2>2, <2>4, <2>5 DEF Follows
<1>8. stack' = [stack EXCEPT ![t] = s]
  BY <1>1, <1>3
<1>9. Owned(mutex') /\ \A v \in Threads \ {t}, j \in Interps : Held(mutex', v, j) = Held(mutex, v, j)
  BY <1>1, <1>2
<1> QED
  BY <1>1, <1>4, <1>6, <1>7, <1>8, <1>9, FollowKeeps

\* A function of the other interp: the caller is away, and its thread takes a level there.
LEMMA EnteringKeeps ==
  ASSUME IInv, NEW t \in Threads, EnterOther(t), mark' = mark
  PROVE  IInv'
<1>1. PICK i, to : i = Top(t).at /\ to = Top(t).to
  OBVIOUS
<1>2. /\ Top(t).pc = "lock" /\ Len(stack[t]) < MaxDepth /\ Free(t, to) /\ mutex' = Locked(t, to)
      /\ stack' = [stack EXCEPT ![t] =
           Append(Turned(@, [Top(t) EXCEPT !.pc = "busy", !.to = to]),
                  Activation(to, "func", "run", None))]
      /\ job' = job
  BY <1>1 DEF EnterOther, At, Push
<1>3. /\ i \in Interps /\ Top(t) \in Frame /\ Top(t) = Last(stack[t]) /\ Shape(stack[t])
      /\ stack[t] \in Seq(Frame) /\ Owned(mutex) /\ job' \in Jobs
  BY <1>1, <1>2, TopFacts DEF IInv
<1>4. to \in Interps
  BY <1>1, <1>2, <1>3 DEF Shape
<1>5. Gains(mutex, mutex', t, to)
  BY <1>2, <1>3, <1>4, LockedGains
<1>6. PICK f, g, s : /\ f = Activation(to, "func", "run", None)
                     /\ g = [Top(t) EXCEPT !.pc = "busy", !.to = to]
                     /\ s = Append(Turned(stack[t], g), f)
  OBVIOUS
<1>7. f \in Frame /\ f.pc = "run" /\ f.at = to
  BY <1>4, <1>6 DEF Frame, Activation, PCs
<1>8. g \in Frame /\ g.pc = "busy" /\ g.at = i
  BY <1>1, <1>3, <1>4, <1>6 DEF Frame, PCs
<1>9. /\ Shape(s) /\ Last(s) = f
      /\ \A j : Needed(s, j) = Needed(stack[t], j) - Weight(Last(stack[t]), j)
                                 + Weight(g, j) + Weight(f, j)
  <2>1. Shape(stack[t])
    BY <1>1, <1>2, <1>3
  <2>2. Room(stack[t])
    BY <1>1, <1>2, <1>3 DEF Room
  <2>3. g \in Frame /\ f \in Frame
    BY <1>2, <1>3, <1>6, <1>7, <1>8
  <2>4. g.pc \in {"run", "busy"}
    BY <1>2, <1>3, <1>6, <1>7, <1>8
  <2>5. f.pc \in {"run", "enter"}
    BY <1>2, <1>3, <1>6, <1>7, <1>8
  <2>6. s = Pushed(stack[t], g, f)
    BY <1>2, <1>3, <1>6, <1>7, <1>8 DEF Pushed
  <2> QED
    BY <2>1, <2>2, <2>3, <2>4, <2>5, <2>6, PushedFacts
<1>10. ASSUME NEW j \in Interps
       PROVE  Follows(Held(mutex, t, j), Needed(stack[t], j), Held(mutex', t, j), Needed(s, j))
  <2>1. /\ Weight(f, j) = (IF j = to THEN 1 ELSE 0)
        /\ Weight(g, j) = Weight(Last(stack[t]), j) /\ Weight(g, j) \in {0, 1}
    BY <1>1, <1>2, <1>3, <1>7, <1>8 DEF Weight, Needs, Holding, Away
  <2>2. PICK w, n, h : w = Weight(g, j) /\ n = Needed(stack[t], j) /\ h = Held(mutex, t, j)
    OBVIOUS
  <2>3. w \in {0, 1} /\ n \in Nat /\ Needed(s, j) = n - w + w + (IF j = to THEN 1 ELSE 0)
    BY <1>3, <1>9, <2>1, <2>2, NeededType
  <2>4. Needed(s, j) = n + (IF j = to THEN 1 ELSE 0)
    BY <2>3
  <2>5. Held(mutex', t, j) = IF j = to THEN h + 1 ELSE h
    BY <1>5, <2>2 DEF Gains
  <2> QED
    BY <2>2, <2>3, <2>4, <2>5 DEF Follows
<1>11. stack' = [stack EXCEPT ![t] = s]
  BY <1>2, <1>6
<1>12. Owned(mutex') /\ \A v \in Threads \ {t}, j \in Interps : Held(mutex', v, j) = Held(mutex, v, j)
  BY <1>5 DEF Gains
<1> QED
  BY <1>2, <1>3, <1>7, <1>9, <1>10, <1>11, <1>12, FollowKeeps

\* An eval in a child of the same thread: the caller gives its level up and is away.
LEMMA EvalKeeps ==
  ASSUME IInv, NEW t \in Threads, EvalSameThread(t), mark' = mark
  PROVE  IInv'
<1>1. PICK i : i = Top(t).at
  OBVIOUS
<1>2. PICK to \in Subs :
      /\ Top(t).pc = "run" /\ Len(stack[t]) < MaxDepth /\ mutex' = GiveUp(t, i)
      /\ stack' = [stack EXCEPT ![t] =
           Append(Turned(@, [Top(t) EXCEPT !.pc = "busy", !.to = to]),
                  Activation(to, "eval", "enter", None))]
      /\ job' = job
  BY <1>1 DEF EvalSameThread, Does, At, Push, Children
<1>3. /\ i \in Interps /\ Top(t) \in Frame /\ Top(t) = Last(stack[t]) /\ Shape(stack[t])
      /\ stack[t] \in Seq(Frame) /\ Owned(mutex) /\ job' \in Jobs /\ to \in Interps
  BY <1>1, <1>2, TopFacts DEF IInv, Interps
<1>4. PICK f, g, s : /\ f = Activation(to, "eval", "enter", None)
                     /\ g = [Top(t) EXCEPT !.pc = "busy", !.to = to]
                     /\ s = Append(Turned(stack[t], g), f)
  OBVIOUS
<1>5. f \in Frame /\ f.pc = "enter" /\ f.at = to
  BY <1>3, <1>4 DEF Frame, Activation, PCs
<1>6. g \in Frame /\ g.pc = "busy" /\ g.at = i
  BY <1>1, <1>3, <1>4 DEF Frame, PCs
<1>7. /\ Shape(s) /\ Last(s) = f
      /\ \A j : Needed(s, j) = Needed(stack[t], j) - Weight(Last(stack[t]), j)
                                 + Weight(g, j) + Weight(f, j)
  <2>1. Shape(stack[t])
    BY <1>1, <1>2, <1>3
  <2>2. Room(stack[t])
    BY <1>1, <1>2, <1>3 DEF Room
  <2>3. g \in Frame /\ f \in Frame
    BY <1>2, <1>3, <1>4, <1>5, <1>6
  <2>4. g.pc \in {"run", "busy"}
    BY <1>2, <1>3, <1>4, <1>5, <1>6
  <2>5. f.pc \in {"run", "enter"}
    BY <1>2, <1>3, <1>4, <1>5, <1>6
  <2>6. s = Pushed(stack[t], g, f)
    BY <1>2, <1>3, <1>4, <1>5, <1>6 DEF Pushed
  <2> QED
    BY <2>1, <2>2, <2>3, <2>4, <2>5, <2>6, PushedFacts
<1>8. IF i \in Keepers THEN mutex' = mutex ELSE Loses(mutex, mutex', t, i)
  BY <1>2, <1>3, GiveUpLoses
<1>9. ASSUME NEW j \in Interps
      PROVE  Follows(Held(mutex, t, j), Needed(stack[t], j), Held(mutex', t, j), Needed(s, j))
  <2>1. /\ Weight(f, j) = 0
        /\ Weight(Last(stack[t]), j) = (IF j = i THEN 1 ELSE 0)
        /\ Weight(g, j) = (IF j = i /\ i \in Keepers THEN 1 ELSE 0)
    BY <1>1, <1>2, <1>3, <1>5, <1>6 DEF Weight, Needs, Holding, Away
  <2>2. PICK n, h : n = Needed(stack[t], j) /\ h = Held(mutex, t, j)
    OBVIOUS
  <2>3. n \in Nat /\ n >= Weight(Last(stack[t]), j)
    <3>1. n = Needed(Below(stack[t]), j) + Weight(Last(stack[t]), j)
      BY <1>3, <2>2, TopFacts, NeededBelow
    <3>2. Needed(Below(stack[t]), j) \in Nat
      BY TopFacts, BelowFacts, NeededType
    <3> QED
      BY <2>1, <3>1, <3>2
  <2>4. CASE j = i /\ i \notin Keepers
    <3>1. Needed(s, j) = n - 1 + 0 + 0 /\ n >= 1
      BY <1>7, <2>1, <2>2, <2>3, <2>4
    <3>2. Held(mutex', t, j) = IF h = 0 THEN 0 ELSE h - 1
      BY <1>8, <2>2, <2>4 DEF Loses
    <3> QED
      BY <2>2, <2>3, <3>1, <3>2 DEF Follows
  <2>5. CASE ~(j = i /\ i \notin Keepers)
    <3>1. Needed(s, j) = n
      <4>1. CASE j = i
        <5>1. Needed(s, j) = n - 1 + 1 + 0
          BY <1>7, <2>1, <2>2, <2>5, <4>1
        <5> QED
          BY <2>3, <5>1
      <4>2. CASE j # i
        <5>1. Needed(s, j) = n - 0 + 0 + 0
          BY <1>7, <2>1, <2>2, <4>2
        <5> QED
          BY <2>3, <5>1
      <4> QED
        BY <4>1, <4>2
    <3>2. Held(mutex', t, j) = h
      BY <1>8, <2>2, <2>5 DEF Loses
    <3> QED
      BY <2>2, <3>1, <3>2 DEF Follows
  <2> QED
    BY <2>4, <2>5
<1>10. stack' = [stack EXCEPT ![t] = s]
  BY <1>2, <1>4
<1>11. Owned(mutex') /\ \A v \in Threads \ {t}, j \in Interps : Held(mutex', v, j) = Held(mutex, v, j)
  BY <1>3, <1>8 DEF Loses
<1> QED
  BY <1>2, <1>3, <1>5, <1>7, <1>9, <1>10, <1>11, FollowKeeps

\* What the innermost activation returns to.
LEMMA PopsTo ==
  ASSUME IInv, NEW t \in Threads, Pop(t), Len(stack[t]) > 1
  PROVE  \E to \in Interps \cup {None} : stack' = [stack EXCEPT ![t] = Popped(stack[t], to)]
<1>1. stack[t] \in Seq(Frame) /\ stack[t] # <<>>
  BY TopFacts
<1>2. PICK b, c : b = Below(stack[t]) /\ c = Last(Below(stack[t]))
  OBVIOUS
<1>3. c \in Frame
  <2>1. b \in Seq(Frame) /\ Len(b) = Len(stack[t]) - 1 /\ Len(stack[t]) \in Nat
    BY <1>1, <1>2, BelowFacts
  <2>2. b # <<>>
    BY <2>1
  <2> QED
    BY <1>2, <2>1, <2>2, BelowFacts
<1>4. PICK call : call = (Top(t).kind = "func" /\ Top(t).at \in Children(c.at))
  OBVIOUS
<1>5. stack' = [stack EXCEPT ![t] =
        IF c.pc # "busy" THEN b
        ELSE Turned(b, [c EXCEPT !.pc = "relock", !.to = IF call THEN None ELSE c.to])]
  BY <1>2, <1>4 DEF Pop, Below, Last
<1>6. PICK to \in Interps \cup {None} : to = IF call THEN None ELSE c.to
  BY <1>3 DEF Frame
<1>7. Popped(stack[t], to) = IF c.pc # "busy" THEN b
                             ELSE Turned(b, [c EXCEPT !.pc = "relock", !.to = to])
  BY <1>2 DEF Popped
<1> QED
  BY <1>5, <1>6, <1>7

LEMMA PopShape ==
  ASSUME IInv, NEW t \in Threads, Pop(t), Len(stack[t]) > 1
  PROVE  /\ job' \in Jobs
         /\ \E s : /\ stack' = [stack EXCEPT ![t] = s] /\ Shape(s) /\ Last(s).pc # "wait"
                   /\ \A i : /\ Needed(s, i) \in Nat
                             /\ Needed(stack[t], i) = Needed(s, i) + Weight(Top(t), i)
<1>1. /\ stack[t] \in Seq(Frame) /\ stack[t] # <<>> /\ Top(t) = Last(stack[t])
      /\ Top(t) \in Frame /\ Shape(stack[t])
  BY TopFacts
<1>2. job' \in Jobs
  <2>1. Top(t).serves \in Threads \cup {None} /\ job \in Jobs
    BY <1>1 DEF Frame, IInv
  <2>2. job' = IF Top(t).serves = None THEN job ELSE [job EXCEPT ![Top(t).serves] = "done"]
    BY DEF Pop
  <2> QED
    BY <2>1, <2>2 DEF Jobs
<1>5. PICK to \in Interps \cup {None} : stack' = [stack EXCEPT ![t] = Popped(stack[t], to)]
  BY PopsTo
<1>6. PICK s : s = Popped(stack[t], to)
  OBVIOUS
<1>7. /\ Shape(s) /\ Last(s).pc # "wait"
      /\ \A i : /\ Needed(s, i) \in Nat
                /\ Needed(stack[t], i) = Needed(s, i) + Weight(Last(stack[t]), i)
  <2>1. Deep(stack[t]) /\ Shape(stack[t])
    BY <1>1 DEF Deep
  <2> QED
    BY <1>6, <2>1, PoppedFacts
<1> QED
  BY <1>1, <1>2, <1>5, <1>6, <1>7

LEMMA MoreThanOne == \A n \in 1..MaxDepth : n # 1 => n > 1
OBVIOUS

LEMMA EnterRefusedKeeps ==
  ASSUME IInv, NEW t \in Threads, EnterRefused(t), mark' = mark
  PROVE  IInv'
<1>1. Top(t).pc = "enter" /\ Pop(t) /\ mutex' = mutex
  BY DEF EnterRefused, At
<1>2. Len(stack[t]) > 1
  <2>1. Shape(stack[t]) /\ Top(t) = Last(stack[t])
    BY TopFacts
  <2>2. Len(stack[t]) \in 1..MaxDepth /\ stack[t][1].pc # "enter"
    BY <2>1 DEF Shape
  <2>3. Len(stack[t]) # 1
    BY <1>1, <2>1, <2>2 DEF Last
  <2> QED
    BY <2>2, <2>3, MoreThanOne
<1>3. job' \in Jobs
  BY <1>1, <1>2, PopShape
<1>4. PICK s : /\ stack' = [stack EXCEPT ![t] = s] /\ Shape(s) /\ Last(s).pc # "wait"
               /\ \A i : /\ Needed(s, i) \in Nat
                         /\ Needed(stack[t], i) = Needed(s, i) + Weight(Top(t), i)
  BY <1>1, <1>2, PopShape
<1>5. ASSUME NEW i \in Interps
      PROVE  Follows(Held(mutex, t, i), Needed(stack[t], i), Held(mutex', t, i), Needed(s, i))
  <2>1. Weight(Top(t), i) = 0
    BY <1>1 DEF Weight, Needs, Holding, Away
  <2>2. PICK n, l : n = Needed(s, i) /\ l = Needed(stack[t], i)
    OBVIOUS
  <2>3. n \in Nat /\ l = n + 0
    BY <1>4, <2>1, <2>2
  <2> QED
    BY <1>1, <2>2, <2>3 DEF Follows
<1>6. Owned(mutex') /\ \A u \in Threads \ {t}, i \in Interps : Held(mutex', u, i) = Held(mutex, u, i)
  BY <1>1 DEF IInv
<1> QED
  BY <1>1, <1>3, <1>4, <1>5, <1>6, FollowKeeps

LEMMA FinishKeeps ==
  ASSUME IInv, NEW t \in Threads, Finish(t), mark' = mark
  PROVE  IInv'
<1>1. PICK at : at = Top(t).at
  OBVIOUS
<1>2. Top(t).pc = "run" /\ Pop(t) /\ Len(stack[t]) > 1 /\ mutex' = Unlocked(t, at)
  BY <1>1 DEF Finish, FinishUnlocks, At
<1>3. job' \in Jobs /\ at \in Interps /\ Owned(mutex)
  BY <1>1, <1>2, PopShape, TopFacts DEF IInv
<1>4. PICK s : /\ stack' = [stack EXCEPT ![t] = s] /\ Shape(s) /\ Last(s).pc # "wait"
               /\ \A i : /\ Needed(s, i) \in Nat
                         /\ Needed(stack[t], i) = Needed(s, i) + Weight(Top(t), i)
  BY <1>2, PopShape
<1>5. Loses(mutex, mutex', t, at)
  BY <1>2, <1>3, UnlockedLoses
<1>6. ASSUME NEW i \in Interps
      PROVE  Follows(Held(mutex, t, i), Needed(stack[t], i), Held(mutex', t, i), Needed(s, i))
  <2>1. Weight(Top(t), i) = IF i = at THEN 1 ELSE 0
    BY <1>1, <1>2 DEF Weight, Needs, Holding, Away
  <2>2. PICK n, l, h : n = Needed(s, i) /\ l = Needed(stack[t], i) /\ h = Held(mutex, t, i)
    OBVIOUS
  <2>3. n \in Nat /\ l = n + (IF i = at THEN 1 ELSE 0)
    BY <1>4, <2>1, <2>2
  <2>4. Held(mutex', t, i) = IF i = at THEN (IF h = 0 THEN 0 ELSE h - 1) ELSE h
    BY <1>5, <2>2 DEF Loses
  <2> QED
    BY <2>2, <2>3, <2>4 DEF Follows
<1>7. Owned(mutex') /\ \A u \in Threads \ {t}, i \in Interps : Held(mutex', u, i) = Held(mutex, u, i)
  BY <1>5 DEF Loses
<1> QED
  BY <1>2, <1>3, <1>4, <1>6, <1>7, FollowKeeps

-----------------------------------------------------------------------------
(* The invariant. *)

LEMMA NextIInv == IInv /\ [Next]_vars => IInv'
<1> SUFFICES ASSUME IInv, [Next]_vars PROVE IInv'
  OBVIOUS
<1>1. CASE UNCHANGED vars
  <2>1. IInv' = IInv
    BY <1>1 DEF vars, IInv
  <2> QED
    BY <2>1
<1>2. ASSUME NEW t \in Threads, Inside(t), mark' = mark PROVE IInv'
  BY <1>2, StartingKeeps, TakingKeeps, EnterRefusedKeeps, FinishKeeps, GivingKeeps DEF Inside
<1>3. ASSUME NEW t \in Threads, Across(t), mark' = mark PROVE IInv'
  BY <1>3, WalkingKeeps, GivingKeeps, EnteringKeeps, TakingKeeps DEF Across
<1>4. ASSUME NEW t \in Threads, Evals(t), mark' = mark PROVE IInv'
  BY <1>4, EvalKeeps, GivingKeeps, LastSleepKeeps, WalkingKeeps DEF Evals
<1>5. ASSUME NEW t \in Threads, FirstSleep(t),
             mark' = [mark EXCEPT ![t] = IF @ = "even" THEN "waited" ELSE @]
      PROVE  IInv'
  <2>1. PICK mk : mk = IF mark[t] = "even" THEN "waited" ELSE mark[t]
    OBVIOUS
  <2>2. mark' = [mark EXCEPT ![t] = mk]
    BY <1>5, <2>1
  <2> QED
    BY <1>5, <2>1, <2>2, FirstSleepKeeps
<1>6. ASSUME NEW t \in Threads, LevelLost(t), mark' = [mark EXCEPT ![t] = "refused"]
      PROVE  IInv'
  BY <1>6, LosingKeeps, PostRefusedKeeps, LastSleepKeeps DEF LevelLost
<1>7. CASE Next
  BY <1>2, <1>3, <1>4, <1>5, <1>6, <1>7 DEF Next
<1> QED
  BY <1>1, <1>7

THEOREM Inductive == Spec => []IInv
BY InitIInv, NextIInv, PTL DEF Spec

LEMMA LevelsNeeded ==
  ASSUME IInv, NEW t \in Threads, NEW i
  PROVE  Levels(t, i) = Needed(stack[t], i)
<1>1. DOMAIN stack[t] = 1..Len(stack[t])
  BY TopFacts
<1> QED
  BY <1>1 DEF Levels, Needed

LEMMA InvTypeOK == IInv => TypeOK
<1> SUFFICES ASSUME IInv PROVE TypeOK
  OBVIOUS
<1>1. \A t \in Threads : stack[t] \in Seq(Frame) /\ Len(stack[t]) \in 1..MaxDepth
  BY DEF IInv, Shape
<1>2. stack \in [Threads -> Seq(Frame)]
  BY <1>1 DEF IInv
<1>3. mutex \in Mutexes /\ \A i \in Interps : (mutex[i].owner = None) <=> (mutex[i].level = 0)
  BY DEF IInv, Owned
<1> QED
  BY <1>1, <1>2, <1>3 DEF TypeOK, IInv, Mutexes, Jobs, Marks

LEMMA InvRunsOwned == IInv => RunsOwned
<1> SUFFICES ASSUME IInv, NEW t \in Threads, At(t, "run"), mark[t] # "refused"
             PROVE  mutex[Top(t).at].owner = t
  BY DEF RunsOwned
<1>1. PICK i, h, l : i = Top(t).at /\ h = Held(mutex, t, i) /\ l = Needed(stack[t], i)
  OBVIOUS
<1>2. h \in Nat /\ l \in Nat /\ l >= AtPc(Top(t).pc, i)
      /\ Fits(h, l, Top(t).pc = "wait", i \in Keepers, mark[t])
  BY <1>1, TopLevels
<1>3. Top(t).pc = "run" /\ AtPc(Top(t).pc, i) = 1 /\ mark[t] \in {"even", "waited"}
  BY Weights DEF At, IInv, Marks
<1>4. h # 0
  BY <1>2, <1>3 DEF Fits
<1> QED
  BY <1>1, <1>4 DEF Held

LEMMA InvLevels == IInv => LevelsBalanced /\ OneLevelKept
<1> SUFFICES ASSUME IInv, NEW i \in Interps, NEW t \in Threads
             PROVE  /\ mark[t] = "even" =>
                         Levels(t, i) = IF mutex[i].owner = t THEN mutex[i].level ELSE 0
                    /\ mutex[i].owner = t => mutex[i].level <= Levels(t, i) + 1
  BY DEF LevelsBalanced, OneLevelKept
<1>1. PICK h, l : h = Held(mutex, t, i) /\ l = Needed(stack[t], i)
  OBVIOUS
<1>2. h \in Nat /\ l \in Nat
  BY <1>1, HeldType, TopFacts, NeededType DEF IInv
<1>3. Fits(h, l, Sleeps(Last(stack[t]), i), i \in Keepers, mark[t])
  BY <1>1, TopFacts DEF Balanced
<1>4. /\ mark[t] = "even" => h = l
      /\ h <= l + 1
  BY <1>2, <1>3 DEF Fits
<1>5. Levels(t, i) = l
  BY <1>1, LevelsNeeded
<1>6. /\ mutex[i].owner = t => h = mutex[i].level
      /\ mutex[i].owner # t => h = 0
  BY <1>1 DEF Held
<1> QED
  BY <1>4, <1>5, <1>6

\* The state keeps its types, and a mutex is owned exactly while its level is above 0.
THEOREM TypeCorrect == Spec => []TypeOK
BY Inductive, InvTypeOK, PTL

\* A thread that runs script code owns the mutex of its interp until a lock is refused to
\* it, holds as many levels as its activations need until an eval in another thread is
\* waited for, and never more than one in excess.
THEOREM LocksAreSound == Spec => []LocksSound
<1>1. IInv => LocksSound
  BY InvRunsOwned, InvLevels DEF LocksSound
<1> QED
  BY <1>1, Inductive, PTL
-----------------------------------------------------------------------------
(* No circle of waiting threads, where no evaluation is nested. *)

\* Scripts call into sub-interps, call aliases and sleep, to any depth; every interp gives
\* its mutex up, and waits for those of others as long as it takes.
Unnested == Ops \subseteq {"alias", "call", "sleep"} /\ Keepers = {} /\ ~LockTimed

\* Interps descend from each other: none is below itself.
Descends == \E height \in [Interps -> Nat] : \A s \in Subs : height[s] < height[Parent[s]]

\* A thread has left every interp it called from, and looks a name up in a child only.
Calm(s) ==
  /\ \A k \in 1..Len(s) : s[k].serves = None
  /\ \A k \in 1..(Len(s) - 1) : s[k].pc = "busy"
  /\ Last(s).pc \notin {"enter", "posted", "wait"}
  /\ Last(s).pc = "lookup" => Last(s).to \in Subs /\ Parent[Last(s).to] = Last(s).at

CInv ==
  /\ IInv
  /\ \A t \in Threads : job[t] = "none" /\ mark[t] = "even" /\ Calm(stack[t])

LEMMA CalmTurned ==
  ASSUME NEW s \in Seq(Frame), s # <<>>, Calm(s), NEW f \in Frame, f.serves = None,
         f.pc \notin {"enter", "posted", "wait"},
         f.pc = "lookup" => f.to \in Subs /\ Parent[f.to] = f.at
  PROVE  Calm(Turned(s, f))
<1>1. PICK r, n : r = Turned(s, f) /\ n = Len(s)
  OBVIOUS
<1>2. n \in Nat \ {0} /\ Len(r) = n /\ r[n] = f /\ \A k \in 1..(n - 1) : r[k] = s[k]
  <2>1. /\ Turned(s, f) \in Seq(Frame) /\ Len(Turned(s, f)) = Len(s) /\ Last(Turned(s, f)) = f
        /\ \A k \in 1..(Len(s) - 1) : Turned(s, f)[k] = s[k]
    BY TurnedFacts
  <2>2. n \in Nat \ {0}
    BY <1>1
  <2> QED
    BY <1>1, <2>1, <2>2 DEF Last
<1>3. \A k \in 1..n : k = n \/ k \in 1..(n - 1)
  BY <1>2
<1>4. /\ \A k \in 1..(n - 1) : s[k].pc = "busy" /\ s[k].serves = None
  <2>1. \A k \in 1..(n - 1) : k \in 1..n
    BY <1>2
  <2> QED
    BY <1>1, <2>1 DEF Calm
<1>5. Calm(r)
  BY <1>2, <1>3, <1>4 DEF Calm, Last
<1> QED
  BY <1>1, <1>5

LEMMA CalmPushed ==
  ASSUME NEW s \in Seq(Frame), s # <<>>, Calm(s), NEW g \in Frame, g.serves = None,
         g.pc = "busy", NEW f \in Frame, f.serves = None, f.pc = "run"
  PROVE  Calm(Pushed(s, g, f))
<1>1. PICK r, q, n : r = Turned(s, g) /\ q = Append(r, f) /\ n = Len(s)
  OBVIOUS
<1>2. r \in Seq(Frame) /\ n \in Nat \ {0} /\ Len(r) = n /\ r[n] = g
  <2>1. /\ Turned(s, g) \in Seq(Frame) /\ Len(Turned(s, g)) = Len(s) /\ Last(Turned(s, g)) = g
        /\ \A k \in 1..(Len(s) - 1) : Turned(s, g)[k] = s[k]
    BY TurnedFacts
  <2>2. n \in Nat \ {0}
    BY <1>1
  <2> QED
    BY <1>1, <2>1, <2>2 DEF Last
<1>3. Calm(r)
  BY <1>1, CalmTurned
<1>4. Len(q) = n + 1 /\ q[n + 1] = f /\ \A k \in 1..n : q[k] = r[k]
  BY <1>1, <1>2, AppendProperties
<1>5. \A k \in 1..n : r[k].pc = "busy" /\ r[k].serves = None
  <2>1. \A k \in 1..n : k = n \/ k \in 1..(n - 1)
    BY <1>2
  <2> QED
    BY <1>2, <1>3, <2>1 DEF Calm
<1>6. \A k \in 1..Len(q) : k = n + 1 \/ k \in 1..n
  BY <1>2, <1>4
<1>7. Len(q) - 1 = n /\ Last(q) = f
  BY <1>2, <1>4 DEF Last
<1>8. Calm(q)
  BY <1>4, <1>5, <1>6, <1>7 DEF Calm
<1> QED
  BY <1>1, <1>8 DEF Pushed

LEMMA CalmPopped ==
  ASSUME NEW s, Shape(s), Deep(s), Calm(s), NEW to \in Interps \cup {None}
  PROVE  Calm(Popped(s, to))
<1>1. PICK n \in Nat \ {0} : n = Len(s) - 1
  <2>1. Len(s) \in 1..MaxDepth /\ Len(s) > 1
    BY DEF Shape, Deep
  <2> QED
    BY <2>1
<1>2. s \in Seq(Frame) /\ s # <<>> /\ Len(s) = n + 1
  BY <1>1 DEF Shape
<1>3. PICK b, c : b = Below(s) /\ c = b[n]
  OBVIOUS
<1>4. b \in Seq(Frame) /\ Len(b) = n /\ \A k \in 1..n : b[k] = s[k]
  BY <1>1, <1>2, <1>3, BelowFacts
<1>5. \A k \in 1..n : b[k].pc = "busy" /\ b[k].serves = None
  <2>1. \A k \in 1..n : k \in 1..Len(s) /\ k \in 1..(Len(s) - 1)
    BY <1>1, <1>2
  <2> QED
    BY <1>4, <2>1 DEF Calm
<1>6. b # <<>> /\ n \in 1..n /\ c \in Frame /\ Last(b) = c
  BY <1>3, <1>4 DEF Last
<1>7. PICK g : g = [c EXCEPT !.pc = "relock", !.to = to]
  OBVIOUS
<1>8. g \in Frame /\ g.pc = "relock" /\ g.serves = None
  BY <1>3, <1>5, <1>6, <1>7 DEF Frame, PCs
<1>9. Popped(s, to) = Turned(b, g)
  BY <1>3, <1>5, <1>6, <1>7 DEF Popped
<1>10. PICK r : r = Turned(b, g)
  OBVIOUS
<1>11. Len(r) = n /\ r[n] = g /\ \A k \in 1..(n - 1) : r[k] = b[k]
  <2>1. /\ Turned(b, g) \in Seq(Frame) /\ Len(Turned(b, g)) = Len(b) /\ Last(Turned(b, g)) = g
        /\ \A k \in 1..(Len(b) - 1) : Turned(b, g)[k] = b[k]
    BY <1>4, <1>6, <1>8, TurnedFacts
  <2> QED
    BY <1>4, <1>10, <2>1 DEF Last
<1>12. \A k \in 1..n : (k = n \/ k \in 1..(n - 1)) /\ \A j \in 1..(n - 1) : j \in 1..n
  BY <1>1
<1>13. Calm(r)
  BY <1>5, <1>8, <1>11, <1>12 DEF Calm, Last
<1> QED
  BY <1>9, <1>10, <1>13

\* A step of thread t leaves the others as they are.
LEMMA CalmStep ==
  ASSUME CInv, NEW t \in Threads, NEW s, stack' = [stack EXCEPT ![t] = s], Calm(s),
         job' = job, mark' = mark, IInv'
  PROVE  CInv'
<1>1. DOMAIN stack = Threads
  BY DEF CInv, IInv
<1>2. \A u \in Threads : stack'[u] = IF u = t THEN s ELSE stack[u]
  BY <1>1
<1> QED
  BY <1>2 DEF CInv

\* The innermost activation goes on to pc.
LEMMA CalmTurn ==
  ASSUME CInv, NEW t \in Threads, NEW pc \in PCs \ {"enter", "posted", "wait"},
         NEW to \in Interps \cup {None},
         stack' = [stack EXCEPT ![t] = Turned(stack[t], [Top(t) EXCEPT !.pc = pc, !.to = to])],
         pc = "lookup" => to \in Subs /\ Parent[to] = Top(t).at,
         job' = job, mark' = mark, IInv'
  PROVE  CInv'
<1>1. PICK f : f = [Top(t) EXCEPT !.pc = pc, !.to = to]
  OBVIOUS
<1>2. /\ stack[t] \in Seq(Frame) /\ stack[t] # <<>> /\ Len(stack[t]) \in Nat \ {0}
      /\ Top(t) = Last(stack[t]) /\ Top(t) \in Frame /\ Calm(stack[t])
  BY TopFacts DEF CInv
<1>3. Top(t).serves = None
  <2>1. Len(stack[t]) \in 1..Len(stack[t])
    BY <1>2
  <2> QED
    BY <1>2, <2>1 DEF Calm, Last
<1>4. f \in Frame /\ f.pc = pc /\ f.to = to /\ f.at = Top(t).at /\ f.serves = None
  BY <1>1, <1>2, <1>3 DEF Frame
<1>5. Calm(Turned(stack[t], f))
  BY <1>2, <1>4, CalmTurned
<1> QED
  BY <1>1, <1>5, CalmStep

LEMMA CalmWalks ==
  ASSUME CInv, Unnested, IInv', NEW t \in Threads, job' = job, mark' = mark,
         \/ Sleep(t) \/ Wake(t) \/ Alias(t) \/ AliasRelease(t) \/ Call(t) \/ Lookup(t)
         \/ Relock(t) \/ Converted(t)
  PROVE  CInv'
<1>1. /\ IInv /\ Top(t).to \in Interps \cup {None}
      /\ \A s \in Subs : s \in Interps /\ Parent[s] \in Interps
  BY TopFacts DEF CInv, Frame, Interps
<1>2. CASE Sleep(t) \/ Wake(t) \/ AliasRelease(t) \/ Lookup(t) \/ Relock(t)
  <2>1. PICK pc \in {"sleep", "run", "lock", "convback"} : GoTo(t, pc)
    BY <1>2 DEF Sleep, Wake, AliasRelease, Lookup, Relock
  <2>2. PICK to \in Interps \cup {None} :
          stack' = [stack EXCEPT ![t] = Turned(stack[t], [Top(t) EXCEPT !.pc = pc, !.to = to])]
    BY <1>1, <2>1, GoToTurns
  <2>3. pc \in PCs \ {"enter", "posted", "wait"} /\ pc # "lookup"
    BY <2>1 DEF PCs
  <2> QED
    BY <2>2, <2>3, CalmTurn
<1>3. CASE Alias(t) \/ Call(t) \/ Converted(t)
  <2>1. PICK pc \in {"convert", "lookup", "run"}, to \in Interps \cup {None} :
          Pending(t, pc, to) /\ (pc = "lookup" => to \in Subs /\ Parent[to] = Top(t).at)
    <3>1. CASE Alias(t)
      BY <1>1, <3>1 DEF Alias
    <3>2. CASE Call(t)
      BY <1>1, <3>2 DEF Call, Children
    <3>3. CASE Converted(t)
      BY <3>3 DEF Converted
    <3> QED
      BY <1>3, <3>1, <3>2, <3>3
  <2>2. pc \in PCs \ {"enter", "posted", "wait"}
    BY <2>1 DEF PCs
  <2> QED
    BY <2>1, <2>2, CalmTurn DEF Pending
<1> QED
  BY <1>2, <1>3

LEMMA CalmEnters ==
  ASSUME CInv, IInv', NEW t \in Threads, EnterOther(t), mark' = mark
  PROVE  CInv'
<1>1. PICK i, to : i = Top(t).at /\ to = Top(t).to
  OBVIOUS
<1>2. /\ Top(t).pc = "lock"
      /\ stack' = [stack EXCEPT ![t] =
           Append(Turned(@, [Top(t) EXCEPT !.pc = "busy", !.to = to]),
                  Activation(to, "func", "run", None))]
      /\ job' = job
  BY <1>1 DEF EnterOther, At, Push
<1>3. /\ stack[t] \in Seq(Frame) /\ stack[t] # <<>> /\ Len(stack[t]) \in Nat \ {0}
      /\ Top(t) = Last(stack[t]) /\ Top(t) \in Frame /\ Calm(stack[t]) /\ Shape(stack[t])
  BY TopFacts DEF CInv
<1>4. to \in Interps
  BY <1>1, <1>2, <1>3 DEF Shape
<1>5. Top(t).serves = None
  <2>1. Len(stack[t]) \in 1..Len(stack[t])
    BY <1>3
  <2> QED
    BY <1>3, <2>1 DEF Calm, Last
<1>6. PICK f, g : /\ f = Activation(to, "func", "run", None)
                  /\ g = [Top(t) EXCEPT !.pc = "busy", !.to = to]
  OBVIOUS
<1>7. f \in Frame /\ f.pc = "run" /\ f.serves = None
  BY <1>4, <1>6 DEF Frame, Activation, PCs
<1>8. g \in Frame /\ g.pc = "busy" /\ g.serves = None
  BY <1>3, <1>4, <1>5, <1>6 DEF Frame, PCs
<1>9. Calm(Pushed(stack[t], g, f))
  BY <1>3, <1>7, <1>8, CalmPushed
<1>10. stack' = [stack EXCEPT ![t] = Pushed(stack[t], g, f)]
  BY <1>2, <1>6 DEF Pushed
<1> QED
  BY <1>2, <1>9, <1>10, CalmStep

LEMMA CalmFinishes ==
  ASSUME CInv, IInv', NEW t \in Threads, Finish(t), mark' = mark
  PROVE  CInv'
<1>1. /\ stack[t] \in Seq(Frame) /\ stack[t] # <<>> /\ Len(stack[t]) \in Nat \ {0}
      /\ Top(t) = Last(stack[t]) /\ Calm(stack[t]) /\ Shape(stack[t]) /\ IInv
  BY TopFacts DEF CInv
<1>2. Pop(t) /\ Deep(stack[t])
  BY DEF Finish, Deep
<1>3. job' = job
  <2>1. Len(stack[t]) \in 1..Len(stack[t])
    BY <1>1
  <2>2. Top(t).serves = None
    BY <1>1, <2>1 DEF Calm, Last
  <2> QED
    BY <1>2, <2>2 DEF Pop
<1>4. PICK to \in Interps \cup {None} : stack' = [stack EXCEPT ![t] = Popped(stack[t], to)]
  BY <1>1, <1>2, PopsTo DEF Deep
<1>5. Calm(Popped(stack[t], to))
  BY <1>1, <1>2, CalmPopped
<1> QED
  BY <1>3, <1>4, <1>5, CalmStep

LEMMA InitCalm == Init => CInv
<1> SUFFICES ASSUME Init PROVE CInv
  OBVIOUS
<1>1. ASSUME NEW t \in Threads PROVE Calm(stack[t])
  <2>1. PICK f : stack[t] = <<f>> /\ f.pc = "run" /\ f.serves = None
    BY DEF Init, Activation
  <2>2. Len(<<f>>) = 1 /\ Last(<<f>>) = f /\ \A k \in 1..1 : (<<f>>)[k] = f
    BY DEF Last
  <2> QED
    BY <2>1, <2>2 DEF Calm
<1> QED
  BY <1>1, InitIInv DEF CInv, Init

LEMMA NextCalm == Unnested /\ CInv /\ [Next]_vars => CInv'
<1> SUFFICES ASSUME Unnested, CInv, [Next]_vars PROVE CInv'
  OBVIOUS
<1>0. IInv'
  BY NextIInv DEF CInv
<1>1. CASE UNCHANGED vars
  BY <1>1 DEF vars, CInv, IInv
<1>2. ASSUME NEW t \in Threads
      PROVE  /\ Top(t).pc \notin {"enter", "posted", "wait"}
             /\ \A u \in Threads : job[u] # "asked"
  <2>1. Top(t) = Last(stack[t]) /\ Calm(stack[t])
    BY TopFacts DEF CInv
  <2> QED
    BY <2>1 DEF Calm, CInv
<1>3. ASSUME NEW t \in Threads
      PROVE  /\ ~Nested(t) /\ ~Serve(t) /\ ~Enter(t) /\ ~EnterRefused(t) /\ ~LookupRefused(t)
             /\ ~EnterOtherRefused(t) /\ ~Evals(t) /\ ~FirstSleep(t) /\ ~LevelLost(t)
  BY <1>2 DEF Unnested, Nested, Serve, Enter, EnterRefused, LookupRefused, EnterOtherRefused,
              Evals, EvalSameThread, EvalPost, LastSleep, NoSleep, FirstSleep, LevelLost,
              WakeRefused, RelockRefused, EvalPostRefused, LastSleepRefused, Refused, Does, At
<1>4. ASSUME NEW t \in Threads, Inside(t), mark' = mark PROVE CInv'
  <2>1. Finish(t) \/ ((Sleep(t) \/ Wake(t)) /\ job' = job)
    BY <1>3, <1>4 DEF Inside, Sleep, Wake
  <2> QED
    BY <1>0, <1>4, <2>1, CalmFinishes, CalmWalks
<1>5. ASSUME NEW t \in Threads, Across(t), mark' = mark PROVE CInv'
  <2>1. \/ EnterOther(t)
        \/ /\ Alias(t) \/ AliasRelease(t) \/ Call(t) \/ Lookup(t) \/ Relock(t) \/ Converted(t)
           /\ job' = job
    BY <1>3, <1>5 DEF Across, Alias, AliasRelease, Call, Lookup, Relock, Converted
  <2> QED
    BY <1>0, <1>5, <2>1, CalmEnters, CalmWalks
<1>6. CASE Next
  BY <1>3, <1>4, <1>5, <1>6 DEF Next
<1> QED
  BY <1>1, <1>6

\* Where nothing is nested, a thread owns no mutex but that of the interp its innermost
\* activation is of, while it runs code there or is about to leave it.
LEMMA OwnsOne ==
  ASSUME CInv, Keepers = {}, NEW t \in Threads, NEW i \in Interps, mutex[i].owner = t
  PROVE  Top(t).at = i /\ Top(t).pc \in Holding
<1>1. /\ stack[t] \in Seq(Frame) /\ stack[t] # <<>> /\ Top(t) = Last(stack[t])
      /\ Calm(stack[t]) /\ Balanced(mutex, t, stack[t], "even") /\ IInv /\ Owned(mutex)
  BY TopFacts DEF CInv, IInv
<1>2. Held(mutex, t, i) \in Nat /\ Held(mutex, t, i) # 0
  BY <1>1, HeldType
<1>3. Held(mutex, t, i) = Needed(stack[t], i)
  BY <1>1 DEF Balanced, Fits
<1>4. PICK k \in 1..Len(stack[t]) : Needs(stack[t][k], i)
  <2>1. Needed(stack[t], i) # 0
    BY <1>2, <1>3
  <2>2. {k \in 1..Len(stack[t]) : Needs(stack[t][k], i)} # {}
    BY <2>1, FS_EmptySet DEF Needed
  <2> QED
    BY <2>2
<1>5. stack[t][k].at = i /\ stack[t][k].pc \in Holding
  BY <1>4 DEF Needs
<1>6. k = Len(stack[t])
  <2>1. stack[t][k].pc # "busy"
    BY <1>5 DEF Holding
  <2>2. Len(stack[t]) \in Nat
    BY <1>1
  <2>3. k \notin 1..(Len(stack[t]) - 1)
    BY <1>1, <2>1 DEF Calm
  <2> QED
    BY <1>4, <2>2, <2>3
<1> QED
  BY <1>1, <1>5, <1>6 DEF Last

\* A thread that keeps another one waiting, and waits itself, looks a name up in a child.
LEMMA WaitsForLookup ==
  ASSUME CInv, Keepers = {}, NEW t \in Threads, NEW u \in BlockedOn(t), u \in Threads,
         BlockedOn(u) # {}
  PROVE  /\ Top(u).pc = "lookup"
         /\ Top(t).pc = "lookup" => Top(t).to = Top(u).at /\ Top(t).to \in Subs
                                    /\ Parent[Top(t).to] = Top(t).at
<1>1. /\ Calm(stack[t]) /\ Calm(stack[u]) /\ Top(t) = Last(stack[t]) /\ Top(u) = Last(stack[u])
      /\ Shape(stack[t]) /\ Top(t).at \in Interps
  BY TopFacts DEF CInv
<1>2. Top(t).pc \notin {"posted", "wait"} /\ Top(u).pc \notin {"posted", "wait"}
  BY <1>1 DEF Calm
<1>3. PICK i \in Interps :
        /\ mutex[i].owner = u
        /\ Top(t).pc = "lookup" => i = Top(t).to
  <2>1. CASE Top(t).pc \in {"enter", "sleep", "relock"}
    BY <1>1, <2>1 DEF BlockedOn, At
  <2>2. CASE Top(t).pc \in {"lookup", "lock"}
    <3>1. u = mutex[Top(t).to].owner /\ Top(t).to \in Interps
      BY <1>1, <2>2 DEF BlockedOn, At, Shape
    <3> QED
      BY <3>1
  <2>3. Top(t).pc \in {"enter", "sleep", "relock", "lookup", "lock"}
    BY <1>2 DEF BlockedOn, At
  <2> QED
    BY <2>1, <2>2, <2>3
<1>4. Top(u).at = i /\ Top(u).pc \in Holding
  BY <1>3, OwnsOne
<1>5. Top(u).pc = "lookup"
  BY <1>4 DEF BlockedOn, At, Holding
<1>6. Top(t).pc = "lookup" => Top(t).to \in Subs /\ Parent[Top(t).to] = Top(t).at
  BY <1>1 DEF Calm
<1> QED
  BY <1>3, <1>4, <1>5, <1>6

LEMMA CalmNoDeadlock == CInv /\ Unnested /\ Descends => NoDeadlock
<1> SUFFICES ASSUME CInv, Unnested, Descends, NEW D \in SUBSET Threads, Deadlocked(D)
             PROVE  FALSE
  BY DEF NoDeadlock
<1>1. PICK height \in [Interps -> Nat] : \A s \in Subs : height[s] < height[Parent[s]]
  BY DEF Descends
<1>2. Keepers = {} /\ D # {} /\ \A t \in D : t \in Threads /\ BlockedOn(t) \cap D # {}
  BY DEF Unnested, Deadlocked
<1> DEFINE Lookers == {t \in D : Top(t).pc = "lookup"}
           Heights == {height[Top(t).at] : t \in Lookers}
           R == OpToRel(<, Nat)
<1>3. \A t \in D : \E u \in Lookers : Top(t).pc = "lookup" => height[Top(u).at] < height[Top(t).at]
  <2> TAKE t \in D
  <2>1. PICK u \in D : u \in BlockedOn(t)
    BY <1>2
  <2>2. t \in Threads /\ u \in Threads /\ BlockedOn(u) # {}
    BY <1>2
  <2>3. /\ Top(u).pc = "lookup"
        /\ Top(t).pc = "lookup" => Top(t).to = Top(u).at /\ Top(t).to \in Subs
                                   /\ Parent[Top(t).to] = Top(t).at
    BY <1>2, <2>1, <2>2, WaitsForLookup
  <2> QED
    BY <1>1, <2>1, <2>3
<1>4. Heights # {} /\ Heights \subseteq Nat
  <2>1. \A t \in Lookers : height[Top(t).at] \in Nat
    BY TopFacts DEF CInv
  <2>2. PICK t \in Lookers : TRUE
    BY <1>2, <1>3
  <2> QED
    BY <2>1, <2>2
<1>5. PICK x \in Heights : \A y \in Heights : ~(<<y, x>> \in R)
  <2>1. IsWellFoundedOn(R, Nat)
    BY NatLessThanWellFounded
  <2> HIDE DEF R, Heights
  <2> QED
    BY <1>4, <2>1, WFMin
<1>6. PICK t \in Lookers : x = height[Top(t).at]
  BY <1>5
<1>7. PICK u \in Lookers : height[Top(u).at] < height[Top(t).at]
  BY <1>3, <1>6
<1>8. height[Top(u).at] \in Heights /\ height[Top(u).at] \in Nat /\ x \in Nat
  BY <1>4, <1>5, <1>7
<1>9. <<height[Top(u).at], x>> \in R
  BY <1>6, <1>7, <1>8 DEF OpToRel
<1> QED
  BY <1>5, <1>8, <1>9

\* Functions called in sub-interps and aliases called in parents, along any tree of interps
\* and to any depth, never leave threads waiting for each other in a circle: the only lock
\* that is taken while another is held is that of a child.
THEOREM UnnestedNeverDeadlocks == Unnested /\ Descends /\ Spec => []NoDeadlock
<1> SUFFICES ASSUME Unnested, Descends PROVE Spec => []NoDeadlock
  OBVIOUS
<1>1. CInv /\ [Next]_vars => CInv'
  BY NextCalm
<1>2. CInv => NoDeadlock
  BY CalmNoDeadlock
<1> QED
  BY InitCalm, <1>1, <1>2, PTL DEF Spec
=============================================================================
