--------------------------- MODULE InterpLife_proofs ---------------------------
(***************************************************************************)
(* Proofs about the life of interps, for every number of interps and of    *)
(* records, every depth of the stack and every choice of the interps that  *)
(* have onExit or are preserved.                                           *)
(***************************************************************************)
EXTENDS InterpLife, FiniteSetTheorems, SequenceTheorems, WellFoundedInduction, TLAPS

\* What level counts.
InFrames(i, f) == {k \in 1..Len(f) : f[k].in = i}
EvalFrames(i, f) == {k \in 1..Len(f) : f[k].kind = "eval" /\ f[k].of = i}
Count(i, f) == Cardinality(InFrames(i, f)) + Cardinality(EvalFrames(i, f))

Levels(I, f) == \A i \in Interps : I[i].level = Count(i, f)

\* A frame runs in a live interp, above a frame of the parent of that interp, which
\* keeps the parent from being freed.
Placed(I, U, f) ==
  \A k \in 1..Len(f) :
    /\ I[f[k].in].st = "live"
    /\ f[k].in \in Subs => \E j \in 1..(k - 1) : f[j].in = I[f[k].in].parent
    /\ f[k].kind \in {"start", "eval", "call"} => f[k].of = f[k].in /\ f[k].of \in Subs
    /\ f[k].kind = "start" => U[f[k].of].st = "building"
    /\ f[k].kind \in {"eval", "call"} => U[f[k].of].st = "live"
    /\ f[k].kind = "alias" => f[k].of \in Recs
    /\ f[k].kind = "onExit" => f[k].of \in Subs

\* An interp has one start script, and the script of the main interp is at the bottom.
OneStart(f) ==
  /\ \A j, k \in 1..Len(f) :
       f[j].kind = "start" /\ f[k].kind = "start" /\ f[j].of = f[k].of => j = k
  /\ \A k \in 1..Len(f) : f[k].kind = "top" => k = 1 /\ f[k].in = Main

Parents(I, U) ==
  \A s \in Subs : /\ I[s].st # "none" => I[s].parent \in Interps
                  /\ I[s].st = "none" => U[s].st = "none"

\* The records in use are those of the tables, each in one table.
Tables(U, R) ==
  /\ \A r \in Recs : R[r].st = "used" <=> \E s \in Subs : U[s].entry = r
  /\ \A s, t \in Subs : U[s].entry = U[t].entry /\ U[s].entry \in Recs => s = t
  /\ \A s \in Subs : U[s].entry # "empty" => U[s].st = "live"
  /\ \A s \in Subs : U[s].st \in {"building", "live"} => U[s].sub

IInv ==
  /\ TypeOK
  /\ Levels(interp, frames)
  /\ Placed(interp, udf, frames)
  /\ OneStart(frames)
  /\ Parents(interp, udf)
  /\ Tables(udf, rec)

USE LifeAssumption

-----------------------------------------------------------------------------
(* The stack. *)

LEMMA FrameAt ==
  ASSUME NEW f \in Seq(Frame), NEW k \in 1..Len(f)
  PROVE  /\ f[k] \in Frame /\ f[k].in \in Interps /\ f[k].kind \in Kinds
         /\ f[k].of \in Subs \cup Recs \cup {None}
<1>1. f[k] \in Frame
  OBVIOUS
<1> QED
  BY <1>1 DEF Frame

LEMMA FramesFinite ==
  ASSUME NEW f \in Seq(Frame), NEW i
  PROVE  /\ IsFiniteSet(InFrames(i, f)) /\ Cardinality(InFrames(i, f)) \in Nat
         /\ IsFiniteSet(EvalFrames(i, f)) /\ Cardinality(EvalFrames(i, f)) \in Nat
         /\ Count(i, f) \in Nat
<1>1. Len(f) \in Nat
  OBVIOUS
<1>2. IsFiniteSet(1..Len(f))
  BY <1>1, FS_Interval
<1>3. InFrames(i, f) \subseteq 1..Len(f) /\ EvalFrames(i, f) \subseteq 1..Len(f)
  BY DEF InFrames, EvalFrames
<1>4. IsFiniteSet(InFrames(i, f)) /\ IsFiniteSet(EvalFrames(i, f))
  BY <1>2, <1>3, FS_Subset
<1>5. Cardinality(InFrames(i, f)) \in Nat /\ Cardinality(EvalFrames(i, f)) \in Nat
  BY <1>4, FS_CardinalityType
<1> QED
  BY <1>4, <1>5 DEF Count

Adds(i, x) == (IF x.in = i THEN 1 ELSE 0) + (IF x.kind = "eval" /\ x.of = i THEN 1 ELSE 0)

LEMMA CountAppend ==
  ASSUME NEW f \in Seq(Frame), NEW x \in Frame, NEW i
  PROVE  Count(i, Append(f, x)) = Count(i, f) + Adds(i, x)
<1> DEFINE n == Len(f)
           g == Append(f, x)
<1>1. /\ n \in Nat /\ Len(g) = n + 1 /\ g[n + 1] = x
      /\ \A k \in 1..n : g[k] = f[k]
  OBVIOUS
<1>2. InFrames(i, g) = IF x.in = i THEN InFrames(i, f) \cup {n + 1} ELSE InFrames(i, f)
  <2>1. \A k : k \in 1..Len(g) <=> k \in 1..n \/ k = n + 1
    BY <1>1
  <2> QED
    BY <1>1, <2>1 DEF InFrames
<1>3. EvalFrames(i, g) = IF x.kind = "eval" /\ x.of = i THEN EvalFrames(i, f) \cup {n + 1}
                         ELSE EvalFrames(i, f)
  <2>1. \A k : k \in 1..Len(g) <=> k \in 1..n \/ k = n + 1
    BY <1>1
  <2> QED
    BY <1>1, <2>1 DEF EvalFrames
<1>4. n + 1 \notin InFrames(i, f) /\ n + 1 \notin EvalFrames(i, f)
  BY <1>1 DEF InFrames, EvalFrames
<1>5. Cardinality(InFrames(i, g)) = Cardinality(InFrames(i, f)) + (IF x.in = i THEN 1 ELSE 0)
  <2>1. Cardinality(InFrames(i, f) \cup {n + 1}) = Cardinality(InFrames(i, f)) + 1
    BY <1>4, FramesFinite, FS_AddElement
  <2>2. Cardinality(InFrames(i, f)) \in Nat
    BY FramesFinite
  <2> QED
    BY <1>2, <2>1, <2>2
<1>6. Cardinality(EvalFrames(i, g))
        = Cardinality(EvalFrames(i, f)) + (IF x.kind = "eval" /\ x.of = i THEN 1 ELSE 0)
  <2>1. Cardinality(EvalFrames(i, f) \cup {n + 1}) = Cardinality(EvalFrames(i, f)) + 1
    BY <1>4, FramesFinite, FS_AddElement
  <2>2. Cardinality(EvalFrames(i, f)) \in Nat
    BY FramesFinite
  <2> QED
    BY <1>3, <2>1, <2>2
<1> QED
  <2>1. Cardinality(InFrames(i, f)) \in Nat /\ Cardinality(EvalFrames(i, f)) \in Nat
    BY FramesFinite
  <2> DEFINE a == IF x.in = i THEN 1 ELSE 0
             b == IF x.kind = "eval" /\ x.of = i THEN 1 ELSE 0
             ci == Cardinality(InFrames(i, f))
             ce == Cardinality(EvalFrames(i, f))
  <2>2. Count(i, Append(f, x)) = (ci + a) + (ce + b)
    BY <1>5, <1>6 DEF Count
  <2>3. Count(i, f) = ci + ce /\ Adds(i, x) = a + b /\ a \in Nat /\ b \in Nat
    BY DEF Count, Adds
  <2> HIDE DEF a, b, ci, ce, g, n
  <2>4. ci \in Nat /\ ce \in Nat
    BY <2>1 DEF ci, ce
  <2> QED
    BY <2>2, <2>3, <2>4

LEMMA RestFacts ==
  ASSUME NEW f \in Seq(Frame), f # <<>>
  PROVE  LET g == SubSeq(f, 1, Len(f) - 1)
         IN /\ g \in Seq(Frame) /\ Len(f) \in Nat \ {0} /\ Len(g) = Len(f) - 1
            /\ f[Len(f)] \in Frame
            /\ \A k \in 1..Len(g) : k \in 1..Len(f) /\ k # Len(f) /\ g[k] = f[k]
            /\ f = Append(g, f[Len(f)])
            /\ \A i : Count(i, f) = Count(i, g) + Adds(i, f[Len(f)])
<1> DEFINE g == SubSeq(f, 1, Len(f) - 1)
           x == f[Len(f)]
<1>1. Len(f) \in Nat \ {0} /\ x \in Frame
  OBVIOUS
<1>2. g \in Seq(Frame) /\ Len(g) = Len(f) - 1 /\ \A k \in 1..Len(g) : g[k] = f[k]
  <2>1. \A k \in 1..(Len(f) - 1) : f[k] \in Frame
    BY <1>1
  <2>2. /\ g \in Seq(Frame)
        /\ Len(g) = IF 1 <= Len(f) - 1 THEN Len(f) - 1 - 1 + 1 ELSE 0
        /\ \A k \in 1..(Len(f) - 1 - 1 + 1) : g[k] = f[1 + k - 1]
    BY <1>1, <2>1, SubSeqProperties
  <2>3. Len(g) = Len(f) - 1
    <3> DEFINE n == Len(f)
    <3>1. n \in Nat \ {0} /\ Len(g) = IF 1 <= n - 1 THEN n - 1 - 1 + 1 ELSE 0
      BY <1>1, <2>2
    <3> HIDE DEF g, n
    <3>2. Len(g) = n - 1
      BY <3>1
    <3> QED
      BY <3>2 DEF n
  <2>4. ASSUME NEW k \in 1..Len(g) PROVE g[k] = f[k]
    <3>1. k \in 1..(Len(f) - 1 - 1 + 1) /\ 1 + k - 1 = k
      BY <1>1, <2>3
    <3> QED
      BY <3>1, <2>2
  <2> QED
    BY <2>2, <2>3, <2>4
<1>3. \A k \in 1..Len(g) : k \in 1..Len(f) /\ k # Len(f)
  BY <1>1, <1>2
<1>4. f = Append(g, x)
  <2> HIDE DEF g
  <2>1. /\ Append(g, x) \in Seq(Frame) /\ Len(Append(g, x)) = Len(f)
        /\ \A k \in 1..Len(g) : Append(g, x)[k] = g[k]
        /\ Append(g, x)[Len(f)] = x
    BY <1>1, <1>2, AppendProperties
  <2>2. ASSUME NEW k \in 1..Len(f) PROVE f[k] = Append(g, x)[k]
    <3>1. k \in 1..Len(g) \/ k = Len(f)
      BY <1>1, <1>2
    <3> QED
      BY <3>1, <2>1, <1>2
  <2> QED
    BY <2>1, <2>2, SeqEqual
<1>5. ASSUME NEW i PROVE Count(i, f) = Count(i, g) + Adds(i, x)
  <2> HIDE DEF g, x
  <2> QED
    BY <1>1, <1>2, <1>4, CountAppend
<1> QED
  BY <1>1, <1>2, <1>3, <1>4, <1>5

\* An interp that has a frame counts at least one level.
LEMMA CountPositive ==
  ASSUME NEW f \in Seq(Frame), NEW k \in 1..Len(f)
  PROVE  Count(f[k].in, f) \in Nat \ {0}
<1> DEFINE i == f[k].in
<1>1. k \in InFrames(i, f)
  BY DEF InFrames
<1>2. Cardinality(InFrames(i, f)) # 0
  BY <1>1, FramesFinite, FS_EmptySet
<1> QED
  BY <1>2, FramesFinite DEF Count

-----------------------------------------------------------------------------
(* Deletion. *)

InterpT == [Interps -> [st : {"none", "live", "freed"}, parent : Interps \cup {None},
                        level : Nat, exited : BOOLEAN, code : {0, 1}, deleting : BOOLEAN,
                        kept : BOOLEAN]]
UdfT == [Subs -> [st : {"none", "building", "live", "freed"}, sub : BOOLEAN,
                  ref : BOOLEAN, entry : Entries]]
RecT == [Recs -> [st : {"none", "used", "freed"}, of : Subs \cup {None},
                  cmd : BOOLEAN, self : BOOLEAN]]

\* No method and no start script of the object of s is on the stack f.
Idle(s, f) == \A k \in 1..Len(f) :
                f[k].kind \in {"start", "eval", "call"} => f[k].of # s

\* The objects that are freed with an interp are idle: their methods would be above
\* a frame of the interp.
LEMMA ObjectsIdle ==
  ASSUME NEW I \in InterpT, NEW U, NEW f \in Seq(Frame), NEW D,
         Levels(I, f), Placed(I, U, f)
  PROVE  \A s \in ObjectsOf(I, D) : s \in Subs /\ Idle(s, f)
<1> SUFFICES ASSUME NEW s \in ObjectsOf(I, D), NEW k \in 1..Len(f),
                    f[k].kind \in {"start", "eval", "call"}, f[k].of = s
             PROVE  FALSE
  BY DEF ObjectsOf, Idle
<1>1. s \in Subs /\ FreesNow(I, I[s].parent)
  BY DEF ObjectsOf
<1>2. PICK j \in 1..(k - 1) : f[j].in = I[s].parent
  BY <1>1 DEF Placed
<1>3. j \in 1..Len(f)
  BY <1>2
<1>4. I[s].parent \in Interps
  BY <1>2, <1>3, FrameAt
<1>5. I[I[s].parent].level \in Nat \ {0}
  BY <1>2, <1>3, <1>4, CountPositive DEF Levels
<1> QED
  BY <1>1, <1>5 DEF FreesNow, MayDelete

\* What a deletion needs: the state I, U that it starts from agrees with the stack f
\* that remains, the objects E have nothing on it.
Deletable(I, U, E, f) ==
  /\ Levels(I, f) /\ Placed(I, U, f) /\ Parents(I, U) /\ Tables(U, rec)
  /\ \A s \in Subs : U[s].entry = udf[s].entry
  /\ \A s \in E : s \in Subs /\ I[s].st # "none" /\ Idle(s, f)

LEMMA DeleteKeeps ==
  ASSUME NEW I \in InterpT, NEW U \in UdfT, udf \in UdfT, rec \in RecT,
         NEW D, NEW E, NEW f \in Seq(Frame),
         Deletable(I, U, E, f), Delete(I, U, D, E)
  PROVE  /\ interp' \in InterpT /\ udf' \in UdfT /\ rec' \in RecT /\ fault' \in Faults
         /\ Levels(interp', f) /\ Placed(interp', udf', f) /\ Parents(interp', udf')
         /\ Tables(udf', rec')
<1>h. /\ Levels(I, f) /\ Placed(I, U, f) /\ Parents(I, U) /\ Tables(U, rec)
      /\ \A s \in Subs : U[s].entry = udf[s].entry
      /\ \A s \in E : s \in Subs /\ I[s].st # "none" /\ Idle(s, f)
  BY DEF Deletable
<1>i. interp' = [i \in Interps |->
         IF i \in D /\ MayDelete(I, i)
         THEN IF I[i].kept THEN [I[i] EXCEPT !.deleting = TRUE]
              ELSE [NoInterp EXCEPT !.st = "freed", !.parent = I[i].parent]
         ELSE I[i]]
  BY DEF Delete
<1>u. udf' = [s \in Subs |-> IF s \in E THEN NoObject ELSE U[s]]
  BY DEF Delete
<1>r. rec' = [r \in Recs |-> IF \E s \in E : udf[s].entry = r THEN Freed ELSE rec[r]]
  BY DEF Delete
<1>1. interp' \in InterpT
  <2> SUFFICES ASSUME NEW i \in Interps
               PROVE  interp'[i] \in [st : {"none", "live", "freed"},
                         parent : Interps \cup {None}, level : Nat, exited : BOOLEAN,
                         code : {0, 1}, deleting : BOOLEAN, kept : BOOLEAN]
    BY <1>i DEF InterpT
  <2> QED
    BY <1>i DEF InterpT, NoInterp
<1>2. udf' \in UdfT
  BY <1>u DEF UdfT, NoObject, Entries
<1>3. rec' \in RecT
  BY <1>r DEF RecT, Freed
<1>4. fault' \in Faults
  BY DEF Delete, Faults
<1>5. ASSUME NEW i \in Interps
      PROVE  /\ interp'[i].parent = I[i].parent
             /\ interp'[i].st = "none" <=> I[i].st = "none"
             /\ interp'[i].level = I[i].level
             /\ I[i].level # 0 => interp'[i] = I[i]
  <2>1. I[i].level \in Nat /\ I[i] \in [st : {"none", "live", "freed"},
                         parent : Interps \cup {None}, level : Nat, exited : BOOLEAN,
                         code : {0, 1}, deleting : BOOLEAN, kept : BOOLEAN]
    BY DEF InterpT
  <2>2. CASE i \in D /\ MayDelete(I, i)
    <3>1. I[i].level = 0 /\ I[i].st = "live"
      BY <2>1, <2>2 DEF MayDelete
    <3> QED
      BY <3>1, <2>1, <2>2, <1>i DEF NoInterp
  <2>3. CASE ~(i \in D /\ MayDelete(I, i))
    BY <2>3, <1>i
  <2> QED
    BY <2>2, <2>3
<1>6. Levels(interp', f)
  BY <1>5, <1>h DEF Levels
<1>7. Parents(interp', udf')
  <2>1. \A s \in Subs : I[s].st = "none" => udf'[s] = U[s]
    BY <1>h, <1>u
  <2> QED
    BY <2>1, <1>5, <1>h DEF Parents, Interps
<1>8. Placed(interp', udf', f)
  <2> SUFFICES ASSUME NEW k \in 1..Len(f)
               PROVE  /\ interp'[f[k].in].st = "live"
                      /\ f[k].in \in Subs => \E j \in 1..(k - 1) : f[j].in = interp'[f[k].in].parent
                      /\ f[k].kind \in {"start", "eval", "call"} => f[k].of = f[k].in /\ f[k].of \in Subs
                      /\ f[k].kind = "start" => udf'[f[k].of].st = "building"
                      /\ f[k].kind \in {"eval", "call"} => udf'[f[k].of].st = "live"
                      /\ f[k].kind = "alias" => f[k].of \in Recs
                      /\ f[k].kind = "onExit" => f[k].of \in Subs
    BY DEF Placed
  <2>1. f[k] \in Frame /\ f[k].in \in Interps
    BY FrameAt
  <2>2. I[f[k].in].level # 0
    BY <2>1, <1>h, CountPositive DEF Levels
  <2>3. interp'[f[k].in] = I[f[k].in]
    BY <2>1, <2>2, <1>5
  <2>4. f[k].kind \in {"start", "eval", "call"} =>
           f[k].of \in Subs /\ udf'[f[k].of] = U[f[k].of]
    BY <1>h, <1>u DEF Placed, Idle
  <2> QED
    BY <2>3, <2>4, <1>h DEF Placed
<1>9. Tables(udf', rec')
  <2>1. ASSUME NEW s \in Subs
        PROVE  /\ s \in E => /\ udf'[s].entry = "empty" /\ udf'[s].st = "freed"
               /\ s \notin E => udf'[s] = U[s]
    BY <1>u DEF NoObject
  <2>2. ASSUME NEW r \in Recs
        PROVE  rec'[r].st = "used" <=> \E s \in Subs : udf'[s].entry = r
    <3>1. CASE \E s \in E : udf[s].entry = r
      <4>1. PICK s \in E : U[s].entry = r
        BY <3>1, <1>h
      <4>2. rec'[r].st = "freed"
        BY <3>1, <1>r DEF Freed
      <4>3. ASSUME NEW t \in Subs, udf'[t].entry = r PROVE FALSE
        <5>1. t \notin E /\ U[t].entry = r
          BY <4>3, <2>1
        <5> QED
          BY <5>1, <4>1, <1>h DEF Tables
      <4> QED
        BY <4>2, <4>3
    <3>2. CASE ~\E s \in E : udf[s].entry = r
      <4>1. rec'[r] = rec[r]
        BY <3>2, <1>r
      <4>2. (\E s \in Subs : udf'[s].entry = r) <=> \E s \in Subs : U[s].entry = r
        BY <3>2, <2>1, <1>h
      <4> QED
        BY <4>1, <4>2, <1>h DEF Tables
    <3> QED
      BY <3>1, <3>2
  <2>3. \A s, t \in Subs : udf'[s].entry = udf'[t].entry /\ udf'[s].entry \in Recs => s = t
    BY <2>1, <1>h DEF Tables
  <2>4. \A s \in Subs : udf'[s].entry # "empty" => udf'[s].st = "live"
    BY <2>1, <1>h DEF Tables
  <2>5. \A s \in Subs : udf'[s].st \in {"building", "live"} => udf'[s].sub
    BY <2>1, <1>h DEF Tables
  <2> QED
    BY <2>2, <2>3, <2>4, <2>5 DEF Tables
<1> QED
  BY <1>1, <1>2, <1>3, <1>4, <1>6, <1>7, <1>8, <1>9

-----------------------------------------------------------------------------
(* What happens to a stack when the state under it changes, when a frame is  *)
(* pushed and when the top frame goes.                                       *)

\* From I, U to J, V no interp that is live ends or moves, and its object stays.
Stays(I, U, J, V) ==
  \A i \in Interps : I[i].st = "live" =>
    /\ J[i].st = "live" /\ J[i].parent = I[i].parent
    /\ i \in Subs => V[i].st = U[i].st

LEMMA SameStack ==
  ASSUME NEW I, NEW U, NEW J, NEW V, NEW f \in Seq(Frame),
         Placed(I, U, f), Stays(I, U, J, V)
  PROVE  Placed(J, V, f)
<1> SUFFICES ASSUME NEW k \in 1..Len(f)
             PROVE  /\ J[f[k].in].st = "live"
                    /\ f[k].in \in Subs => \E j \in 1..(k - 1) : f[j].in = J[f[k].in].parent
                    /\ f[k].kind \in {"start", "eval", "call"} => f[k].of = f[k].in /\ f[k].of \in Subs
                    /\ f[k].kind = "start" => V[f[k].of].st = "building"
                    /\ f[k].kind \in {"eval", "call"} => V[f[k].of].st = "live"
                    /\ f[k].kind = "alias" => f[k].of \in Recs
                    /\ f[k].kind = "onExit" => f[k].of \in Subs
  BY DEF Placed
<1>1. f[k].in \in Interps /\ I[f[k].in].st = "live"
  BY FrameAt DEF Placed
<1> QED
  BY <1>1 DEF Placed, Stays

\* Where a new frame x belongs.
Place(J, V, f, x) ==
  /\ J[x.in].st = "live"
  /\ x.in \in Subs => \E j \in 1..Len(f) : f[j].in = J[x.in].parent
  /\ x.kind \in {"start", "eval", "call"} => x.of = x.in /\ x.of \in Subs
  /\ x.kind = "start" => V[x.of].st = "building"
  /\ x.kind \in {"eval", "call"} => V[x.of].st = "live"
  /\ x.kind = "alias" => x.of \in Recs
  /\ x.kind = "onExit" => x.of \in Subs

LEMMA AppendKeeps ==
  ASSUME NEW I, NEW U, NEW J, NEW V, NEW f \in Seq(Frame), NEW x \in Frame,
         Levels(I, f), Placed(I, U, f), Stays(I, U, J, V), Place(J, V, f, x),
         \A i \in Interps : J[i].level = I[i].level + Adds(i, x)
  PROVE  /\ Append(f, x) \in Seq(Frame)
         /\ Levels(J, Append(f, x)) /\ Placed(J, V, Append(f, x))
<1> DEFINE g == Append(f, x)
<1>1. /\ g \in Seq(Frame) /\ Len(f) \in Nat /\ Len(g) = Len(f) + 1
      /\ g[Len(f) + 1] = x /\ \A k \in 1..Len(f) : g[k] = f[k]
  BY AppendProperties
<1>2. Placed(J, V, f)
  BY SameStack
<1>3. Levels(J, g)
  BY CountAppend DEF Levels
<1>4. Placed(J, V, g)
  <2> HIDE DEF g
  <2> SUFFICES ASSUME NEW k \in 1..Len(g)
             PROVE  /\ J[g[k].in].st = "live"
                    /\ g[k].in \in Subs => \E j \in 1..(k - 1) : g[j].in = J[g[k].in].parent
                    /\ g[k].kind \in {"start", "eval", "call"} => g[k].of = g[k].in /\ g[k].of \in Subs
                    /\ g[k].kind = "start" => V[g[k].of].st = "building"
                    /\ g[k].kind \in {"eval", "call"} => V[g[k].of].st = "live"
                    /\ g[k].kind = "alias" => g[k].of \in Recs
                    /\ g[k].kind = "onExit" => g[k].of \in Subs
    BY DEF Placed
  <2>1. CASE k \in 1..Len(f)
    <3>1. g[k] = f[k] /\ \A j \in 1..(k - 1) : j \in 1..Len(f) /\ g[j] = f[j]
      BY <2>1, <1>1
    <3> QED
      BY <2>1, <3>1, <1>2 DEF Placed
  <2>2. CASE k = Len(f) + 1
    <3>1. g[k] = x /\ k - 1 = Len(f)
      BY <2>2, <1>1
    <3> QED
      BY <3>1, <1>1 DEF Place
  <2> QED
    BY <2>1, <2>2, <1>1
<1> QED
  BY <1>1, <1>3, <1>4

\* The top frame goes: the object that was being made by it may change.
LEMMA RestKeeps ==
  ASSUME NEW I \in InterpT, NEW U, NEW J, NEW V, NEW f \in Seq(Frame), f # <<>>,
         Levels(I, f), Placed(I, U, f), OneStart(f),
         \A i \in Interps : I[i].st = "live" =>
           /\ J[i].st = "live" /\ J[i].parent = I[i].parent
           /\ i \in Subs => V[i].st = U[i].st \/ (f[Len(f)].kind = "start" /\ i = f[Len(f)].of),
         \A i \in Interps : J[i].level = I[i].level - Adds(i, f[Len(f)])
  PROVE  LET g == SubSeq(f, 1, Len(f) - 1)
         IN /\ g \in Seq(Frame)
            /\ Levels(J, g) /\ Placed(J, V, g) /\ OneStart(g)
            /\ \A i \in Interps : J[i].level \in Nat
            /\ f[Len(f)].kind = "start" => Idle(f[Len(f)].of, g)
<1> DEFINE g == SubSeq(f, 1, Len(f) - 1)
           x == f[Len(f)]
<1>1. /\ g \in Seq(Frame) /\ Len(f) \in Nat \ {0} /\ Len(g) = Len(f) - 1
      /\ x \in Frame
      /\ \A k \in 1..Len(g) : k \in 1..Len(f) /\ k # Len(f) /\ g[k] = f[k]
      /\ \A i : Count(i, f) = Count(i, g) + Adds(i, x)
  BY RestFacts
<1> HIDE DEF g
<1>2. ASSUME NEW i \in Interps PROVE J[i].level = Count(i, g) /\ J[i].level \in Nat
  <2>1. Count(i, g) \in Nat /\ Adds(i, x) \in Nat
    BY <1>1, FramesFinite DEF Adds
  <2>2. J[i].level = (Count(i, g) + Adds(i, x)) - Adds(i, x)
    BY <1>1 DEF Levels
  <2> HIDE DEF x
  <2> QED
    BY <2>1, <2>2
<1>3. OneStart(g)
  BY <1>1 DEF OneStart
<1>4. x.kind = "start" => Idle(x.of, g)
  <2> SUFFICES ASSUME x.kind = "start", NEW k \in 1..Len(g),
                      g[k].kind \in {"start", "eval", "call"}, g[k].of = x.of
               PROVE  FALSE
    BY DEF Idle
  <2>1. k \in 1..Len(f) /\ k # Len(f) /\ g[k] = f[k] /\ Len(f) \in 1..Len(f)
    BY <1>1
  <2>2. U[x.of].st = "building"
    BY <2>1 DEF Placed
  <2>3. g[k].kind = "start"
    BY <2>1, <2>2 DEF Placed
  <2> QED
    BY <2>1, <2>3 DEF OneStart
<1>5. Placed(J, V, g)
  <2> SUFFICES ASSUME NEW k \in 1..Len(g)
             PROVE  /\ J[g[k].in].st = "live"
                    /\ g[k].in \in Subs => \E j \in 1..(k - 1) : g[j].in = J[g[k].in].parent
                    /\ g[k].kind \in {"start", "eval", "call"} => g[k].of = g[k].in /\ g[k].of \in Subs
                    /\ g[k].kind = "start" => V[g[k].of].st = "building"
                    /\ g[k].kind \in {"eval", "call"} => V[g[k].of].st = "live"
                    /\ g[k].kind = "alias" => g[k].of \in Recs
                    /\ g[k].kind = "onExit" => g[k].of \in Subs
    BY DEF Placed
  <2>1. /\ k \in 1..Len(f) /\ g[k] = f[k]
        /\ \A j \in 1..(k - 1) : j \in 1..Len(g) /\ g[j] = f[j]
    BY <1>1
  <2>2. g[k].in \in Interps /\ I[g[k].in].st = "live" /\ J[g[k].in].st = "live"
        /\ J[g[k].in].parent = I[g[k].in].parent
    BY <2>1, <1>1, FrameAt DEF Placed
  <2>3. g[k].kind \in {"start", "eval", "call"} =>
          /\ g[k].of = g[k].in /\ g[k].of \in Subs
          /\ V[g[k].of].st = U[g[k].of].st
    BY <2>1, <2>2, <1>4 DEF Placed, Idle
  <2> QED
    BY <2>1, <2>2, <2>3 DEF Placed
<1> QED
  BY <1>1, <1>2, <1>3, <1>4, <1>5 DEF Levels, g

-----------------------------------------------------------------------------
(* The actions. *)

LEMMA TypeFacts ==
  TypeOK <=> /\ interp \in InterpT /\ udf \in UdfT /\ rec \in RecT
             /\ frames \in Seq(Frame) /\ selfEnded \subseteq Subs /\ fault \in Faults
BY DEF TypeOK, InterpT, UdfT, RecT

LEMMA TopFacts ==
  ASSUME IInv, Active
  PROVE  /\ frames # <<>> /\ Len(frames) \in 1..Len(frames)
         /\ Top = frames[Len(frames)] /\ Top \in Frame /\ Top.in \in Interps
         /\ interp[Top.in].st = "live"
<1>1. frames \in Seq(Frame) /\ frames # <<>>
  BY DEF IInv, TypeOK, Active
<1>2. Len(frames) \in 1..Len(frames)
  BY <1>1
<1> QED
  BY <1>1, <1>2, FrameAt DEF Top, IInv, Placed

LEMMA InitIInv == Init => IInv
<1> SUFFICES ASSUME Init PROVE IInv
  OBVIOUS
<1> DEFINE x == [in |-> Main, kind |-> "top", of |-> None]
<1>1. x \in Frame /\ frames = <<x>> /\ frames \in Seq(Frame)
  BY DEF Init, Frame, Interps, Kinds
<1>2. TypeOK
  BY <1>1 DEF Init, TypeOK, NoInterp, Interps, Entries, Faults
<1>3. ASSUME NEW i \in Interps PROVE interp[i].level = Count(i, frames)
  <2>1. frames = Append(<<>>, x) /\ <<>> \in Seq(Frame)
    BY <1>1
  <2>2. Cardinality(InFrames(i, <<>>)) = 0 /\ Cardinality(EvalFrames(i, <<>>)) = 0
    BY FS_EmptySet DEF InFrames, EvalFrames
  <2>3. x.kind = "top" /\ x.in = Main
    OBVIOUS
  <2> HIDE DEF x
  <2>4. Adds(i, x) = IF i = Main THEN 1 ELSE 0
    BY <2>3 DEF Adds
  <2>5. Count(i, <<>>) = 0
    BY <2>2 DEF Count
  <2>6. Count(i, Append(<<>>, x)) = Count(i, <<>>) + Adds(i, x)
    BY <2>1, <1>1, CountAppend
  <2>7. Count(i, frames) = IF i = Main THEN 1 ELSE 0
    BY <2>1, <2>4, <2>5, <2>6
  <2>8. interp[i].level = IF i = Main THEN 1 ELSE 0
    BY DEF Init, NoInterp
  <2> QED
    BY <2>7, <2>8
<1>4. Placed(interp, udf, frames)
  BY <1>1 DEF Placed, Init, NoInterp, Interps
<1>5. OneStart(frames) /\ Parents(interp, udf) /\ Tables(udf, rec)
  BY <1>1 DEF OneStart, Parents, Tables, Init, NoInterp, Interps
<1> QED
  BY <1>2, <1>3, <1>4, <1>5 DEF IInv, Levels

\* Nothing changes but marks that neither the stack nor the tables look at.
LEMMA MarksKeep ==
  ASSUME IInv, interp' \in InterpT, fault' \in Faults,
         \A i \in Interps : /\ interp'[i].st = interp[i].st
                            /\ interp'[i].parent = interp[i].parent
                            /\ interp'[i].level = interp[i].level,
         UNCHANGED <<udf, rec, frames, selfEnded>>
  PROVE  IInv'
<1>1. TypeOK'
  BY TypeFacts DEF IInv, TypeOK, InterpT, UdfT, RecT
<1>2. Levels(interp', frames')
  BY DEF IInv, Levels
<1>3. Placed(interp', udf', frames')
  <2>1. Stays(interp, udf, interp', udf')
    BY DEF Stays
  <2> QED
    BY <2>1, SameStack, TypeFacts DEF IInv
<1>4. OneStart(frames') /\ Parents(interp', udf') /\ Tables(udf', rec')
  BY DEF IInv, Parents, Interps
<1> QED
  BY <1>1, <1>2, <1>3, <1>4 DEF IInv

LEMMA FaultKeeps ==
  ASSUME IInv, NEW s \in Subs, UseFreed(s) \/ GetAlias(s)
  PROVE  IInv'
<1>1. fault' \in Faults /\ interp' = interp /\ UNCHANGED <<udf, rec, frames, selfEnded>>
  BY DEF UseFreed, GetAlias, Faults
<1> QED
  BY <1>1, MarksKeep, TypeFacts DEF IInv

LEMMA ExitKeeps ==
  ASSUME IInv, NEW i \in Interps, NEW code \in {0, 1}, Exit(i, code)
  PROVE  IInv'
<1>1. interp \in InterpT /\ fault \in Faults
  BY TypeFacts DEF IInv
<1>2. interp' = [interp EXCEPT ![i].exited = TRUE, ![i].code = code]
  BY DEF Exit
<1> DEFINE mid == [interp EXCEPT ![i].exited = TRUE]
<1>3. mid \in InterpT /\ interp' = [mid EXCEPT ![i].code = code]
  BY <1>1, <1>2 DEF InterpT
<1>4. \A j \in Interps : /\ mid[j].st = interp[j].st
                         /\ mid[j].parent = interp[j].parent
                         /\ mid[j].level = interp[j].level
  BY <1>1 DEF InterpT
<1> HIDE DEF mid
<1>5. /\ interp' \in InterpT
      /\ \A j \in Interps : /\ interp'[j].st = mid[j].st
                            /\ interp'[j].parent = mid[j].parent
                            /\ interp'[j].level = mid[j].level
  BY <1>3 DEF InterpT
<1> QED
  BY <1>1, <1>4, <1>5, MarksKeep DEF Exit

LEMMA PreserveKeeps ==
  ASSUME IInv, NEW i \in Interps, Preserve(i) \/ Release(i)
  PROVE  IInv'
<1>1. interp \in InterpT /\ fault \in Faults
  BY TypeFacts DEF IInv
<1>2. PICK k \in BOOLEAN : interp' = [interp EXCEPT ![i].kept = k]
  BY DEF Preserve, Release
<1>3. interp' \in InterpT
  BY <1>1, <1>2 DEF InterpT
<1>4. \A j \in Interps : /\ interp'[j].st = interp[j].st
                         /\ interp'[j].parent = interp[j].parent
                         /\ interp'[j].level = interp[j].level
  BY <1>1, <1>2 DEF InterpT
<1> QED
  BY <1>1, <1>3, <1>4, MarksKeep DEF Preserve, Release

\* Only the tables change.
LEMMA TablesKeep ==
  ASSUME IInv, udf' \in UdfT, rec' \in RecT, fault' \in Faults, Tables(udf', rec'),
         \A s \in Subs : udf'[s].st = udf[s].st,
         UNCHANGED <<interp, frames, selfEnded>>
  PROVE  IInv'
<1>1. TypeOK'
  BY TypeFacts DEF IInv, TypeOK, InterpT, UdfT, RecT
<1>2. Placed(interp', udf', frames')
  <2>1. Stays(interp, udf, interp', udf')
    BY DEF Stays
  <2> QED
    BY <2>1, SameStack, TypeFacts DEF IInv
<1>3. Parents(interp', udf')
  BY DEF IInv, Parents
<1> QED
  BY <1>1, <1>2, <1>3 DEF IInv

LEMMA SetAliasKeeps ==
  ASSUME IInv, NEW s \in Subs, NEW r \in Recs, NEW made \in BOOLEAN, NEW self \in BOOLEAN,
         SetAlias(s, r, made, self)
  PROVE  IInv'
<1>t. udf \in UdfT /\ rec \in RecT /\ fault \in Faults /\ Tables(udf, rec)
  BY TypeFacts DEF IInv
<1>f. fault' \in Faults /\ UNCHANGED <<interp, frames, selfEnded>>
  BY <1>t DEF SetAlias, Faults
<1>1. CASE BadEntry(s)
  <2>1. UNCHANGED <<udf, rec>>
    BY <1>1 DEF SetAlias
  <2> QED
    BY <2>1, <1>t, <1>f, TablesKeep
<1>2. CASE ~BadEntry(s)
  <2> DEFINE old == udf[s].entry
             new == [st |-> "used", of |-> s, cmd |-> made, self |-> self]
             freed == IF old \in Recs THEN FreeRecord(old) ELSE rec
  <2>1. rec' = [freed EXCEPT ![r] = new] /\ udf' = [udf EXCEPT ![s].entry = r]
    BY <1>2 DEF SetAlias
  <2>2. rec[r].st = "none" /\ udf[s].st = "live"
    BY DEF SetAlias, Names
  <2>3. freed \in RecT
    BY <1>t DEF FreeRecord, RecT, Freed
  <2>4. rec' \in RecT /\ udf' \in UdfT
    BY <2>1, <2>3, <1>t DEF RecT, UdfT, Entries
  <2>5. /\ rec'[r].st = "used"
        /\ \A q \in Recs \ {r} : rec'[q].st = IF q = old THEN "freed" ELSE rec[q].st
    BY <2>1, <2>3, <1>t DEF RecT, FreeRecord, Freed
  <2>6. /\ udf'[s].entry = r
        /\ \A t \in Subs \ {s} : udf'[t] = udf[t]
        /\ \A t \in Subs : udf'[t].st = udf[t].st /\ udf'[t].sub = udf[t].sub
    BY <2>1, <1>t DEF UdfT
  <2>7. \A t \in Subs : udf[t].entry # r
    BY <2>2, <1>t DEF Tables
  <2> HIDE DEF old, freed, new
  <2>8. Tables(udf', rec')
    <3>1. ASSUME NEW q \in Recs PROVE rec'[q].st = "used" <=> \E t \in Subs : udf'[t].entry = q
      <4>1. CASE q = r
        BY <4>1, <2>5, <2>6
      <4>2. CASE q # r /\ q = old
        <5>1. rec'[q].st = "freed"
          BY <4>2, <2>5
        <5>2. ASSUME NEW t \in Subs, udf'[t].entry = q PROVE FALSE
          <6>1. t # s /\ udf[t].entry = udf[s].entry
            BY <5>2, <4>2, <2>6 DEF old
          <6> QED
            BY <6>1, <4>2, <1>t DEF Tables, old
        <5> QED
          BY <5>1, <5>2
      <4>3. CASE q # r /\ q # old
        <5>1. rec'[q].st = rec[q].st
          BY <4>3, <2>5
        <5>2. (\E t \in Subs : udf'[t].entry = q) <=> (\E t \in Subs : udf[t].entry = q)
          BY <4>3, <2>6 DEF old
        <5> QED
          BY <5>1, <5>2, <1>t DEF Tables
      <4> QED
        BY <4>1, <4>2, <4>3
    <3>2. \A a, b \in Subs : udf'[a].entry = udf'[b].entry /\ udf'[a].entry \in Recs => a = b
      BY <2>6, <2>7, <1>t DEF Tables
    <3>3. \A a \in Subs : udf'[a].entry # "empty" => udf'[a].st = "live"
      BY <2>6, <2>2, <1>t DEF Tables
    <3>4. \A a \in Subs : udf'[a].st \in {"building", "live"} => udf'[a].sub
      BY <2>6, <1>t DEF Tables
    <3> QED
      BY <3>1, <3>2, <3>3, <3>4 DEF Tables
  <2> QED
    BY <2>4, <2>6, <2>8, <1>f, TablesKeep
<1> QED
  BY <1>1, <1>2

LEMMA RefuseAliasKeeps ==
  ASSUME IInv, NEW s \in Subs, RefuseAlias(s)
  PROVE  IInv'
<1>t. udf \in UdfT /\ rec \in RecT /\ fault \in Faults /\ Tables(udf, rec)
  BY TypeFacts DEF IInv
<1>1. /\ udf' = [udf EXCEPT ![s].entry = "null"] /\ rec' = rec /\ udf[s].st = "live"
      /\ udf[s].entry = "empty" /\ fault' = fault /\ UNCHANGED <<interp, frames, selfEnded>>
  BY DEF RefuseAlias, Names
<1>2. udf' \in UdfT
  BY <1>1, <1>t DEF UdfT, Entries
<1>3. /\ udf'[s].entry = "null"
      /\ \A t \in Subs \ {s} : udf'[t] = udf[t]
      /\ \A t \in Subs : udf'[t].st = udf[t].st /\ udf'[t].sub = udf[t].sub
  BY <1>1, <1>t DEF UdfT
<1>4. Tables(udf', rec')
  <2>1. \A r \in Recs, t \in Subs : udf'[t].entry = r <=> udf[t].entry = r
    BY <1>1, <1>3
  <2> QED
    BY <1>1, <1>3, <1>t, <2>1 DEF Tables
<1> QED
  BY <1>1, <1>2, <1>3, <1>4, <1>t, TablesKeep

LEMMA UnsetAliasKeeps ==
  ASSUME IInv, NEW s \in Subs, UnsetAlias(s)
  PROVE  IInv'
<1>t. udf \in UdfT /\ rec \in RecT /\ fault \in Faults /\ Tables(udf, rec)
  BY TypeFacts DEF IInv
<1>f. fault' \in Faults /\ UNCHANGED <<interp, frames, selfEnded>> /\ udf[s].entry # "empty"
  BY <1>t DEF UnsetAlias, Faults
<1>1. CASE BadEntry(s)
  <2>1. UNCHANGED <<udf, rec>>
    BY <1>1 DEF UnsetAlias
  <2> QED
    BY <2>1, <1>t, <1>f, TablesKeep
<1>2. CASE ~BadEntry(s)
  <2> DEFINE old == udf[s].entry
  <2>1. rec' = FreeRecord(old) /\ udf' = [udf EXCEPT ![s].entry = "empty"]
    BY <1>2 DEF UnsetAlias
  <2>2. old \in Recs
    BY <1>2, <1>f, <1>t DEF BadEntry, UdfT, Entries
  <2>3. rec' \in RecT /\ udf' \in UdfT
    BY <2>1, <1>t DEF RecT, UdfT, Entries, FreeRecord, Freed
  <2>4. \A q \in Recs : rec'[q].st = IF q = old THEN "freed" ELSE rec[q].st
    BY <2>1, <2>2, <1>t DEF RecT, FreeRecord, Freed
  <2>5. /\ udf'[s].entry = "empty"
        /\ \A t \in Subs \ {s} : udf'[t] = udf[t]
        /\ \A t \in Subs : udf'[t].st = udf[t].st /\ udf'[t].sub = udf[t].sub
    BY <2>1, <1>t DEF UdfT
  <2>6. Tables(udf', rec')
    <3>1. \A q \in Recs, t \in Subs : udf'[t].entry = q <=> t # s /\ udf[t].entry = q
      BY <2>5
    <3>2. ASSUME NEW q \in Recs PROVE rec'[q].st = "used" <=> \E t \in Subs : udf'[t].entry = q
      <4>1. CASE q = old
        <5>1. \A t \in Subs : udf[t].entry = q => t = s
          BY <4>1, <1>t DEF Tables
        <5> QED
          BY <4>1, <5>1, <2>4, <3>1
      <4>2. CASE q # old
        <5>1. (\E t \in Subs : udf'[t].entry = q) <=> (\E t \in Subs : udf[t].entry = q)
          BY <4>2, <3>1
        <5> QED
          BY <4>2, <5>1, <2>4, <1>t DEF Tables
      <4> QED
        BY <4>1, <4>2
    <3> QED
      BY <2>5, <3>1, <3>2, <1>t DEF Tables
  <2> QED
    BY <2>3, <2>5, <2>6, <1>f, TablesKeep
<1> QED
  BY <1>1, <1>2

-----------------------------------------------------------------------------
(* A frame is pushed. *)

\* An interp without frames is not counted.
LEMMA CountNone ==
  ASSUME NEW I, NEW U, NEW f \in Seq(Frame), Placed(I, U, f), NEW i \in Interps,
         I[i].st # "live"
  PROVE  Count(i, f) = 0
<1>1. InFrames(i, f) = {}
  BY DEF InFrames, Placed
<1>2. EvalFrames(i, f) = {}
  BY DEF EvalFrames, Placed
<1> QED
  BY <1>1, <1>2, FS_EmptySet DEF Count

LEMMA PushKeeps ==
  ASSUME IInv, NEW x \in Frame, frames' = Append(frames, x),
         interp' \in InterpT, udf' \in UdfT, UNCHANGED <<rec, selfEnded, fault>>,
         Stays(interp, udf, interp', udf'), Place(interp', udf', frames, x),
         \A i \in Interps : interp'[i].level = interp[i].level + Adds(i, x),
         x.kind # "top", x.kind = "start" => interp[x.of].st # "live",
         Parents(interp', udf'), Tables(udf', rec)
  PROVE  IInv'
<1>1. frames \in Seq(Frame) /\ Levels(interp, frames) /\ Placed(interp, udf, frames)
  BY TypeFacts DEF IInv
<1>2. /\ frames' \in Seq(Frame) /\ Levels(interp', frames')
      /\ Placed(interp', udf', frames')
  BY <1>1, AppendKeeps
<1>3. TypeOK'
  BY <1>2, TypeFacts DEF IInv, TypeOK, InterpT, UdfT, RecT
<1>4. OneStart(frames')
  <2>1. /\ Len(frames') = Len(frames) + 1 /\ frames'[Len(frames) + 1] = x
        /\ Len(frames) \in Nat
        /\ \A k \in 1..Len(frames) : frames'[k] = frames[k]
    BY <1>1, AppendProperties
  <2>2. \A k \in 1..Len(frames) : frames[k].kind = "start" /\ x.kind = "start"
                                  => frames[k].of # x.of
    BY <1>1 DEF Placed
  <2>3. OneStart(frames)
    BY DEF IInv
  <2>4. \A k \in 1..Len(frames') : k \in 1..Len(frames) \/ k = Len(frames) + 1
    BY <2>1
  <2>5. ASSUME NEW j \in 1..Len(frames'), NEW k \in 1..Len(frames'),
               frames'[j].kind = "start", frames'[k].kind = "start",
               frames'[j].of = frames'[k].of
        PROVE  j = k
    <3>1. (j \in 1..Len(frames) \/ j = Len(frames) + 1) /\ (k \in 1..Len(frames) \/ k = Len(frames) + 1)
      BY <2>4
    <3> QED
      BY <2>1, <2>2, <2>3, <2>5, <3>1 DEF OneStart
  <2>6. ASSUME NEW k \in 1..Len(frames'), frames'[k].kind = "top"
        PROVE  k = 1 /\ frames'[k].in = Main
    <3>1. k \in 1..Len(frames)
      BY <2>1, <2>4, <2>6
    <3> QED
      BY <2>1, <2>3, <2>6, <3>1 DEF OneStart
  <2> QED
    BY <2>5, <2>6 DEF OneStart
<1> QED
  BY <1>2, <1>3, <1>4 DEF IInv

\* An interp below a running one is live.
LEMMA ParentLive ==
  ASSUME IInv, Active, Top.in \in Subs
  PROVE  /\ \E j \in 1..Len(frames) : frames[j].in = interp[Top.in].parent
         /\ interp[Top.in].parent \in Interps /\ interp[interp[Top.in].parent].st = "live"
         /\ interp[Top.in].parent \in Subs =>
              \E j \in 1..Len(frames) : frames[j].in = interp[interp[Top.in].parent].parent
<1>1. frames \in Seq(Frame) /\ Placed(interp, udf, frames)
  BY TypeFacts DEF IInv
<1>2. Len(frames) \in 1..Len(frames) /\ Top = frames[Len(frames)] /\ Len(frames) \in Nat
  BY TopFacts, <1>1
<1>3. PICK j \in 1..(Len(frames) - 1) : frames[j].in = interp[Top.in].parent
  BY <1>1, <1>2 DEF Placed
<1>4. j \in 1..Len(frames) /\ 1..(j - 1) \subseteq 1..Len(frames)
  BY <1>2
<1>5. frames[j].in \in Interps
  BY <1>1, <1>4, FrameAt
<1> QED
  BY <1>1, <1>3, <1>4, <1>5 DEF Placed

LEMMA EvalKeeps ==
  ASSUME IInv, NEW s \in Subs, Eval(s) \/ Call(s)
  PROVE  IInv'
<1>1. PICK kind \in {"eval", "call"} :
        /\ frames' = Append(frames, [in |-> s, kind |-> kind, of |-> s])
        /\ interp' = [interp EXCEPT ![s].level = @ + (IF kind = "eval" THEN 2 ELSE 1)]
  BY DEF Eval, Call, Push
<1> DEFINE x == [in |-> s, kind |-> kind, of |-> s]
           n == IF kind = "eval" THEN 2 ELSE 1
<1>2. /\ Names(s) /\ interp[s].st = "live" /\ UNCHANGED <<udf, rec, selfEnded, fault>>
  BY DEF Eval, Call
<1>3. /\ interp \in InterpT /\ udf \in UdfT /\ frames \in Seq(Frame) /\ s \in Interps
      /\ Parents(interp, udf) /\ Tables(udf, rec)
  BY TypeFacts DEF IInv, Interps
<1>4. x \in Frame
  BY <1>3 DEF Frame, Kinds
<1>5. /\ interp' \in InterpT
      /\ \A i \in Interps : /\ interp'[i].st = interp[i].st
                            /\ interp'[i].parent = interp[i].parent
                            /\ interp'[i].level = interp[i].level + (IF i = s THEN n ELSE 0)
  <2>1. n \in Nat /\ interp' = [interp EXCEPT ![s].level = @ + n]
    BY <1>1
  <2> HIDE DEF n
  <2>2. /\ interp[s].level \in Nat
        /\ interp' = [i \in Interps |-> IF i = s THEN [interp[s] EXCEPT !.level = interp[s].level + n]
                                                ELSE interp[i]]
    BY <1>3, <2>1 DEF InterpT
  <2>3. interp' \in InterpT
    BY <1>3, <2>1, <2>2 DEF InterpT
  <2>4. /\ interp'[s].st = interp[s].st /\ interp'[s].parent = interp[s].parent
        /\ interp'[s].level = interp[s].level + n
    BY <1>3, <2>2 DEF InterpT
  <2>5. \A i \in Interps : interp[i].level \in Nat
    BY <1>3 DEF InterpT
  <2> QED
    BY <2>2, <2>3, <2>4, <2>5
<1>6. \A i : Adds(i, x) = IF i = s THEN n ELSE 0
  BY DEF Adds
<1>7. Stays(interp, udf, interp', udf')
  BY <1>2, <1>5 DEF Stays
<1>8. Place(interp', udf', frames, x)
  <2>1. Active /\ Top.in = interp[s].parent /\ udf[s].st = "live"
    BY <1>2 DEF Names, Running
  <2>2. Len(frames) \in 1..Len(frames) /\ frames[Len(frames)].in = interp[s].parent
    BY <2>1, TopFacts
  <2> QED
    BY <1>2, <1>3, <1>5, <2>1, <2>2 DEF Place
<1>9. Parents(interp', udf')
  BY <1>2, <1>3, <1>5 DEF Parents, Interps
<1>10. x.kind \notin {"start", "top"} /\ frames' = Append(frames, x)
  BY <1>1
<1> HIDE DEF x, n
<1>11. \A i \in Interps : interp'[i].level = interp[i].level + Adds(i, x)
  BY <1>5, <1>6
<1> QED
  BY <1>2, <1>3, <1>4, <1>5, <1>7, <1>8, <1>9, <1>10, <1>11, PushKeeps

\* A frame of the parent of the running interp, for an alias or for onExit.
LEMMA AboveKeeps ==
  ASSUME IInv, Active, Top.in \in Subs, NEW x \in Frame,
         x.in = interp[Top.in].parent,
         \/ x.kind = "alias" /\ x.of \in Recs
         \/ x.kind = "onExit" /\ x.of \in Subs,
         frames' = Append(frames, x), interp' \in InterpT,
         \A i \in Interps : /\ interp'[i].st = interp[i].st
                            /\ interp'[i].parent = interp[i].parent
                            /\ interp'[i].level = interp[i].level + (IF i = x.in THEN 1 ELSE 0),
         UNCHANGED <<udf, rec, selfEnded, fault>>
  PROVE  IInv'
<1>1. udf' \in UdfT /\ Parents(interp, udf) /\ Tables(udf', rec)
  BY TypeFacts DEF IInv
<1>2. Stays(interp, udf, interp', udf')
  BY DEF Stays
<1>3. Place(interp', udf', frames, x)
  BY ParentLive DEF Place, Interps
<1>4. Parents(interp', udf')
  BY <1>1 DEF Parents, Interps
<1>5. \A i \in Interps : interp'[i].level = interp[i].level + Adds(i, x)
  <2>1. \A i : Adds(i, x) = IF i = x.in THEN 1 ELSE 0
    BY DEF Adds
  <2> QED
    BY <2>1
<1> QED
  BY <1>1, <1>2, <1>3, <1>4, <1>5, PushKeeps

LEMMA AskParentKeeps ==
  ASSUME IInv, NEW i \in Interps, NEW code \in {0, 1}, AskParent(i, code)
  PROVE  IInv'
<1> DEFINE p == interp[i].parent
           x == [in |-> p, kind |-> "onExit", of |-> i]
           mid == [interp EXCEPT ![p].level = @ + 1]
<1>1. Active /\ Top.in = i /\ i \in Subs /\ interp \in InterpT
  BY TypeFacts DEF AskParent, Running, IInv
<1>2. p \in Interps
  BY <1>1, ParentLive
<1>3. x \in Frame /\ frames' = Append(frames, x)
  BY <1>1, <1>2 DEF Frame, Kinds, AskParent, Push
<1>4. interp' = [mid EXCEPT ![i].code = code] /\ UNCHANGED <<udf, rec, selfEnded, fault>>
  BY DEF AskParent
<1>5. /\ mid \in InterpT
      /\ \A j \in Interps : /\ mid[j].st = interp[j].st
                            /\ mid[j].parent = interp[j].parent
                            /\ mid[j].level = interp[j].level + (IF j = p THEN 1 ELSE 0)
  BY <1>1, <1>2 DEF InterpT
<1> HIDE DEF mid
<1>6. /\ interp' \in InterpT
      /\ \A j \in Interps : /\ interp'[j].st = mid[j].st
                            /\ interp'[j].parent = mid[j].parent
                            /\ interp'[j].level = mid[j].level
  BY <1>4, <1>5 DEF InterpT
<1>7. x.in = interp[Top.in].parent /\ x.kind = "onExit" /\ x.of \in Subs
  BY <1>1
<1> HIDE DEF x
<1>8. \A j \in Interps : /\ interp'[j].st = interp[j].st
                         /\ interp'[j].parent = interp[j].parent
                         /\ interp'[j].level = interp[j].level + (IF j = x.in THEN 1 ELSE 0)
  BY <1>1, <1>5, <1>6, <1>7
<1> QED
  BY <1>1, <1>3, <1>4, <1>6, <1>7, <1>8, AboveKeeps

LEMMA InvokeAliasKeeps ==
  ASSUME IInv, NEW i \in Interps, NEW r \in Recs, InvokeAlias(i, r)
  PROVE  IInv'
<1> DEFINE p == interp[i].parent
           x == [in |-> p, kind |-> "alias", of |-> r]
<1>1. Active /\ Top.in = i /\ i \in Subs /\ interp \in InterpT
  BY TypeFacts DEF InvokeAlias, Running, IInv, RecT, Interps
<1>2. p \in Interps
  BY <1>1, ParentLive
<1>3. x \in Frame /\ frames' = Append(frames, x)
  BY <1>1, <1>2 DEF Frame, Kinds, InvokeAlias, Push
<1>4. interp' = [interp EXCEPT ![p].level = @ + 1] /\ UNCHANGED <<udf, rec, selfEnded, fault>>
  BY DEF InvokeAlias
<1>5. /\ interp' \in InterpT
      /\ \A j \in Interps : /\ interp'[j].st = interp[j].st
                            /\ interp'[j].parent = interp[j].parent
                            /\ interp'[j].level = interp[j].level + (IF j = p THEN 1 ELSE 0)
  BY <1>1, <1>2, <1>4 DEF InterpT
<1>6. x.in = interp[Top.in].parent /\ x.kind = "alias" /\ x.of \in Recs /\ x.in = p
  BY <1>1
<1> HIDE DEF x
<1>7. \A j \in Interps : /\ interp'[j].st = interp[j].st
                         /\ interp'[j].parent = interp[j].parent
                         /\ interp'[j].level = interp[j].level + (IF j = x.in THEN 1 ELSE 0)
  BY <1>5, <1>6
<1> QED
  BY <1>1, <1>3, <1>4, <1>5, <1>6, <1>7, AboveKeeps

LEMMA NewInterpKeeps ==
  ASSUME IInv, NEW i \in Interps, NEW s \in Subs, NEW script \in BOOLEAN,
         NewInterp(i, s, script)
  PROVE  IInv'
<1> DEFINE x == [in |-> s, kind |-> "start", of |-> s]
           lv == IF script THEN 1 ELSE 0
           st == IF script THEN "building" ELSE "live"
<1>1. /\ interp \in InterpT /\ udf \in UdfT /\ rec \in RecT /\ frames \in Seq(Frame) /\ s \in Interps
      /\ Parents(interp, udf) /\ Tables(udf, rec) /\ Levels(interp, frames)
      /\ Placed(interp, udf, frames)
  BY TypeFacts DEF IInv, Interps
<1>2. /\ Active /\ Top.in = i /\ interp[s].st = "none"
      /\ UNCHANGED <<rec, selfEnded, fault>>
  BY DEF NewInterp, Running
<1>3. interp[s].level = 0
  BY <1>1, <1>2, CountNone DEF Levels
<1>4. /\ interp' \in InterpT
      /\ interp'[s].st = "live" /\ interp'[s].parent = i /\ interp'[s].level = lv
      /\ \A j \in Interps \ {s} : interp'[j] = interp[j]
  BY <1>1 DEF NewInterp, InterpT, NoInterp
<1>5. /\ udf' \in UdfT
      /\ udf'[s].st = st /\ udf'[s].sub /\ udf'[s].entry = udf[s].entry
      /\ \A t \in Subs \ {s} : udf'[t] = udf[t]
  <2> DEFINE a == [udf EXCEPT ![s].st = st]
             b == [a EXCEPT ![s].sub = TRUE]
  <2>1. udf' = [b EXCEPT ![s].ref = ~script]
    BY DEF NewInterp
  <2>2. /\ a \in UdfT /\ a[s].st = st /\ a[s].entry = udf[s].entry
        /\ \A t \in Subs \ {s} : a[t] = udf[t]
    BY <1>1 DEF UdfT
  <2> HIDE DEF a, st
  <2>3. /\ b \in UdfT /\ b[s].st = st /\ b[s].sub /\ b[s].entry = udf[s].entry
        /\ \A t \in Subs \ {s} : b[t] = udf[t]
    BY <2>2 DEF UdfT
  <2> HIDE DEF b
  <2> QED
    BY <2>1, <2>3 DEF UdfT
<1>6. Stays(interp, udf, interp', udf')
  BY <1>1, <1>2, <1>4, <1>5 DEF Stays
<1>7. Parents(interp', udf')
  BY <1>1, <1>4, <1>5 DEF Parents, Interps
<1>8. udf[s].entry = "empty"
  BY <1>1, <1>2 DEF Parents, Tables
<1>9. Tables(udf', rec)
  <2>1. \A t \in Subs : udf'[t].entry = udf[t].entry
    BY <1>5
  <2>2. \A t \in Subs : udf'[t].entry # "empty" => udf'[t].st = "live"
    BY <1>1, <1>5, <1>8 DEF Tables
  <2>3. \A t \in Subs : udf'[t].st \in {"building", "live"} => udf'[t].sub
    BY <1>1, <1>5 DEF Tables
  <2> QED
    BY <1>1, <2>1, <2>2, <2>3 DEF Tables
<1>10. CASE script
  <2>1. x \in Frame /\ frames' = Append(frames, x)
    BY <1>1, <1>10 DEF Frame, Kinds, NewInterp, Push
  <2>2. \A j \in Interps : interp'[j].level = interp[j].level + Adds(j, x)
    <3>1. \A j : Adds(j, x) = IF j = s THEN 1 ELSE 0
      BY DEF Adds
    <3>2. \A j \in Interps : interp[j].level \in Nat
      BY <1>1 DEF InterpT
    <3> HIDE DEF x
    <3> QED
      BY <1>3, <1>4, <1>10, <3>1, <3>2
  <2>3. Place(interp', udf', frames, x)
    <3>1. Len(frames) \in 1..Len(frames) /\ frames[Len(frames)].in = i
      BY <1>2, TopFacts
    <3> QED
      BY <3>1, <1>4, <1>5, <1>10 DEF Place
  <2>4. x.kind = "start" /\ interp[x.of].st # "live"
    BY <1>2
  <2> HIDE DEF x
  <2> QED
    BY <2>1, <2>2, <2>3, <2>4, <1>2, <1>4, <1>5, <1>6, <1>7, <1>9, PushKeeps
<1>11. CASE ~script
  <2>1. frames' = frames
    BY <1>11 DEF NewInterp
  <2>2. Placed(interp', udf', frames')
    BY <2>1, <1>1, <1>6, SameStack
  <2>3. Levels(interp', frames')
    BY <2>1, <1>1, <1>3, <1>4, <1>11 DEF Levels
  <2>4. TypeOK'
    BY <2>1, <1>2, <1>4, <1>5, TypeFacts DEF IInv, TypeOK, InterpT, UdfT, RecT
  <2> QED
    BY <2>1, <2>2, <2>3, <2>4, <1>2, <1>7, <1>9 DEF IInv
<1> QED
  BY <1>10, <1>11

-----------------------------------------------------------------------------
(* The top frame goes. *)

\* The interp that the top frame ran in takes its levels back.
LEMMA LowerTop ==
  ASSUME IInv, Active, NEW n, n = IF Top.kind = "eval" THEN 2 ELSE 1, NEW V,
         \A t \in Subs : V[t].st = udf[t].st \/ (Top.kind = "start" /\ t = Top.of)
  PROVE  /\ Rest \in Seq(Frame) /\ OneStart(Rest)
         /\ Lowered(Top.in, n) \in InterpT
         /\ \A i \in Interps : /\ Lowered(Top.in, n)[i].st = interp[i].st
                               /\ Lowered(Top.in, n)[i].parent = interp[i].parent
         /\ Levels(Lowered(Top.in, n), Rest) /\ Placed(Lowered(Top.in, n), V, Rest)
         /\ Top.kind = "start" => Idle(Top.of, Rest)
<1> DEFINE J == Lowered(Top.in, n)
<1>1. /\ interp \in InterpT /\ udf \in UdfT /\ frames \in Seq(Frame) /\ frames # <<>>
      /\ Levels(interp, frames) /\ Placed(interp, udf, frames) /\ OneStart(frames)
  BY TypeFacts, TopFacts DEF IInv
<1>2. /\ Top = frames[Len(frames)] /\ Top.in \in Interps /\ Len(frames) \in 1..Len(frames)
      /\ n \in Nat
  BY TopFacts
<1>3. Top.kind = "eval" => Top.of = Top.in
  BY <1>1, <1>2 DEF Placed
<1>4. \A i : Adds(i, Top) = IF i = Top.in THEN n ELSE 0
  BY <1>3 DEF Adds
<1>5. J = [i \in Interps |-> IF i = Top.in THEN [interp[i] EXCEPT !.level = @ - n] ELSE interp[i]]
  BY <1>1, <1>2 DEF Lowered, InterpT
<1>6. \A i \in Interps : /\ J[i].st = interp[i].st /\ J[i].parent = interp[i].parent
                         /\ J[i].level = interp[i].level - (IF i = Top.in THEN n ELSE 0)
  <2>1. \A i \in Interps : interp[i].level \in Nat
    BY <1>1 DEF InterpT
  <2> SUFFICES ASSUME NEW i \in Interps
               PROVE  /\ J[i].st = interp[i].st /\ J[i].parent = interp[i].parent
                      /\ J[i].level = interp[i].level - (IF i = Top.in THEN n ELSE 0)
    OBVIOUS
  <2>2. CASE i = Top.in
    <3>1. J[i] = [interp[i] EXCEPT !.level = @ - n]
      BY <1>5, <2>2
    <3> HIDE DEF J
    <3> QED
      BY <1>1, <2>2, <3>1 DEF InterpT
  <2>3. CASE i # Top.in
    <3>1. J[i] = interp[i]
      BY <1>5, <2>3
    <3> HIDE DEF J
    <3> QED
      BY <2>1, <2>3, <3>1
  <2> QED
    BY <2>2, <2>3
<1> HIDE DEF J
<1>7. \A i \in Interps : J[i].level = interp[i].level - Adds(i, frames[Len(frames)])
  BY <1>2, <1>4, <1>6
<1>8. \A i \in Interps : interp[i].st = "live" =>
        /\ J[i].st = "live" /\ J[i].parent = interp[i].parent
        /\ i \in Subs => V[i].st = udf[i].st
                         \/ (frames[Len(frames)].kind = "start" /\ i = frames[Len(frames)].of)
  BY <1>2, <1>6
<1>9. /\ Rest \in Seq(Frame) /\ OneStart(Rest) /\ Levels(J, Rest) /\ Placed(J, V, Rest)
      /\ \A i \in Interps : J[i].level \in Nat
      /\ Top.kind = "start" => Idle(Top.of, Rest)
  BY <1>1, <1>2, <1>7, <1>8, RestKeeps DEF Rest
<1>10. J \in InterpT
  <2> SUFFICES ASSUME NEW i \in Interps
               PROVE  J[i] \in [st : {"none", "live", "freed"}, parent : Interps \cup {None},
                                level : Nat, exited : BOOLEAN, code : {0, 1},
                                deleting : BOOLEAN, kept : BOOLEAN]
    BY <1>5 DEF InterpT
  <2>1. J[i].level \in Nat
    BY <1>9
  <2>2. J[i] = IF i = Top.in THEN [interp[i] EXCEPT !.level = @ - n] ELSE interp[i]
    BY <1>5
  <2> QED
    BY <1>1, <2>1, <2>2 DEF InterpT
<1> QED
  BY <1>6, <1>9, <1>10 DEF J

\* The top frame goes and nothing is freed.
LEMMA PopKeeps ==
  ASSUME IInv, Active, frames' = Rest, interp' \in InterpT, udf' \in UdfT, fault' \in Faults,
         NEW n, n = IF Top.kind = "eval" THEN 2 ELSE 1,
         \A i \in Interps : /\ interp'[i].st = Lowered(Top.in, n)[i].st
                            /\ interp'[i].parent = Lowered(Top.in, n)[i].parent
                            /\ interp'[i].level = Lowered(Top.in, n)[i].level,
         \A t \in Subs : /\ udf'[t].entry = udf[t].entry
                         /\ udf'[t] # udf[t] => /\ Top.kind = "start" /\ t = Top.of
                                                /\ udf'[t].st = "live" /\ udf'[t].sub,
         UNCHANGED <<rec, selfEnded>>
  PROVE  IInv'
<1>1. \A t \in Subs : udf'[t].st = udf[t].st \/ (Top.kind = "start" /\ t = Top.of)
  OBVIOUS
<1>2. /\ Rest \in Seq(Frame) /\ OneStart(Rest)
      /\ \A i \in Interps : /\ Lowered(Top.in, n)[i].st = interp[i].st
                            /\ Lowered(Top.in, n)[i].parent = interp[i].parent
      /\ Levels(Lowered(Top.in, n), Rest) /\ Placed(Lowered(Top.in, n), udf', Rest)
  BY <1>1, LowerTop
<1>3. Levels(interp', frames')
  BY <1>2 DEF Levels
<1>4. Placed(interp', udf', frames')
  <2>1. Stays(Lowered(Top.in, n), udf', interp', udf')
    BY DEF Stays
  <2> QED
    BY <1>2, <2>1, SameStack
<1>5. TypeOK'
  BY <1>2, TypeFacts DEF IInv, TypeOK, InterpT, UdfT, RecT
<1>6. Top.kind = "start" => interp[Top.of].st # "none"
  BY TopFacts DEF IInv, Placed
<1>7. Parents(interp', udf')
  BY <1>2, <1>6 DEF IInv, Parents, Interps
<1>8. Tables(udf', rec')
  BY DEF IInv, Tables
<1> QED
  BY <1>2, <1>3, <1>4, <1>5, <1>7, <1>8 DEF IInv

\* What a deletion leaves of the invariant.
LEMMA DeletionKeeps ==
  ASSUME IInv, NEW I \in InterpT, NEW U \in UdfT, NEW D, NEW E,
         Deletable(I, U, E, frames'), Delete(I, U, D, E),
         frames' \in Seq(Frame), OneStart(frames'), selfEnded' \subseteq Subs
  PROVE  IInv'
<1>1. udf \in UdfT /\ rec \in RecT
  BY TypeFacts DEF IInv
<1>2. /\ interp' \in InterpT /\ udf' \in UdfT /\ rec' \in RecT /\ fault' \in Faults
      /\ Levels(interp', frames') /\ Placed(interp', udf', frames')
      /\ Parents(interp', udf') /\ Tables(udf', rec')
  BY <1>1, DeleteKeeps
<1>3. TypeOK'
  BY <1>2, TypeFacts DEF TypeOK, InterpT, UdfT, RecT
<1> QED
  BY <1>2, <1>3 DEF IInv

LEMMA EraseKeeps ==
  ASSUME IInv, NEW I \in InterpT, NEW s \in Subs, Erase(I, s),
         \A i \in Interps : I[i].st = interp[i].st /\ I[i].parent = interp[i].parent,
         Levels(I, frames'), Placed(I, udf, frames'), OneStart(frames'),
         frames' \in Seq(Frame), Idle(s, frames'), udf[s].st # "none",
         UNCHANGED selfEnded
  PROVE  IInv'
<1> DEFINE D == IF udf[s].sub THEN DeletedWith(I, s) ELSE {}
           E == {s} \cup ObjectsOf(I, D)
<1>1. udf \in UdfT /\ selfEnded \subseteq Subs /\ Parents(interp, udf) /\ Tables(udf, rec)
  BY TypeFacts DEF IInv
<1>2. Parents(I, udf)
  BY <1>1 DEF Parents, Interps
<1>3. Delete(I, udf, D, E)
  BY DEF Erase
<1>4. \A t \in ObjectsOf(I, D) : t \in Subs /\ Idle(t, frames') /\ udf[t].st # "none"
  BY ObjectsIdle DEF ObjectsOf, Owned
<1>5. \A t \in E : t \in Subs /\ Idle(t, frames') /\ udf[t].st # "none"
  BY <1>4
<1> HIDE DEF D, E
<1>6. Deletable(I, udf, E, frames')
  BY <1>1, <1>2, <1>5 DEF Deletable, Parents
<1> QED
  BY <1>1, <1>3, <1>6, DeletionKeeps

LEMMA DropKeeps ==
  ASSUME IInv, NEW s \in Subs, Drop(s)
  PROVE  IInv'
<1>1. /\ interp \in InterpT /\ udf \in UdfT /\ rec \in RecT /\ frames \in Seq(Frame)
      /\ fault \in Faults
      /\ Levels(interp, frames) /\ Placed(interp, udf, frames) /\ OneStart(frames)
      /\ Tables(udf, rec) /\ udf[s].st = "live" /\ UNCHANGED <<frames, selfEnded>>
  BY TypeFacts DEF IInv, Drop
<1>2. CASE InMethod(s, frames) \/ HoldsItself(s)
  <2>1. udf' = [udf EXCEPT ![s].ref = FALSE] /\ UNCHANGED <<interp, rec, fault>>
    BY <1>2 DEF Drop
  <2>2. udf' \in UdfT /\ \A t \in Subs : /\ udf'[t].st = udf[t].st /\ udf'[t].sub = udf[t].sub
                                         /\ udf'[t].entry = udf[t].entry
    BY <1>1, <2>1 DEF UdfT
  <2>3. Tables(udf', rec')
    BY <1>1, <2>1, <2>2 DEF Tables
  <2> QED
    BY <1>1, <2>1, <2>2, <2>3, TablesKeep
<1>3. CASE ~(InMethod(s, frames) \/ HoldsItself(s))
  <2>1. Erase(interp, s)
    BY <1>3 DEF Drop
  <2>2. Idle(s, frames')
    BY <1>1, <1>3 DEF Idle, InMethod, Placed
  <2>3. /\ Levels(interp, frames') /\ Placed(interp, udf, frames') /\ OneStart(frames')
        /\ frames' \in Seq(Frame)
    BY <1>1
  <2> QED
    BY <1>1, <2>1, <2>2, <2>3, EraseKeeps
<1> QED
  BY <1>2, <1>3

LEMMA EndProgramKeeps ==
  ASSUME IInv, EndProgram
  PROVE  IInv'
<1> DEFINE D == DeletedWith(interp, Main)
           E == ObjectsOf(interp, D)
<1>1. /\ interp \in InterpT /\ udf \in UdfT /\ selfEnded \subseteq Subs /\ frames \in Seq(Frame)
      /\ Levels(interp, frames) /\ Placed(interp, udf, frames) /\ OneStart(frames)
      /\ Parents(interp, udf) /\ Tables(udf, rec) /\ UNCHANGED <<frames, selfEnded>>
  BY TypeFacts DEF IInv, EndProgram
<1>2. Delete(interp, udf, D, E)
  BY DEF EndProgram, DeleteInterp
<1>3. \A t \in E : t \in Subs /\ Idle(t, frames) /\ udf[t].st # "none"
  BY <1>1, ObjectsIdle DEF ObjectsOf, Owned
<1> HIDE DEF D, E
<1>4. Deletable(interp, udf, E, frames')
  BY <1>1, <1>3 DEF Deletable, Parents
<1>5. frames' \in Seq(Frame) /\ OneStart(frames')
  BY <1>1
<1> QED
  BY <1>1, <1>2, <1>4, <1>5, DeletionKeeps

LEMMA TopReturnsKeeps ==
  ASSUME IInv, TopReturns
  PROVE  IInv'
<1>1. /\ Active /\ Top.kind = "top" /\ frames' = <<>> /\ interp' = Lowered(Main, 1)
      /\ UNCHANGED <<udf, rec, selfEnded, fault>>
  BY DEF TopReturns
<1>2. /\ frames \in Seq(Frame) /\ Len(frames) \in 1..Len(frames) /\ Top = frames[Len(frames)]
      /\ udf \in UdfT /\ fault \in Faults
  BY <1>1, TopFacts, TypeFacts DEF IInv
<1>3. Len(frames) = 1 /\ Top.in = Main
  BY <1>1, <1>2 DEF IInv, OneStart
<1>4. Rest = <<>>
  BY <1>2, <1>3 DEF Rest
<1>5. Lowered(Top.in, 1) \in InterpT
  BY <1>1, LowerTop
<1> QED
  BY <1>1, <1>2, <1>3, <1>4, <1>5, PopKeeps

LEMMA StartFacts ==
  ASSUME IInv, Active, Top.kind = "start"
  PROVE  /\ Top.of = Top.in /\ Top.of \in Subs /\ udf[Top.of].st = "building"
         /\ udf[Top.of].entry = "empty" /\ udf[Top.of].sub
<1>1. Len(frames) \in 1..Len(frames) /\ Top = frames[Len(frames)]
  BY TopFacts
<1>2. Top.of = Top.in /\ Top.of \in Subs /\ udf[Top.of].st = "building"
  BY <1>1 DEF IInv, Placed
<1> QED
  BY <1>2 DEF IInv, Tables

LEMMA StartReturnsKeeps ==
  ASSUME IInv, StartReturns
  PROVE  IInv'
<1> DEFINE s == Top.of
           a == [udf EXCEPT ![s].st = "live"]
<1>1. /\ Active /\ Top.kind = "start" /\ frames' = Rest /\ interp' = Lowered(s, 1)
      /\ udf' = [a EXCEPT ![s].ref = TRUE] /\ UNCHANGED <<rec, selfEnded, fault>>
  BY DEF StartReturns
<1>2. s = Top.in /\ s \in Subs /\ udf[s].sub
  BY <1>1, StartFacts
<1>3. udf \in UdfT /\ fault \in Faults
  BY TypeFacts DEF IInv
<1> HIDE DEF s
<1>4. /\ a \in UdfT /\ a[s].st = "live" /\ a[s].sub = udf[s].sub /\ a[s].entry = udf[s].entry
      /\ \A t \in Subs \ {s} : a[t] = udf[t]
  BY <1>2, <1>3 DEF UdfT
<1> HIDE DEF a
<1>5. /\ udf' \in UdfT /\ udf'[s].st = "live" /\ udf'[s].sub = a[s].sub
      /\ udf'[s].entry = udf[s].entry /\ \A t \in Subs \ {s} : udf'[t] = udf[t]
  <2>1. udf' = [a EXCEPT ![s].ref = TRUE]
    BY <1>1
  <2>2. udf' \in UdfT
    <3>1. udf' = [t \in Subs |-> IF t = s THEN [a[s] EXCEPT !.ref = TRUE] ELSE a[t]]
      BY <1>2, <1>4, <2>1 DEF UdfT
    <3> SUFFICES ASSUME NEW t \in Subs
                 PROVE  udf'[t] \in [st : {"none", "building", "live", "freed"}, sub : BOOLEAN,
                                     ref : BOOLEAN, entry : Entries]
      BY <3>1 DEF UdfT
    <3>2. a[t] \in [st : {"none", "building", "live", "freed"}, sub : BOOLEAN,
                    ref : BOOLEAN, entry : Entries]
      BY <1>4 DEF UdfT
    <3> HIDE DEF Entries
    <3> QED
      BY <3>1, <3>2
  <2>3. udf'[s].st = a[s].st /\ udf'[s].entry = a[s].entry /\ \A t \in Subs \ {s} : udf'[t] = a[t]
    BY <1>2, <1>4, <2>1 DEF UdfT
  <2>4. udf'[s].sub = a[s].sub
    BY <1>2, <1>4, <2>1 DEF UdfT
  <2> QED
    BY <1>4, <2>2, <2>3, <2>4
<1>6. Lowered(Top.in, 1) \in InterpT
  BY <1>1, <1>3, LowerTop
<1>7. \A t \in Subs : /\ udf'[t].entry = udf[t].entry
                      /\ udf'[t] # udf[t] => /\ Top.kind = "start" /\ t = Top.of
                                             /\ udf'[t].st = "live" /\ udf'[t].sub
  <2>1. udf'[s].sub
    BY <1>2, <1>4, <1>5
  <2> QED
    BY <2>1, <1>1, <1>5 DEF s
<1> QED
  BY <1>1, <1>2, <1>3, <1>5, <1>6, <1>7, PopKeeps

LEMMA StartFailsKeeps ==
  ASSUME IInv, StartFails
  PROVE  IInv'
<1>1. /\ Active /\ Top.kind = "start" /\ frames' = Rest /\ Erase(Lowered(Top.of, 1), Top.of)
      /\ UNCHANGED selfEnded
  BY DEF StartFails
<1>2. Top.of = Top.in /\ Top.of \in Subs /\ udf[Top.of].st = "building"
  BY <1>1, StartFacts
<1>3. /\ Rest \in Seq(Frame) /\ OneStart(Rest) /\ Lowered(Top.of, 1) \in InterpT
      /\ \A i \in Interps : /\ Lowered(Top.of, 1)[i].st = interp[i].st
                            /\ Lowered(Top.of, 1)[i].parent = interp[i].parent
      /\ Levels(Lowered(Top.of, 1), Rest) /\ Placed(Lowered(Top.of, 1), udf, Rest)
      /\ Idle(Top.of, Rest)
  BY <1>1, <1>2, LowerTop
<1> QED
  BY <1>1, <1>2, <1>3, EraseKeeps

LEMMA StartExitsKeeps ==
  ASSUME IInv, StartExits
  PROVE  IInv'
<1> DEFINE s == Top.of
           I == Lowered(s, 1)
           D == DeletedWith(I, s)
           E == ObjectsOf(I, D)
           after == IF I[s].code = 0 THEN [udf[s] EXCEPT !.st = "live", !.ref = TRUE] ELSE NoObject
           U == [udf EXCEPT ![s] = after]
<1>1. /\ Active /\ Top.kind = "start" /\ frames' = Rest /\ selfEnded' = selfEnded \cup {s}
  BY DEF StartExits
<1>2. /\ s = Top.in /\ s \in Subs /\ udf[s].st = "building" /\ udf[s].sub
      /\ udf[s].entry = "empty"
  BY <1>1, StartFacts
<1>3. /\ udf \in UdfT /\ rec \in RecT /\ selfEnded \subseteq Subs /\ Tables(udf, rec)
      /\ Parents(interp, udf)
  BY TypeFacts DEF IInv
<1>4. /\ udf[s] \in [st : {"none", "building", "live", "freed"}, sub : BOOLEAN,
                     ref : BOOLEAN, entry : Entries]
  BY <1>2, <1>3 DEF UdfT
<1>5. /\ after \in [st : {"none", "building", "live", "freed"}, sub : BOOLEAN,
                    ref : BOOLEAN, entry : Entries]
      /\ after.entry = "empty" /\ after.st \in {"live", "freed"} /\ (after.st = "live" => after.sub)
  BY <1>2, <1>4 DEF NoObject, Entries
<1> HIDE DEF after
<1>6. /\ U \in UdfT /\ U[s] = after /\ \A t \in Subs \ {s} : U[t] = udf[t]
  BY <1>2, <1>3, <1>5 DEF UdfT
<1> HIDE DEF U, s
<1>7. \A t \in Subs : U[t].st = udf[t].st \/ (Top.kind = "start" /\ t = Top.of)
  BY <1>1, <1>6 DEF s
<1>8. /\ Rest \in Seq(Frame) /\ OneStart(Rest) /\ I \in InterpT
      /\ \A i \in Interps : I[i].st = interp[i].st /\ I[i].parent = interp[i].parent
      /\ Levels(I, Rest) /\ Placed(I, U, Rest)
  BY <1>1, <1>2, <1>7, LowerTop
<1>9. /\ Placed(I, udf, Rest)
  BY <1>1, <1>2, LowerTop
<1>10. CASE I[s].code # 0 /\ ~I[s].kept
  <2>1. fault' = "freedInterp" /\ interp' = I /\ UNCHANGED <<udf, rec>>
    BY <1>10 DEF StartExits, s
  <2>2. TypeOK'
    BY <2>1, <1>1, <1>2, <1>3, <1>8, TypeFacts DEF TypeOK, InterpT, UdfT, RecT, Faults
  <2>3. Parents(interp', udf')
    BY <2>1, <1>3, <1>8 DEF Parents, Interps
  <2> QED
    BY <2>1, <2>2, <2>3, <1>1, <1>3, <1>8, <1>9 DEF IInv
<1>11. CASE ~(I[s].code # 0 /\ ~I[s].kept)
  <2>1. Delete(I, U, D, E)
    BY <1>11 DEF StartExits, s, U, after
  <2>2. \A t \in E : t \in Subs /\ Idle(t, Rest) /\ udf[t].st # "none"
    BY <1>8, ObjectsIdle DEF ObjectsOf, Owned
  <2> HIDE DEF D, E, I
  <2>3. \A t \in Subs : /\ U[t].entry = udf[t].entry
                        /\ U[t].st = "none" <=> udf[t].st = "none"
    BY <1>2, <1>5, <1>6
  <2>4. Parents(I, U)
    BY <2>3, <1>2, <1>3, <1>8 DEF Parents, Interps
  <2>5. Tables(U, rec)
    <3>1. \A t \in Subs : U[t].entry # "empty" => U[t].st = "live"
      BY <1>3, <1>5, <1>6 DEF Tables
    <3>2. \A t \in Subs : U[t].st \in {"building", "live"} => U[t].sub
      BY <1>3, <1>5, <1>6 DEF Tables
    <3> QED
      BY <2>3, <3>1, <3>2, <1>3 DEF Tables
  <2>6. \A t \in E : t \in Subs /\ I[t].st # "none" /\ Idle(t, Rest)
    BY <2>2, <2>3, <2>4 DEF Parents
  <2>7. Deletable(I, U, E, frames')
    BY <2>3, <2>4, <2>5, <2>6, <1>1, <1>8 DEF Deletable
  <2>8. frames' \in Seq(Frame) /\ OneStart(frames') /\ selfEnded' \subseteq Subs
    BY <1>1, <1>2, <1>3, <1>8
  <2> QED
    BY <2>1, <2>7, <2>8, <1>6, <1>8, DeletionKeeps
<1> QED
  BY <1>10, <1>11

LEMMA MethodReturnsKeeps ==
  ASSUME IInv, MethodReturns
  PROVE  IInv'
<1> DEFINE s == Top.of
           n == IF Top.kind = "eval" THEN 2 ELSE 1
           I == Lowered(s, n)
<1>1. /\ Active /\ Top.kind \in {"eval", "call"} /\ frames' = Rest /\ UNCHANGED selfEnded
      /\ IF udf[s].ref \/ InMethod(s, Rest) \/ HoldsItself(s)
         THEN interp' = I /\ UNCHANGED <<udf, rec, fault>>
         ELSE Erase(I, s)
  BY DEF MethodReturns
<1>2. Len(frames) \in 1..Len(frames) /\ Top = frames[Len(frames)]
  BY <1>1, TopFacts
<1>3. s = Top.in /\ s \in Subs /\ udf[s].st = "live"
  BY <1>1, <1>2 DEF IInv, Placed
<1>4. udf \in UdfT /\ fault \in Faults
  BY TypeFacts DEF IInv
<1>5. /\ Rest \in Seq(Frame) /\ OneStart(Rest) /\ I \in InterpT
      /\ \A i \in Interps : I[i].st = interp[i].st /\ I[i].parent = interp[i].parent
      /\ Levels(I, Rest) /\ Placed(I, udf, Rest)
  BY <1>1, <1>3, LowerTop
<1> HIDE DEF s
<1>6. CASE udf[s].ref \/ InMethod(s, Rest) \/ HoldsItself(s)
  BY <1>1, <1>3, <1>4, <1>5, <1>6, PopKeeps
<1>7. CASE ~(udf[s].ref \/ InMethod(s, Rest) \/ HoldsItself(s))
  <2>1. Idle(s, Rest)
    BY <1>3, <1>5, <1>7 DEF Idle, InMethod, Placed
  <2> HIDE DEF I
  <2> QED
    BY <2>1, <1>1, <1>3, <1>5, <1>7, EraseKeeps
<1> QED
  BY <1>6, <1>7

LEMMA AliasReturnsKeeps ==
  ASSUME IInv, AliasReturns
  PROVE  IInv'
<1>1. /\ Active /\ Top.kind = "alias" /\ frames' = Rest /\ interp' = Lowered(Top.in, 1)
      /\ fault' \in Faults /\ UNCHANGED <<udf, rec, selfEnded>>
  BY DEF AliasReturns, Faults
<1>2. udf \in UdfT
  BY TypeFacts DEF IInv
<1>3. Lowered(Top.in, 1) \in InterpT
  BY <1>1, LowerTop
<1> QED
  BY <1>1, <1>2, <1>3, PopKeeps

LEMMA OnExitReturnsKeeps ==
  ASSUME IInv, NEW goOn \in BOOLEAN, OnExitReturns(goOn)
  PROVE  IInv'
<1> DEFINE J == Lowered(Top.in, 1)
<1>1. /\ Active /\ Top.kind = "onExit" /\ frames' = Rest
      /\ interp' = [J EXCEPT ![Top.of].exited = ~goOn]
      /\ UNCHANGED <<udf, rec, selfEnded, fault>>
  BY DEF OnExitReturns
<1>e. PICK e \in BOOLEAN : e = ~goOn
  OBVIOUS
<1>2. udf \in UdfT /\ fault \in Faults
  BY TypeFacts DEF IInv
<1>3. J \in InterpT
  BY <1>1, LowerTop
<1> HIDE DEF J
<1>4. /\ interp' \in InterpT
      /\ \A i \in Interps : /\ interp'[i].st = J[i].st /\ interp'[i].parent = J[i].parent
                            /\ interp'[i].level = J[i].level
  <2>1. PICK t \in Interps : interp' = [J EXCEPT ![t].exited = e]
    <3>1. Top.of \in Interps
      BY <1>1, TopFacts DEF IInv, Placed, Interps
    <3> QED
      BY <1>1, <1>e, <3>1
  <2> QED
    BY <1>3, <2>1 DEF InterpT
<1> QED
  BY <1>1, <1>2, <1>4, PopKeeps DEF J

-----------------------------------------------------------------------------
(* Every step, and the properties. *)

LEMMA NextIInv == IInv /\ [Next]_vars => IInv'
<1> SUFFICES ASSUME IInv, [Next]_vars PROVE IInv'
  OBVIOUS
<1>1. CASE UNCHANGED vars
  <2>1. interp \in InterpT /\ fault \in Faults
    BY TypeFacts DEF IInv
  <2> QED
    BY <1>1, <2>1, MarksKeep DEF vars
<1>2. CASE Script
  <2>1. ASSUME NEW i \in Interps,
               \/ \E s \in Subs, script \in BOOLEAN : NewInterp(i, s, script)
               \/ \E code \in {0, 1} : Exit(i, code) \/ AskParent(i, code)
               \/ Preserve(i) \/ Release(i)
               \/ \E r \in Recs : InvokeAlias(i, r)
        PROVE  IInv'
    BY <2>1, NewInterpKeeps, ExitKeeps, AskParentKeeps, PreserveKeeps, InvokeAliasKeeps
  <2>2. ASSUME NEW s \in Subs,
               \/ UseFreed(s) \/ Eval(s) \/ Call(s) \/ Drop(s)
               \/ RefuseAlias(s) \/ GetAlias(s) \/ UnsetAlias(s)
               \/ \E r \in Recs, made, self \in BOOLEAN : (self => made) /\ SetAlias(s, r, made, self)
        PROVE  IInv'
    BY <2>2, FaultKeeps, EvalKeeps, DropKeeps, RefuseAliasKeeps, UnsetAliasKeeps, SetAliasKeeps
  <2> QED
    BY <1>2, <2>1, <2>2 DEF Script
<1>3. CASE Return
  BY <1>3, TopReturnsKeeps, StartReturnsKeeps, StartFailsKeeps, StartExitsKeeps,
     MethodReturnsKeeps, AliasReturnsKeeps, OnExitReturnsKeeps, EndProgramKeeps DEF Return
<1> QED
  BY <1>1, <1>2, <1>3 DEF Next

THEOREM Inductive == Spec => []IInv
BY InitIInv, NextIInv, PTL DEF Spec

\* The state of the interps, of their objects, of the alias records and of the stack
\* stays of its type: a level never falls below zero, whatever exit() unwinds.
THEOREM ThmTypeOK == Spec => []TypeOK
<1>1. IInv => TypeOK
  BY DEF IInv
<1> QED
  BY <1>1, Inductive, PTL

\* The level of an interp is the number of frames of its code and of evals of it, after
\* any nesting of evals, calls, aliases and onExit and any way exit() ends them.
THEOREM ThmLevelsCount == Spec => []LevelsCount
<1>1. IInv => LevelsCount
  BY DEF IInv, Levels, Count, InFrames, EvalFrames, LevelsCount
<1> QED
  BY <1>1, Inductive, PTL

\* Neither exit() nor a dropped object nor the end of a parent frees an interp under its
\* running code, or an object under its running method.
THEOREM ThmNeverUnderfoot == Spec => []NeverUnderfoot
<1>1. IInv => NeverUnderfoot
  BY DEF IInv, Placed, NeverUnderfoot
<1> QED
  BY <1>1, Inductive, PTL

\* The records of aliases in use are those that the tables of objects hold, and only an
\* object with its interp has one.
THEOREM ThmAliasesAccounted == Spec => []AliasesAccounted
<1>1. IInv => AliasesAccounted
  BY DEF IInv, Tables, Owned, AliasesAccounted
<1> QED
  BY <1>1, Inductive, PTL

-----------------------------------------------------------------------------
(* Owners and what they own. *)

Has(U, s) == U[s].st \in {"building", "live"} /\ U[s].sub = TRUE

\* An interp that is alive and not only kept by preservation has its owner, and, unless
\* it ended itself, the other way round; its parent is alive.
Owners(I, U, X) ==
  /\ \A s \in Subs : I[s].st = "live" /\ I[s].deleting = FALSE => Has(U, s)
  /\ \A s \in Subs \ X : Has(U, s) => I[s].st = "live" /\ I[s].deleting = FALSE
  /\ \A i \in Interps : I[i].deleting = TRUE => I[i].st = "live" /\ I[i].kept = TRUE
  /\ \A s \in Subs : I[s].st = "live" /\ I[s].kept = FALSE => I[I[s].parent].st = "live"

\* A function of a parent runs on top of the child that called it.
Above(I, f) ==
  \A k \in 1..Len(f) : f[k].kind \in {"alias", "onExit"} =>
    k > 1 /\ f[k - 1].in \in Subs /\ I[f[k - 1].in].parent = f[k].in

OwnInv == Above(interp, frames) /\ (fault = "none" => Owners(interp, udf, selfEnded))

\* From I to J no interp ends, moves, or is preserved or let go.
SameMarks(I, J) ==
  \A i \in Interps : /\ J[i].st = I[i].st /\ J[i].parent = I[i].parent
                     /\ J[i].deleting = I[i].deleting /\ J[i].kept = I[i].kept

LEMMA OwnersSame ==
  ASSUME NEW I, NEW J, NEW U, NEW V, NEW X, Owners(I, U, X), SameMarks(I, J),
         Parents(I, U), \A s \in Subs : Has(V, s) <=> Has(U, s)
  PROVE  Owners(J, V, X)
<1>1. Subs \subseteq Interps
  BY DEF Interps
<1>2. ASSUME NEW s \in Subs, J[s].st = "live"
      PROVE  I[s].parent \in Interps /\ J[s].parent = I[s].parent
  <2>1. I[s].st = "live" /\ J[s].parent = I[s].parent
    BY <1>1, <1>2 DEF SameMarks
  <2>2. I[s].st # "none" => I[s].parent \in Interps
    BY DEF Parents
  <2> QED
    BY <2>1, <2>2
<1> QED
  BY <1>1, <1>2 DEF Owners, SameMarks

\* The frames of f stay in place in g, which may have one more.
LEMMA AboveSame ==
  ASSUME NEW I, NEW J, NEW f \in Seq(Frame), NEW g \in Seq(Frame), Above(I, f),
         \A k \in 1..Len(f) : J[f[k].in].parent = I[f[k].in].parent,
         \/ g = f
         \/ f # <<>> /\ g = SubSeq(f, 1, Len(f) - 1)
         \/ \E x \in Frame : /\ g = Append(f, x)
                             /\ x.kind \in {"alias", "onExit"} =>
                                  f # <<>> /\ f[Len(f)].in \in Subs /\ J[f[Len(f)].in].parent = x.in
  PROVE  Above(J, g)
<1>1. ASSUME NEW k \in 1..Len(g), k \in 1..Len(f), g[k] = f[k],
             \A j \in 1..(k - 1) : g[j] = f[j],
             g[k].kind \in {"alias", "onExit"}
      PROVE  k > 1 /\ g[k - 1].in \in Subs /\ J[g[k - 1].in].parent = g[k].in
  <2>1. k > 1 /\ f[k - 1].in \in Subs /\ I[f[k - 1].in].parent = f[k].in
    BY <1>1 DEF Above
  <2>2. k - 1 \in 1..Len(f) /\ g[k - 1] = f[k - 1]
    BY <2>1, <1>1
  <2> QED
    BY <2>1, <2>2, <1>1
<1>2. CASE g = f
  BY <1>1, <1>2 DEF Above
<1>3. CASE f # <<>> /\ g = SubSeq(f, 1, Len(f) - 1)
  <2>1. \A k \in 1..Len(g) : k \in 1..Len(f) /\ g[k] = f[k]
    BY <1>3, RestFacts
  <2>2. \A k \in 1..Len(g) : \A j \in 1..(k - 1) : g[j] = f[j]
    BY <2>1
  <2> QED
    BY <1>1, <2>1, <2>2 DEF Above
<1>4. ASSUME NEW x \in Frame, g = Append(f, x),
             x.kind \in {"alias", "onExit"} =>
               f # <<>> /\ f[Len(f)].in \in Subs /\ J[f[Len(f)].in].parent = x.in
      PROVE  Above(J, g)
  <2>1. /\ Len(f) \in Nat /\ Len(g) = Len(f) + 1
        /\ g[Len(f) + 1] = x /\ \A k \in 1..Len(f) : g[k] = f[k]
    BY <1>4, AppendProperties
  <2>2. f # <<>> => Len(f) \in 1..Len(f)
    OBVIOUS
  <2> SUFFICES ASSUME NEW k \in 1..Len(g), g[k].kind \in {"alias", "onExit"}
               PROVE  k > 1 /\ g[k - 1].in \in Subs /\ J[g[k - 1].in].parent = g[k].in
    BY DEF Above
  <2>3. CASE k \in 1..Len(f)
    <3>1. \A j \in 1..(k - 1) : g[j] = f[j]
      BY <2>1, <2>3
    <3> QED
      BY <1>1, <2>1, <2>3, <3>1
  <2>4. CASE k = Len(f) + 1
    <3>1. g[k] = x /\ Len(f) \in 1..Len(f) /\ f[Len(f)].in \in Subs /\ J[f[Len(f)].in].parent = x.in
      BY <1>4, <2>1, <2>2, <2>4
    <3>2. g[k - 1] = f[Len(f)] /\ k > 1
      BY <2>1, <2>4, <3>1
    <3> QED
      BY <3>1, <3>2
  <2> QED
    BY <2>1, <2>3, <2>4
<1> QED
  BY <1>2, <1>3, <1>4

\* Every set of numbers that is not empty has a least one.
LEMMA Least ==
  ASSUME NEW S, S \subseteq Nat, S # {}
  PROVE  \E x \in S : \A y \in S : x <= y
<1> DEFINE R == OpToRel(<, Nat)
<1>1. \A x, y \in Nat : x < y => <<x, y>> \in R
  BY DEF OpToRel
<1>2. IsWellFoundedOn(R, Nat)
  BY NatLessThanWellFounded
<1> HIDE DEF R
<1>3. PICK x \in S : \A y \in S : ~(<<y, x>> \in R)
  BY <1>2, WFMin
<1>4. \A y \in S : ~(y < x)
  BY <1>1, <1>3
<1> QED
  BY <1>4

\* An interp without a frame has level 0.
LEMMA NoFrameNoLevel ==
  ASSUME NEW I, NEW U, NEW f \in Seq(Frame), Levels(I, f), Placed(I, U, f),
         NEW s \in Subs, \A k \in 1..Len(f) : f[k].in # s
  PROVE  I[s].level = 0
<1>1. InFrames(s, f) = {}
  BY DEF InFrames
<1>2. EvalFrames(s, f) = {}
  BY DEF EvalFrames, Placed
<1>3. Count(s, f) = 0
  BY <1>1, <1>2, FS_EmptySet DEF Count
<1> QED
  BY <1>3 DEF Levels, Interps

\* The first frame of a sub-interp is its start script or a method of its object: without
\* these nothing of it runs.
LEMMA IdleNotRunning ==
  ASSUME NEW I, NEW U, NEW f \in Seq(Frame), Levels(I, f), Placed(I, U, f), OneStart(f),
         Above(I, f), NEW s \in Subs, Idle(s, f)
  PROVE  I[s].level = 0
<1> SUFFICES ASSUME NEW n \in 1..Len(f), f[n].in = s PROVE FALSE
  BY NoFrameNoLevel
<1> DEFINE S == {k \in 1..Len(f) : f[k].in = s}
<1>1. S \subseteq Nat /\ S # {}
  OBVIOUS
<1>2. PICK k \in S : \A j \in S : k <= j
  <2> HIDE DEF S
  <2> QED
    BY <1>1, Least
<1>3. k \in 1..Len(f) /\ f[k].in = s
  OBVIOUS
<1>4. f[k].kind \in Kinds
  BY <1>3, FrameAt
<1>5. f[k].kind \notin {"start", "eval", "call", "top"}
  BY <1>3 DEF Idle, Placed, OneStart
<1>6. f[k].kind \in {"alias", "onExit"}
  BY <1>4, <1>5 DEF Kinds
<1>7. k > 1 /\ f[k - 1].in \in Subs /\ I[f[k - 1].in].parent = s
  BY <1>3, <1>6 DEF Above
<1>8. k - 1 \in 1..Len(f)
  BY <1>3, <1>7
<1>9. PICK j \in 1..(k - 1 - 1) : f[j].in = s
  BY <1>7, <1>8 DEF Placed
<1>10. j \in S /\ j < k
  BY <1>3, <1>9
<1> QED
  BY <1>2, <1>3, <1>10

\* Nothing of an interp runs if the interp that made it does not.
LEMMA ChildNotRunning ==
  ASSUME NEW I \in InterpT, NEW U, NEW f \in Seq(Frame), Levels(I, f), Placed(I, U, f),
         NEW s \in Subs, FreesNow(I, I[s].parent)
  PROVE  I[s].level = 0
<1> SUFFICES ASSUME NEW k \in 1..Len(f), f[k].in = s PROVE FALSE
  BY NoFrameNoLevel
<1>1. PICK j \in 1..(k - 1) : f[j].in = I[s].parent
  BY DEF Placed
<1>2. j \in 1..Len(f)
  BY <1>1
<1>3. I[s].parent \in Interps
  BY <1>1, <1>2, FrameAt
<1>4. I[I[s].parent].level \in Nat \ {0}
  BY <1>1, <1>2, <1>3, CountPositive DEF Levels
<1> QED
  BY <1>4 DEF FreesNow, MayDelete

\* The interps deleted with i: i, and the owned children of those that are freed.
LEMMA DeletedClosed ==
  ASSUME NEW I \in InterpT, NEW i \in Interps, NEW D, D = DeletedWith(I, i),
         \A s \in Subs : Owned(s) => udf[s].sub = TRUE
  PROVE  /\ i \in D
         /\ ObjectsOf(I, D) \subseteq D
         /\ \A x \in D : x = i \/ x \in ObjectsOf(I, D)
<1> DEFINE Owns(p, s) == Owned(s) /\ udf[s].sub /\ I[s].parent = p /\ FreesNow(I, p)
           Closed(C) == \A p \in C, s \in Subs : Owns(p, s) => s \in C
           F == ObjectsOf(I, D)
<1>1. D = {x \in Interps : \A C \in SUBSET Interps : i \in C /\ Closed(C) => x \in C}
  BY DEF DeletedWith
<1>2. i \in D
  BY <1>1
<1>3. F = {s \in Subs : Owned(s) /\ udf[s].sub /\ I[s].parent \in D /\ FreesNow(I, I[s].parent)}
  BY DEF ObjectsOf
<1>4. F = {s \in Subs : \E p \in D : Owns(p, s)}
  BY <1>3
<1>5. Subs \subseteq Interps /\ D \subseteq Interps
  BY <1>1 DEF Interps
<1>6. F \subseteq D
  <2> SUFFICES ASSUME NEW s \in F, NEW C \in SUBSET Interps, i \in C, Closed(C) PROVE s \in C
    BY <1>1, <1>4, <1>5
  <2>1. PICK p \in D : Owns(p, s)
    BY <1>4
  <2>2. p \in C
    BY <1>1
  <2> QED
    BY <2>1, <2>2, <1>4
<1>7. \A x \in D : x = i \/ x \in F
  <2> DEFINE C == {i} \cup F
  <2>1. C \in SUBSET Interps /\ C \subseteq D
    BY <1>2, <1>4, <1>5, <1>6
  <2>2. Closed(C)
    BY <1>4, <2>1
  <2> QED
    BY <1>1, <2>1, <2>2
<1> QED
  BY <1>2, <1>6, <1>7

\* A deletion of i, whose owner goes with it or which ended itself, in a state I that
\* agrees with the stack f that remains: with every interp goes its object, and with every
\* object its interp.
LEMMA DeleteOwners ==
  ASSUME NEW I \in InterpT, NEW U, NEW V, NEW f \in Seq(Frame), NEW i \in Interps, NEW X, NEW Y,
         NEW D, NEW E, D = DeletedWith(I, i), Delete(I, U, D, E),
         Levels(I, f), Placed(I, V, f), Owners(I, udf, X), Parents(I, udf),
         \A s \in Subs : Owned(s) => udf[s].sub = TRUE,
         i \in Subs => I[i].level = 0 /\ (i \in E \/ i \in Y),
         ObjectsOf(I, D) \subseteq E, E \subseteq {i} \cup ObjectsOf(I, D),
         \A s \in Subs \ {i} : U[s] = udf[s], X \subseteq Y, Y \subseteq X \cup {i}
  PROVE  Owners(interp', udf', Y)
<1>0. Subs \subseteq Interps
  BY DEF Interps
<1>1. /\ i \in D /\ ObjectsOf(I, D) \subseteq D
      /\ \A x \in D : x = i \/ x \in ObjectsOf(I, D)
  BY DeletedClosed
<1>2. ASSUME NEW j \in Interps
      PROVE  /\ j \in D /\ MayDelete(I, j) =>
                  \/ /\ interp'[j].st = "freed" /\ interp'[j].deleting = FALSE
                     /\ I[j].kept = FALSE
                  \/ /\ interp'[j].st = "live" /\ interp'[j].deleting = TRUE
                     /\ interp'[j].kept = TRUE /\ I[j].kept = TRUE
             /\ ~(j \in D /\ MayDelete(I, j)) => interp'[j] = I[j]
             /\ interp'[j].parent = I[j].parent
  <2>1. interp'[j] = IF j \in D /\ MayDelete(I, j)
                     THEN IF I[j].kept THEN [I[j] EXCEPT !.deleting = TRUE]
                          ELSE [NoInterp EXCEPT !.st = "freed", !.parent = I[j].parent]
                     ELSE I[j]
    BY DEF Delete
  <2>2. I[j] \in [st : {"none", "live", "freed"}, parent : Interps \cup {None},
                  level : Nat, exited : BOOLEAN, code : {0, 1}, deleting : BOOLEAN,
                  kept : BOOLEAN]
    BY DEF InterpT
  <2>3. CASE j \in D /\ MayDelete(I, j) /\ I[j].kept
    <3>1. interp'[j] = [I[j] EXCEPT !.deleting = TRUE] /\ I[j].st = "live"
      BY <2>1, <2>3 DEF MayDelete
    <3> QED
      BY <2>2, <2>3, <3>1
  <2>4. CASE j \in D /\ MayDelete(I, j) /\ ~I[j].kept
    <3>1. interp'[j] = [NoInterp EXCEPT !.st = "freed", !.parent = I[j].parent]
      BY <2>1, <2>4
    <3> QED
      BY <2>2, <2>4, <3>1 DEF NoInterp
  <2>5. CASE ~(j \in D /\ MayDelete(I, j))
    BY <2>1, <2>5
  <2> QED
    BY <2>3, <2>4, <2>5
<1>3. \A s \in Subs : udf'[s] = IF s \in E THEN NoObject ELSE U[s]
  BY DEF Delete
<1>t. ASSUME NEW s \in Subs
      PROVE  /\ I[s].level \in Nat /\ I[s].deleting \in BOOLEAN /\ I[s].kept \in BOOLEAN
             /\ Owned(s) => Has(udf, s)
             /\ Has(udf, s) => Owned(s)
             /\ I[s].st = "live" => I[s].parent \in Interps
  BY <1>0 DEF InterpT, Owned, Has, Parents
\* An interp that nothing holds back is deleted with its parent, or as the first.
<1>4. ASSUME NEW s \in Subs, s = i \/ s \in ObjectsOf(I, D), I[s].st = "live", I[s].deleting = FALSE
      PROVE  s \in D /\ MayDelete(I, s)
  <2>1. I[s].level = 0
    <3>1. CASE s = i
      BY <3>1
    <3>2. CASE s \in ObjectsOf(I, D)
      <4>1. FreesNow(I, I[s].parent)
        BY <3>2 DEF ObjectsOf
      <4> QED
        BY <4>1, ChildNotRunning
    <3> QED
      BY <1>4, <3>1, <3>2
  <2> QED
    BY <1>1, <1>4, <2>1 DEF MayDelete
<1>5. ASSUME NEW s \in Subs, interp'[s].st = "live", interp'[s].deleting = FALSE
      PROVE  Has(udf', s)
  <2>1. ~(s \in D /\ MayDelete(I, s)) /\ interp'[s] = I[s]
    BY <1>0, <1>2, <1>5
  <2>2. s # i /\ s \notin ObjectsOf(I, D)
    BY <1>4, <1>5, <2>1
  <2>3. udf'[s] = udf[s] /\ Has(udf, s)
    BY <1>3, <1>5, <2>1, <2>2 DEF Owners
  <2> QED
    BY <2>3 DEF Has
<1>6. ASSUME NEW s \in Subs \ Y, Has(udf', s)
      PROVE  interp'[s].st = "live" /\ interp'[s].deleting = FALSE
  <2>1. s \notin E
    <3>1. NoObject.st \notin {"building", "live"}
      BY DEF NoObject
    <3> QED
      BY <1>3, <1>6, <3>1 DEF Has
  <2>2. s # i /\ s \notin ObjectsOf(I, D)
    BY <2>1
  <2>3. udf'[s] = udf[s] /\ s \notin X /\ s \notin D
    BY <1>1, <1>3, <2>1, <2>2
  <2>4. I[s].st = "live" /\ I[s].deleting = FALSE
    BY <1>6, <2>3 DEF Has, Owners
  <2> QED
    BY <1>0, <1>2, <2>3, <2>4
<1>7. \A j \in Interps : interp'[j].deleting = TRUE => interp'[j].st = "live" /\ interp'[j].kept = TRUE
  BY <1>2 DEF Owners
<1>8. ASSUME NEW s \in Subs, interp'[s].st = "live", interp'[s].kept = FALSE
      PROVE  interp'[interp'[s].parent].st = "live"
  <2>1. ~(s \in D /\ MayDelete(I, s)) /\ interp'[s] = I[s]
    BY <1>0, <1>2, <1>8
  <2>2. /\ I[s].st = "live" /\ I[s].kept = FALSE /\ I[s].parent \in Interps
        /\ I[I[s].parent].st = "live" /\ interp'[s].parent = I[s].parent
    BY <1>0, <1>t, <1>8, <2>1 DEF Owners
  <2>3. I[s].deleting = FALSE
    BY <1>0, <1>t, <2>2 DEF Owners
  <2>4. Has(udf, s) /\ Owned(s)
    BY <1>t, <2>2, <2>3 DEF Owners
  <2>5. s # i /\ s \notin ObjectsOf(I, D)
    BY <1>4, <2>1, <2>2, <2>3
  <2>6. ~(I[s].parent \in D /\ FreesNow(I, I[s].parent))
    BY <2>4, <2>5 DEF ObjectsOf
  <2>7. CASE I[s].parent \in D /\ MayDelete(I, I[s].parent)
    <3>1. I[I[s].parent].kept # FALSE
      BY <2>6, <2>7 DEF FreesNow
    <3> QED
      BY <1>2, <2>2, <2>7, <3>1
  <2>8. CASE ~(I[s].parent \in D /\ MayDelete(I, I[s].parent))
    BY <1>2, <2>2, <2>8
  <2> QED
    BY <2>7, <2>8
<1> QED
  BY <1>5, <1>6, <1>7, <1>8 DEF Owners

-----------------------------------------------------------------------------
(* The actions. *)

LEMMA MarksOf ==
  ASSUME NEW I \in InterpT, NEW J, NEW i \in Interps, NEW x,
         \/ J = [I EXCEPT ![i].level = x]
         \/ J = [I EXCEPT ![i].exited = x]
         \/ J = [I EXCEPT ![i].code = x]
  PROVE  SameMarks(I, J)
<1>1. CASE J = [I EXCEPT ![i].level = x]
  BY <1>1 DEF InterpT, SameMarks
<1>2. CASE J = [I EXCEPT ![i].exited = x]
  BY <1>2 DEF InterpT, SameMarks
<1>3. CASE J = [I EXCEPT ![i].code = x]
  BY <1>3 DEF InterpT, SameMarks
<1> QED
  BY <1>1, <1>2, <1>3

\* Steps that end no interp and no object and make none.
LEMMA OwnQuiet ==
  ASSUME IInv, OwnInv, fault = "none", SameMarks(interp, interp'), UNCHANGED selfEnded,
         \A s \in Subs : Has(udf', s) <=> Has(udf, s), frames' \in Seq(Frame),
         \/ frames' = frames
         \/ frames # <<>> /\ frames' = Rest
         \/ \E x \in Frame : /\ frames' = Append(frames, x)
                             /\ x.kind \in {"alias", "onExit"} =>
                                  frames # <<>> /\ Top.in \in Subs /\ interp[Top.in].parent = x.in
  PROVE  OwnInv'
<1>1. frames \in Seq(Frame) /\ Parents(interp, udf)
  BY TypeFacts DEF IInv
<1>2. \A k \in 1..Len(frames) : interp'[frames[k].in].parent = interp[frames[k].in].parent
  BY <1>1, FrameAt DEF SameMarks
<1>3. Subs \subseteq Interps /\ \A j \in Interps : interp'[j].parent = interp[j].parent
  BY DEF Interps, SameMarks
<1>4. Above(interp', frames')
  <2>1. \/ frames' = frames
        \/ frames # <<>> /\ frames' = SubSeq(frames, 1, Len(frames) - 1)
        \/ \E x \in Frame : /\ frames' = Append(frames, x)
                            /\ x.kind \in {"alias", "onExit"} =>
                                 /\ frames # <<>> /\ frames[Len(frames)].in \in Subs
                                 /\ interp'[frames[Len(frames)].in].parent = x.in
    BY <1>3 DEF Rest, Top
  <2>2. Above(interp, frames)
    BY DEF OwnInv
  <2> QED
    BY <1>1, <1>2, <2>1, <2>2, AboveSame
<1>5. Owners(interp, udf, selfEnded)
  BY DEF OwnInv
<1>6. Owners(interp', udf', selfEnded)
  BY <1>1, <1>5, OwnersSame
<1> QED
  BY <1>4, <1>6 DEF OwnInv

LEMMA OwnFault ==
  ASSUME OwnInv, UNCHANGED <<interp, frames>>, fault' # "none"
  PROVE  OwnInv'
BY DEF OwnInv, Above

\* A method is entered.
LEMMA EnterOwn ==
  ASSUME IInv, IInv', OwnInv, NEW s \in Subs, Eval(s) \/ Call(s)
  PROVE  OwnInv'
<1>1. PICK kind \in {"eval", "call"} : frames' = Append(frames, [in |-> s, kind |-> kind, of |-> s])
  BY DEF Eval, Call, Push
<1>2. SameMarks(interp, interp')
  <2>1. \E n : interp' = [interp EXCEPT ![s].level = n]
    BY DEF Eval, Call
  <2> QED
    BY <2>1, MarksOf, TypeFacts DEF IInv, Interps
<1>3. [in |-> s, kind |-> kind, of |-> s] \in Frame
  BY DEF Frame, Kinds, Interps
<1>4. fault = "none" /\ UNCHANGED <<udf, selfEnded>>
  BY DEF Eval, Call, Names, Running, Active
<1>5. frames' \in Seq(Frame)
  BY DEF IInv, TypeOK
<1> QED
  BY <1>1, <1>2, <1>3, <1>4, <1>5, OwnQuiet

LEMMA ExitOwn ==
  ASSUME IInv, OwnInv, NEW i \in Interps, NEW code \in {0, 1}, Exit(i, code)
  PROVE  OwnInv'
<1> DEFINE mid == [interp EXCEPT ![i].exited = TRUE]
<1>1. interp' = [mid EXCEPT ![i].code = code] /\ interp \in InterpT /\ frames \in Seq(Frame)
  BY TypeFacts DEF Exit, IInv
<1>2. mid \in InterpT /\ SameMarks(interp, mid)
  <2>1. SameMarks(interp, mid)
    BY <1>1, MarksOf
  <2>2. mid \in InterpT
    BY <1>1 DEF InterpT
  <2> QED
    BY <2>1, <2>2
<1> HIDE DEF mid
<1>3. SameMarks(mid, interp')
  BY <1>1, <1>2, MarksOf
<1>4. SameMarks(interp, interp')
  BY <1>2, <1>3 DEF SameMarks
<1>5. fault = "none" /\ UNCHANGED <<udf, frames, selfEnded>>
  BY DEF Exit, Running, Active
<1>6. \A s \in Subs : Has(udf', s) <=> Has(udf, s)
  BY <1>5
<1> QED
  BY <1>1, <1>4, <1>5, <1>6, OwnQuiet

\* A function of the parent is called.
LEMMA AboveOwn ==
  ASSUME IInv, IInv', OwnInv,
         \/ \E i \in Interps, code \in {0, 1} : AskParent(i, code)
         \/ \E i \in Interps, r \in Recs : InvokeAlias(i, r)
  PROVE  OwnInv'
<1>0. interp \in InterpT /\ rec \in RecT /\ frames' \in Seq(Frame)
  <2>1. frames' \in Seq(Frame)
    BY DEF IInv, TypeOK
  <2> QED
    BY <2>1, TypeFacts DEF IInv
<1>1. PICK i \in Subs, kind \in {"alias", "onExit"}, of \in Subs \cup Recs :
        /\ Running(i) /\ UNCHANGED <<udf, selfEnded, fault>>
        /\ frames' = Append(frames, [in |-> interp[i].parent, kind |-> kind, of |-> of])
        /\ \/ interp' = [interp EXCEPT ![interp[i].parent].level = @ + 1]
           \/ \E code \in {0, 1} :
                interp' = [interp EXCEPT ![interp[i].parent].level = @ + 1, ![i].code = code]
  <2>1. CASE \E i \in Interps, code \in {0, 1} : AskParent(i, code)
    BY <2>1 DEF AskParent, Push
  <2>2. ASSUME NEW i \in Interps, NEW r \in Recs, InvokeAlias(i, r) PROVE i \in Subs
    BY <1>0, <2>2 DEF InvokeAlias, RecT
  <2>3. CASE \E i \in Interps, r \in Recs : InvokeAlias(i, r)
    <3>1. PICK i \in Interps, r \in Recs : InvokeAlias(i, r)
      BY <2>3
    <3> QED
      BY <3>1, <2>2 DEF InvokeAlias, Push
  <2> QED
    BY <2>1, <2>3
<1> DEFINE p == interp[i].parent
           x == [in |-> p, kind |-> kind, of |-> of]
           mid == [interp EXCEPT ![p].level = @ + 1]
<1>2. fault = "none" /\ Active /\ Top.in = i /\ frames # <<>> /\ i \in Interps
  BY <1>1 DEF Running, Active, Interps
<1>3. p \in Interps
  BY <1>2, ParentLive
<1>4. x \in Frame /\ x.in = p
  BY <1>3 DEF Frame, Kinds
<1>5. mid \in InterpT /\ SameMarks(interp, mid)
  <2>1. SameMarks(interp, mid)
    BY <1>0, <1>3, MarksOf
  <2>2. mid \in InterpT
    <3> HIDE DEF p
    <3> QED
      BY <1>0, <1>3 DEF InterpT
  <2> QED
    BY <2>1, <2>2
<1>6. SameMarks(interp, interp')
  <2>1. interp' = mid \/ \E code \in {0, 1} : interp' = [mid EXCEPT ![i].code = code]
    BY <1>1
  <2> HIDE DEF mid
  <2>2. ASSUME NEW code \in {0, 1}, interp' = [mid EXCEPT ![i].code = code]
        PROVE  SameMarks(mid, interp')
    BY <1>2, <1>5, <2>2, MarksOf
  <2> QED
    BY <1>5, <2>1, <2>2 DEF SameMarks
<1>7. frames' = Append(frames, x)
  BY <1>1
<1>8. Top.in \in Subs /\ interp[Top.in].parent = x.in
  BY <1>2, <1>4
<1> HIDE DEF x
<1> QED
  BY <1>0, <1>1, <1>2, <1>4, <1>6, <1>7, <1>8, OwnQuiet

LEMMA PreserveOwn ==
  ASSUME IInv, OwnInv, NEW i \in Interps, Preserve(i) \/ Release(i)
  PROVE  OwnInv'
<1>0. PICK k : /\ interp' = [interp EXCEPT ![i].kept = k]
               /\ k = TRUE \/ (k = FALSE /\ Release(i))
  BY DEF Preserve, Release
<1>1. k = TRUE \/ (k = FALSE /\ Release(i))
  BY <1>0
<1>2. /\ UNCHANGED <<udf, frames, selfEnded, fault>> /\ Active /\ Top.in = i
      /\ k = TRUE \/ (k = FALSE /\ interp[i].deleting = FALSE)
  <2>1. interp \in InterpT
    BY TypeFacts DEF IInv
  <2>2. Release(i) => interp[i].deleting = FALSE
    BY <2>1 DEF Release, InterpT
  <2>3. UNCHANGED <<udf, frames, selfEnded, fault>> /\ Active /\ Top.in = i
    BY DEF Preserve, Release, Running
  <2> QED
    BY <1>1, <2>2, <2>3
<1>3. /\ interp \in InterpT /\ Parents(interp, udf) /\ Subs \subseteq Interps /\ frames \in Seq(Frame)
      /\ Owners(interp, udf, selfEnded) /\ Above(interp, frames)
  BY <1>2, TypeFacts DEF IInv, OwnInv, Active, Interps
<1>4. \A j \in Interps : /\ interp'[j].st = interp[j].st /\ interp'[j].parent = interp[j].parent
                         /\ interp'[j].deleting = interp[j].deleting
                         /\ interp'[j].kept = IF j = i THEN k ELSE interp[j].kept
  <2> SUFFICES ASSUME NEW j \in Interps
               PROVE  /\ interp'[j].st = interp[j].st /\ interp'[j].parent = interp[j].parent
                      /\ interp'[j].deleting = interp[j].deleting
                      /\ interp'[j].kept = IF j = i THEN k ELSE interp[j].kept
    OBVIOUS
  <2>1. interp'[j] = IF j = i THEN [interp[j] EXCEPT !.kept = k] ELSE interp[j]
    BY <1>0, <1>3 DEF InterpT
  <2>2. interp[j] \in [st : {"none", "live", "freed"}, parent : Interps \cup {None},
                       level : Nat, exited : BOOLEAN, code : {0, 1}, deleting : BOOLEAN,
                       kept : BOOLEAN]
    BY <1>3 DEF InterpT
  <2> QED
    BY <2>1, <2>2
<1>5. Above(interp', frames')
  <2>1. \A n \in 1..Len(frames) : interp'[frames[n].in].parent = interp[frames[n].in].parent
    BY <1>3, <1>4, FrameAt
  <2> QED
    BY <1>2, <1>3, <2>1, AboveSame
<1>6. i \in Subs => interp[i].parent \in Interps /\ interp[interp[i].parent].st = "live"
  BY <1>2, ParentLive
<1>7. \A s \in Subs : interp[s].st = "live" => interp[s].parent \in Interps
  <2>1. \A s \in Subs : interp[s].st # "none" => interp[s].parent \in Interps
    BY <1>3 DEF Parents
  <2> QED
    BY <2>1
<1>8. \A j \in Interps : interp'[j].deleting = TRUE => interp'[j].st = "live" /\ interp'[j].kept = TRUE
  BY <1>2, <1>3, <1>4 DEF Owners
<1>9. ASSUME NEW s \in Subs, interp'[s].st = "live", interp'[s].kept = FALSE
      PROVE  interp'[interp'[s].parent].st = "live"
  <2>1. interp[s].st = "live" /\ interp'[s].parent = interp[s].parent /\ interp[s].parent \in Interps
    BY <1>3, <1>4, <1>7, <1>9
  <2>2. interp[interp[s].parent].st = "live"
    BY <1>3, <1>4, <1>6, <1>9, <2>1 DEF Owners
  <2> QED
    BY <1>4, <2>1, <2>2
<1>10. Owners(interp', udf', selfEnded')
  <2>1. \A s \in Subs : Has(udf', s) <=> Has(udf, s)
    BY <1>2
  <2>2. \A s \in Subs : interp'[s].st = "live" /\ interp'[s].deleting = FALSE => Has(udf', s)
    BY <2>1, <1>3, <1>4 DEF Owners
  <2>3. \A s \in Subs \ selfEnded' : Has(udf', s) => interp'[s].st = "live" /\ interp'[s].deleting = FALSE
    BY <2>1, <1>2, <1>3, <1>4 DEF Owners
  <2> QED
    BY <2>2, <2>3, <1>8, <1>9 DEF Owners
<1> QED
  BY <1>5, <1>10 DEF OwnInv

\* Only the tables of aliases change.
LEMMA TablesOwn ==
  ASSUME IInv, OwnInv, NEW s \in Subs,
         \/ RefuseAlias(s) \/ UnsetAlias(s)
         \/ \E r \in Recs, made, self \in BOOLEAN : SetAlias(s, r, made, self)
  PROVE  OwnInv'
<1>1. UNCHANGED <<interp, frames, selfEnded>> /\ fault = "none"
  BY DEF RefuseAlias, UnsetAlias, SetAlias, Names, Running, Active
<1>2. udf \in UdfT /\ frames \in Seq(Frame)
  BY TypeFacts DEF IInv
<1>3. udf' = udf \/ \E e : udf' = [udf EXCEPT ![s].entry = e]
  BY DEF RefuseAlias, UnsetAlias, SetAlias
<1>4. \A t \in Subs : udf'[t].st = udf[t].st /\ udf'[t].sub = udf[t].sub
  BY <1>2, <1>3 DEF UdfT
<1>5. \A t \in Subs : Has(udf', t) <=> Has(udf, t)
  BY <1>4 DEF Has
<1>6. SameMarks(interp, interp')
  BY <1>1 DEF SameMarks
<1> QED
  BY <1>1, <1>2, <1>5, <1>6, OwnQuiet

\* Only levels and exits change, and frames go.
LEMMA LoweredMarks ==
  ASSUME IInv, NEW i \in Interps, NEW n
  PROVE  SameMarks(interp, Lowered(i, n))
BY MarksOf, TypeFacts DEF Lowered, IInv

LEMMA DeleteAbove ==
  ASSUME NEW I \in InterpT, NEW U, NEW D, NEW E, NEW f \in Seq(Frame), Above(I, f), Delete(I, U, D, E)
  PROVE  Above(interp', f)
<1>1. ASSUME NEW j \in Interps PROVE interp'[j].parent = I[j].parent
  <2>1. interp'[j] = IF j \in D /\ MayDelete(I, j)
                     THEN IF I[j].kept THEN [I[j] EXCEPT !.deleting = TRUE]
                          ELSE [NoInterp EXCEPT !.st = "freed", !.parent = I[j].parent]
                     ELSE I[j]
    BY DEF Delete
  <2> QED
    BY <2>1 DEF InterpT, NoInterp
<1>2. \A k \in 1..Len(f) : interp'[f[k].in].parent = I[f[k].in].parent
  BY <1>1, FrameAt
<1> QED
  BY <1>2, AboveSame

LEMMA HasOwned ==
  ASSUME IInv
  PROVE  \A s \in Subs : /\ Owned(s) => udf[s].sub = TRUE
                         /\ Owned(s) <=> Has(udf, s)
<1>1. udf \in UdfT /\ \A s \in Subs : Owned(s) => udf[s].sub
  BY TypeFacts DEF IInv, Tables, Owned
<1>2. \A s \in Subs : udf[s].sub \in BOOLEAN
  BY <1>1 DEF UdfT
<1> QED
  BY <1>1, <1>2 DEF Owned, Has

\* What the frames and the owners say before a deletion, in the state I it starts from.
LEMMA Lowering ==
  ASSUME IInv, OwnInv, fault = "none", NEW I, SameMarks(interp, I), frames' \in Seq(Frame),
         frames' = frames \/ (frames # <<>> /\ frames' = Rest)
  PROVE  /\ Owners(I, udf, selfEnded) /\ Parents(I, udf) /\ Above(I, frames')
<1>1. /\ frames \in Seq(Frame) /\ Parents(interp, udf) /\ Above(interp, frames)
      /\ Owners(interp, udf, selfEnded)
  BY TypeFacts DEF IInv, OwnInv
<1>2. Owners(I, udf, selfEnded)
  BY <1>1, OwnersSame
<1>3. Parents(I, udf)
  BY <1>1 DEF Parents, SameMarks, Interps
<1>4. Above(I, frames')
  <2>1. \A k \in 1..Len(frames) : I[frames[k].in].parent = interp[frames[k].in].parent
    BY <1>1, FrameAt DEF SameMarks
  <2> QED
    BY <1>1, <2>1, AboveSame DEF Rest
<1> QED
  BY <1>2, <1>3, <1>4

LEMMA EraseOwn ==
  ASSUME IInv, OwnInv, fault = "none", NEW I \in InterpT, NEW s \in Subs, Erase(I, s),
         SameMarks(interp, I), Owned(s), frames' \in Seq(Frame),
         frames' = frames \/ (frames # <<>> /\ frames' = Rest),
         Levels(I, frames'), Placed(I, udf, frames'), OneStart(frames'), Idle(s, frames'),
         UNCHANGED selfEnded
  PROVE  OwnInv'
<1> DEFINE D == DeletedWith(I, s)
           E == {s} \cup ObjectsOf(I, D)
<1>1. udf[s].sub = TRUE /\ \A t \in Subs : Owned(t) => udf[t].sub = TRUE
  BY HasOwned
<1>2. Delete(I, udf, D, E)
  BY <1>1 DEF Erase
<1>3. /\ Owners(I, udf, selfEnded) /\ Parents(I, udf) /\ Above(I, frames')
  BY Lowering
<1>4. I[s].level = 0
  BY <1>3, IdleNotRunning
<1>5. s \in Interps /\ s \in E /\ ObjectsOf(I, D) \subseteq E /\ E \subseteq {s} \cup ObjectsOf(I, D)
  BY DEF Interps
<1> HIDE DEF E
<1>6. Owners(interp', udf', selfEnded)
  BY <1>1, <1>2, <1>3, <1>4, <1>5, DeleteOwners
<1>7. Above(interp', frames')
  BY <1>2, <1>3, DeleteAbove
<1> QED
  BY <1>6, <1>7 DEF OwnInv

LEMMA DropOwn ==
  ASSUME IInv, OwnInv, NEW s \in Subs, Drop(s)
  PROVE  OwnInv'
<1>1. /\ interp \in InterpT /\ udf \in UdfT /\ frames \in Seq(Frame) /\ fault = "none"
      /\ Levels(interp, frames) /\ Placed(interp, udf, frames) /\ OneStart(frames)
      /\ udf[s].st = "live" /\ UNCHANGED <<frames, selfEnded>>
  BY TypeFacts DEF IInv, Drop, Running, Active
<1>2. CASE InMethod(s, frames) \/ HoldsItself(s)
  <2>1. udf' = [udf EXCEPT ![s].ref = FALSE] /\ interp' = interp
    BY <1>2 DEF Drop
  <2>2. \A t \in Subs : udf'[t].st = udf[t].st /\ udf'[t].sub = udf[t].sub
    BY <1>1, <2>1 DEF UdfT
  <2>3. \A t \in Subs : Has(udf', t) <=> Has(udf, t)
    BY <2>2 DEF Has
  <2>4. SameMarks(interp, interp')
    BY <2>1 DEF SameMarks
  <2> QED
    BY <1>1, <2>3, <2>4, OwnQuiet
<1>3. CASE ~(InMethod(s, frames) \/ HoldsItself(s))
  <2>1. Erase(interp, s)
    BY <1>3 DEF Drop
  <2>2. Idle(s, frames')
    BY <1>1, <1>3 DEF Idle, InMethod, Placed
  <2>3. /\ Levels(interp, frames') /\ Placed(interp, udf, frames') /\ OneStart(frames')
        /\ frames' \in Seq(Frame) /\ SameMarks(interp, interp) /\ Owned(s)
    BY <1>1 DEF SameMarks, Owned
  <2> QED
    BY <1>1, <2>1, <2>2, <2>3, EraseOwn
<1> QED
  BY <1>2, <1>3

LEMMA StartFailsOwn ==
  ASSUME IInv, OwnInv, StartFails
  PROVE  OwnInv'
<1>1. /\ Active /\ Top.kind = "start" /\ frames' = Rest /\ Erase(Lowered(Top.of, 1), Top.of)
      /\ UNCHANGED selfEnded /\ fault = "none" /\ frames # <<>>
  BY DEF StartFails, Active
<1>2. Top.of = Top.in /\ Top.of \in Subs /\ udf[Top.of].st = "building" /\ Top.of \in Interps
  BY <1>1, StartFacts DEF Interps
<1>3. /\ Rest \in Seq(Frame) /\ OneStart(Rest) /\ Lowered(Top.of, 1) \in InterpT
      /\ Levels(Lowered(Top.of, 1), Rest) /\ Placed(Lowered(Top.of, 1), udf, Rest)
      /\ Idle(Top.of, Rest)
  BY <1>1, <1>2, LowerTop
<1>4. SameMarks(interp, Lowered(Top.of, 1)) /\ Owned(Top.of)
  BY <1>2, LoweredMarks DEF Owned
<1> QED
  BY <1>1, <1>2, <1>3, <1>4, EraseOwn

LEMMA MethodReturnsOwn ==
  ASSUME IInv, OwnInv, MethodReturns
  PROVE  OwnInv'
<1> DEFINE s == Top.of
           n == IF Top.kind = "eval" THEN 2 ELSE 1
           I == Lowered(s, n)
<1>1. /\ Active /\ Top.kind \in {"eval", "call"} /\ frames' = Rest /\ UNCHANGED selfEnded
      /\ IF udf[s].ref \/ InMethod(s, Rest) \/ HoldsItself(s)
         THEN interp' = I /\ UNCHANGED <<udf, rec, fault>>
         ELSE Erase(I, s)
  BY DEF MethodReturns
<1>2. Len(frames) \in 1..Len(frames) /\ Top = frames[Len(frames)] /\ fault = "none" /\ frames # <<>>
  BY <1>1, TopFacts DEF Active
<1>3. s = Top.in /\ s \in Subs /\ udf[s].st = "live" /\ s \in Interps
  BY <1>1, <1>2 DEF IInv, Placed, Interps
<1>5. /\ Rest \in Seq(Frame) /\ OneStart(Rest) /\ I \in InterpT
      /\ Levels(I, Rest) /\ Placed(I, udf, Rest)
  BY <1>1, <1>3, LowerTop
<1>4. SameMarks(interp, I) /\ Owned(s)
  BY <1>3, LoweredMarks DEF Owned
<1> HIDE DEF s
<1>6. CASE udf[s].ref \/ InMethod(s, Rest) \/ HoldsItself(s)
  BY <1>1, <1>2, <1>4, <1>5, <1>6, OwnQuiet
<1>7. CASE ~(udf[s].ref \/ InMethod(s, Rest) \/ HoldsItself(s))
  <2>1. Idle(s, Rest)
    BY <1>3, <1>5, <1>7 DEF Idle, InMethod, Placed
  <2> HIDE DEF I
  <2> QED
    BY <2>1, <1>1, <1>2, <1>3, <1>4, <1>5, <1>7, EraseOwn
<1> QED
  BY <1>6, <1>7

LEMMA EndProgramOwn ==
  ASSUME IInv, OwnInv, EndProgram
  PROVE  OwnInv'
<1> DEFINE D == DeletedWith(interp, Main)
           E == ObjectsOf(interp, D)
<1>1. /\ interp \in InterpT /\ frames \in Seq(Frame) /\ fault = "none"
      /\ Levels(interp, frames) /\ Placed(interp, udf, frames)
      /\ Parents(interp, udf) /\ UNCHANGED <<frames, selfEnded>>
      /\ Above(interp, frames) /\ Owners(interp, udf, selfEnded)
  BY TypeFacts DEF IInv, EndProgram, OwnInv
<1>2. Delete(interp, udf, D, E)
  BY DEF EndProgram, DeleteInterp
<1>3. Main \in Interps /\ Main \notin Subs /\ \A t \in Subs : Owned(t) => udf[t].sub = TRUE
  BY HasOwned DEF Interps
<1>4. E \subseteq {Main} \cup E /\ \A s \in Subs \ {Main} : udf[s] = udf[s]
  OBVIOUS
<1>5. Owners(interp', udf', selfEnded)
  BY <1>1, <1>2, <1>3, <1>4, DeleteOwners
<1>6. Above(interp', frames')
  BY <1>1, <1>2, DeleteAbove
<1> QED
  BY <1>1, <1>5, <1>6 DEF OwnInv

\* A start script that called exit() ends its own interp, whose object, if it is given
\* out, points to nothing.
LEMMA StartExitsOwn ==
  ASSUME IInv, IInv', OwnInv, StartExits
  PROVE  OwnInv'
<1> DEFINE s == Top.of
           I == Lowered(s, 1)
           D == DeletedWith(I, s)
           E == ObjectsOf(I, D)
           after == IF I[s].code = 0 THEN [udf[s] EXCEPT !.st = "live", !.ref = TRUE] ELSE NoObject
           U == [udf EXCEPT ![s] = after]
<1>1. /\ Active /\ Top.kind = "start" /\ frames' = Rest /\ selfEnded' = selfEnded \cup {s}
      /\ fault = "none" /\ frames # <<>>
  BY DEF StartExits, Active
<1>2. /\ s = Top.in /\ s \in Subs /\ udf[s].st = "building" /\ s \in Interps
  BY <1>1, StartFacts DEF Interps
<1>3. udf \in UdfT /\ \A t \in Subs : Owned(t) => udf[t].sub = TRUE
  BY HasOwned, TypeFacts DEF IInv
<1>4. \A t \in Subs \ {s} : U[t] = udf[t]
  BY <1>3 DEF UdfT
<1>5. /\ Rest \in Seq(Frame) /\ OneStart(Rest) /\ I \in InterpT
      /\ Levels(I, Rest) /\ Placed(I, udf, Rest) /\ Idle(s, Rest)
  BY <1>1, <1>2, LowerTop
<1>6. SameMarks(interp, I)
  BY <1>2, LoweredMarks
<1>7. frames' \in Seq(Frame)
  BY <1>1, <1>5
<1> HIDE DEF U, s, I
<1>8. Owners(I, udf, selfEnded) /\ Parents(I, udf) /\ Above(I, Rest)
  BY <1>1, <1>6, <1>7, Lowering
<1>9. CASE I[s].code # 0 /\ ~I[s].kept
  <2>1. fault' = "freedInterp" /\ interp' = I
    BY <1>9 DEF StartExits, s, I
  <2> QED
    BY <2>1, <1>1, <1>8 DEF OwnInv
<1>10. CASE ~(I[s].code # 0 /\ ~I[s].kept)
  <2>1. Delete(I, U, D, E)
    BY <1>10 DEF StartExits, s, I, U, after
  <2>2. I[s].level = 0
    BY <1>2, <1>5, <1>8, IdleNotRunning
  <2>3. /\ E \subseteq {s} \cup E /\ s \in selfEnded'
        /\ selfEnded \subseteq selfEnded' /\ selfEnded' \subseteq selfEnded \cup {s}
    BY <1>1
  <2>4. Owners(interp', udf', selfEnded')
    BY <1>2, <1>3, <1>4, <1>5, <1>8, <2>1, <2>2, <2>3, DeleteOwners
  <2>5. Above(interp', frames')
    BY <1>1, <1>5, <1>8, <2>1, DeleteAbove
  <2> QED
    BY <2>4, <2>5 DEF OwnInv
<1> QED
  BY <1>9, <1>10

\* A frame goes and no object ends.
LEMMA ReturnsOwn ==
  ASSUME IInv, IInv', OwnInv,
         TopReturns \/ StartReturns \/ AliasReturns \/ \E goOn \in BOOLEAN : OnExitReturns(goOn)
  PROVE  OwnInv'
<1>1. /\ Active /\ fault = "none" /\ frames # <<>> /\ Top.in \in Interps /\ frames \in Seq(Frame)
      /\ UNCHANGED selfEnded /\ frames' \in Seq(Frame)
  <2>1. Active /\ UNCHANGED selfEnded
    BY DEF TopReturns, StartReturns, AliasReturns, OnExitReturns
  <2>2. frames' \in Seq(Frame) /\ frames \in Seq(Frame)
    BY DEF IInv, TypeOK
  <2> QED
    BY <2>1, <2>2, TopFacts DEF Active
<1>2. SameMarks(interp, Lowered(Top.in, 1))
  BY <1>1, LoweredMarks
<1>3. interp \in InterpT /\ udf \in UdfT
  BY TypeFacts DEF IInv
<1>4. CASE TopReturns
  <2>1. /\ Top.kind = "top" /\ frames' = <<>> /\ interp' = Lowered(Main, 1) /\ udf' = udf
    BY <1>4 DEF TopReturns
  <2>2. Len(frames) \in 1..Len(frames) /\ Top = frames[Len(frames)]
    BY <1>1, TopFacts
  <2>3. Len(frames) = 1 /\ Top.in = Main
    BY <2>1, <2>2 DEF IInv, OneStart
  <2>4. Rest = <<>>
    BY <1>1, <2>3 DEF Rest
  <2> QED
    BY <1>1, <1>2, <2>1, <2>3, <2>4, OwnQuiet
<1>5. CASE StartReturns
  <2>1. /\ frames' = Rest /\ Top.of = Top.in /\ Top.of \in Subs /\ udf[Top.of].st = "building"
        /\ interp' = Lowered(Top.in, 1)
        /\ udf' = [udf EXCEPT ![Top.of].st = "live", ![Top.of].ref = TRUE]
    BY <1>1, <1>5, StartFacts DEF StartReturns
  <2> DEFINE mid == [udf EXCEPT ![Top.of].st = "live"]
  <2>2. /\ mid \in UdfT /\ mid[Top.of].st = "live"
        /\ \A t \in Subs : mid[t].sub = udf[t].sub
        /\ \A t \in Subs \ {Top.of} : mid[t].st = udf[t].st
    BY <1>3, <2>1 DEF UdfT
  <2>3. udf' = [mid EXCEPT ![Top.of].ref = TRUE]
    BY <2>1
  <2> HIDE DEF mid
  <2>4. \A t \in Subs : udf'[t].st = mid[t].st /\ udf'[t].sub = mid[t].sub
    BY <2>2, <2>3 DEF UdfT
  <2>5. ASSUME NEW t \in Subs PROVE Has(udf', t) <=> Has(udf, t)
    <3>1. CASE t = Top.of
      BY <2>1, <2>2, <2>4, <3>1 DEF Has
    <3>2. CASE t # Top.of
      BY <2>2, <2>4, <3>2 DEF Has
    <3> QED
      BY <3>1, <3>2
  <2> QED
    BY <1>1, <1>2, <2>1, <2>5, OwnQuiet
<1>6. CASE AliasReturns
  BY <1>1, <1>2, <1>6, OwnQuiet DEF AliasReturns
<1>7. ASSUME NEW goOn \in BOOLEAN, OnExitReturns(goOn) PROVE OwnInv'
  <2> DEFINE J == Lowered(Top.in, 1)
  <2>1. frames' = Rest /\ interp' = [J EXCEPT ![Top.of].exited = ~goOn] /\ udf' = udf
    BY <1>7 DEF OnExitReturns
  <2>2. J \in InterpT
    BY <1>1, <1>7, LowerTop DEF OnExitReturns
  <2>3. Top.of \in Interps
    BY <1>1, <1>7, TopFacts DEF IInv, Placed, Interps, OnExitReturns
  <2> HIDE DEF J
  <2>4. SameMarks(J, interp')
    BY <2>1, <2>2, <2>3, MarksOf
  <2>5. SameMarks(interp, interp')
    BY <1>2, <2>4 DEF SameMarks, J
  <2> QED
    BY <1>1, <2>1, <2>5, OwnQuiet
<1> QED
  BY <1>4, <1>5, <1>6, <1>7

LEMMA NewInterpOwn ==
  ASSUME IInv, IInv', OwnInv, NEW i \in Interps, NEW s \in Subs, NEW script \in BOOLEAN,
         NewInterp(i, s, script)
  PROVE  OwnInv'
<1> DEFINE new == [NoInterp EXCEPT !.st = "live", !.parent = i, !.level = IF script THEN 1 ELSE 0]
<1>1. /\ Running(i) /\ interp[s].st = "none" /\ interp' = [interp EXCEPT ![s] = new]
      /\ udf' = [udf EXCEPT ![s].st = IF script THEN "building" ELSE "live",
                            ![s].sub = TRUE, ![s].ref = ~script]
      /\ UNCHANGED <<selfEnded, fault>> /\ fault = "none" /\ Active /\ Top.in = i
      /\ frames' = frames \/ frames' = Append(frames, [in |-> s, kind |-> "start", of |-> s])
  BY DEF NewInterp, Running, Active, Push
<1>2. /\ interp \in InterpT /\ udf \in UdfT /\ frames \in Seq(Frame) /\ Parents(interp, udf)
      /\ Placed(interp, udf, frames) /\ Above(interp, frames) /\ Owners(interp, udf, selfEnded)
      /\ Subs \subseteq Interps
  BY <1>1, TypeFacts DEF IInv, OwnInv, Interps
<1>3. new.st = "live" /\ new.parent = i /\ new.deleting = FALSE /\ new.kept = FALSE
  BY DEF NoInterp
<1> HIDE DEF new
<1>4. interp'[s] = new /\ \A j \in Interps \ {s} : interp'[j] = interp[j]
  BY <1>1, <1>2 DEF InterpT
<1>5. interp[i].st = "live" /\ i # s
  BY <1>1, <1>2, TopFacts
<1>6. Above(interp', frames')
  <2>1. \A k \in 1..Len(frames) : interp'[frames[k].in].parent = interp[frames[k].in].parent
    <3>1. \A k \in 1..Len(frames) : frames[k].in \in Interps /\ frames[k].in # s
      BY <1>1, <1>2, FrameAt DEF Placed
    <3> QED
      BY <1>4, <3>1
  <2>2. [in |-> s, kind |-> "start", of |-> s] \in Frame /\ frames' \in Seq(Frame)
    BY <1>2 DEF Frame, Kinds, IInv, TypeOK
  <2>3. \/ frames' = frames
        \/ \E x \in Frame : frames' = Append(frames, x) /\ x.kind = "start"
    BY <1>1, <2>2
  <2> QED
    BY <1>2, <2>1, <2>2, <2>3, AboveSame
<1>7. Has(udf', s) /\ \A t \in Subs \ {s} : udf'[t] = udf[t]
  <2> DEFINE a == [udf EXCEPT ![s].st = IF script THEN "building" ELSE "live"]
             b == [a EXCEPT ![s].sub = TRUE]
  <2>1. a \in UdfT /\ a[s].st \in {"building", "live"} /\ \A t \in Subs \ {s} : a[t] = udf[t]
    BY <1>2 DEF UdfT
  <2> HIDE DEF a
  <2>2. /\ b \in UdfT /\ b[s].st = a[s].st /\ b[s].sub = TRUE
        /\ \A t \in Subs \ {s} : b[t] = a[t]
    BY <2>1 DEF UdfT
  <2>3. udf' = [b EXCEPT ![s].ref = ~script]
    BY <1>1 DEF a
  <2> HIDE DEF b
  <2>4. /\ udf'[s].st = b[s].st /\ udf'[s].sub = b[s].sub
        /\ \A t \in Subs \ {s} : udf'[t] = b[t]
    BY <2>2, <2>3 DEF UdfT
  <2> QED
    BY <2>1, <2>2, <2>4 DEF Has
<1>8. \A t \in Subs : interp[t].st = "live" => interp[t].parent \in Interps
  <2>1. \A t \in Subs : interp[t].st # "none" => interp[t].parent \in Interps
    BY <1>2 DEF Parents
  <2> QED
    BY <2>1
<1>9. ASSUME NEW t \in Subs, interp'[t].st = "live", interp'[t].kept = FALSE
      PROVE  interp'[interp'[t].parent].st = "live"
  <2>1. CASE t = s
    BY <1>3, <1>4, <1>5, <2>1
  <2>2. CASE t # s
    <3>1. interp'[t] = interp[t] /\ interp[t].st = "live" /\ interp[t].parent \in Interps
      BY <1>2, <1>4, <1>8, <1>9, <2>2
    <3>2. interp[interp[t].parent].st = "live"
      BY <1>2, <1>9, <3>1 DEF Owners
    <3>3. interp[t].parent # s
      BY <1>1, <3>2
    <3> QED
      BY <1>4, <3>1, <3>2, <3>3
  <2> QED
    BY <2>1, <2>2
<1>10. \A t \in Subs : interp'[t].st = "live" /\ interp'[t].deleting = FALSE => Has(udf', t)
  BY <1>2, <1>4, <1>7 DEF Owners, Has
<1>11. \A t \in Subs \ selfEnded' : Has(udf', t) => interp'[t].st = "live" /\ interp'[t].deleting = FALSE
  BY <1>1, <1>2, <1>3, <1>4, <1>7 DEF Owners, Has
<1>12. \A j \in Interps : interp'[j].deleting = TRUE => interp'[j].st = "live" /\ interp'[j].kept = TRUE
  BY <1>2, <1>3, <1>4 DEF Owners
<1>13. Owners(interp', udf', selfEnded')
  BY <1>9, <1>10, <1>11, <1>12 DEF Owners
<1> QED
  BY <1>6, <1>13 DEF OwnInv

-----------------------------------------------------------------------------
(* Every step, and the properties. *)

LEMMA InitOwn == Init => OwnInv
<1> SUFFICES ASSUME Init PROVE OwnInv
  OBVIOUS
<1>1. \A s \in Subs : s \in Interps /\ s # Main /\ interp[s].st = "none" /\ interp[s].deleting = FALSE
  BY DEF Init, Interps, NoInterp
<1>2. \A s \in Subs : ~Has(udf, s)
  BY DEF Init, Has
<1>3. \A i \in Interps : interp[i].deleting = FALSE
  BY DEF Init, NoInterp
<1>4. Above(interp, frames)
  BY DEF Init, Above
<1> QED
  BY <1>1, <1>2, <1>3, <1>4 DEF OwnInv, Owners

LEMMA NextOwn ==
  ASSUME IInv, OwnInv, [Next]_vars
  PROVE  OwnInv'
<1>0. IInv'
  BY NextIInv
<1>1. CASE UNCHANGED vars
  BY <1>1 DEF vars, OwnInv, Above, Owners, Has
<1>2. CASE Script
  <2>1. ASSUME NEW i \in Interps,
               \/ \E s \in Subs, script \in BOOLEAN : NewInterp(i, s, script)
               \/ \E code \in {0, 1} : Exit(i, code) \/ AskParent(i, code)
               \/ Preserve(i) \/ Release(i)
               \/ \E r \in Recs : InvokeAlias(i, r)
        PROVE  OwnInv'
    BY <1>0, <2>1, NewInterpOwn, ExitOwn, AboveOwn, PreserveOwn
  <2>2. ASSUME NEW s \in Subs, UseFreed(s) \/ GetAlias(s)
        PROVE  OwnInv'
    BY <2>2, OwnFault DEF UseFreed, GetAlias
  <2>3. ASSUME NEW s \in Subs,
               \/ Eval(s) \/ Call(s) \/ Drop(s)
               \/ RefuseAlias(s) \/ UnsetAlias(s)
               \/ \E r \in Recs, made, self \in BOOLEAN : (self => made) /\ SetAlias(s, r, made, self)
        PROVE  OwnInv'
    BY <1>0, <2>3, EnterOwn, DropOwn, TablesOwn
  <2> QED
    BY <1>2, <2>1, <2>2, <2>3 DEF Script
<1>3. CASE Return
  BY <1>0, <1>3, ReturnsOwn, StartFailsOwn, StartExitsOwn, MethodReturnsOwn, EndProgramOwn DEF Return
<1> QED
  BY <1>1, <1>2, <1>3 DEF Next

THEOREM OwnersInductive == Spec => [](IInv /\ OwnInv)
<1>1. Init => IInv /\ OwnInv
  BY InitIInv, InitOwn
<1>2. (IInv /\ OwnInv) /\ [Next]_vars => (IInv /\ OwnInv)'
  BY NextIInv, NextOwn
<1> QED
  BY <1>1, <1>2, PTL DEF Spec

\* An interp that is alive, unless a deletion was put off because it is preserved, has
\* the object that owns it, and such an object has its interp, after any order of exits,
\* failures, drops and ends of parents.  The exception are the interps that exit() in
\* their own start script freed.
THEOREM ThmOwnersAgree == Spec => []OwnersAgree
<1>1. IInv /\ OwnInv => OwnersAgree
  <2> SUFFICES ASSUME IInv, OwnInv, fault = "none", NEW s \in Subs \ selfEnded
               PROVE  (interp[s].st = "live" /\ ~interp[s].deleting) <=> (Owned(s) /\ udf[s].sub)
    BY DEF OwnersAgree
  <2>1. interp[s].st = "live" /\ interp[s].deleting = FALSE <=> Has(udf, s)
    BY DEF OwnInv, Owners
  <2>2. (Owned(s) => udf[s].sub = TRUE) /\ (Owned(s) <=> Has(udf, s))
    BY HasOwned
  <2>3. interp[s].deleting \in BOOLEAN
    BY TypeFacts DEF IInv, InterpT, Interps
  <2> QED
    BY <2>1, <2>2, <2>3
<1> QED
  BY <1>1, OwnersInductive, PTL

\* When the program has ended, the interps that are left are those that were preserved
\* and those that they made: no order of exits, failures and deletions leaves another.
THEOREM ThmEndsClean == Spec => []EndsClean
<1>1. IInv /\ OwnInv => EndsClean
  <2> SUFFICES ASSUME IInv, OwnInv, fault = "none", frames = <<>>, ~MayDelete(interp, Main),
                      NEW i \in Interps, interp[i].st = "live", interp[i].kept = FALSE
               PROVE  i \in Subs /\ interp[interp[i].parent].st = "live"
    <3>1. IInv => interp \in InterpT
      BY TypeFacts DEF IInv
    <3>2. IInv => \A j \in Interps : interp[j].kept = TRUE \/ interp[j].kept = FALSE
      BY <3>1 DEF InterpT
    <3> QED
      BY <3>2 DEF EndsClean
  <2>1. CASE i \in Subs
    BY <2>1 DEF OwnInv, Owners
  <2>2. CASE i = Main
    <3>1. interp[Main].level = 0
      <4>1. InFrames(Main, frames) = {} /\ EvalFrames(Main, frames) = {}
        BY DEF InFrames, EvalFrames
      <4>2. Cardinality({}) = 0
        BY FS_EmptySet
      <4>3. Count(Main, frames) = 0 + 0
        BY <4>1, <4>2, Zenon DEF Count
      <4> QED
        BY <4>3 DEF IInv, Levels, Interps
    <3>2. interp[Main].deleting = TRUE
      <4>1. interp[Main].deleting \in BOOLEAN
        BY TypeFacts DEF IInv, InterpT, Interps
      <4>2. ~(~interp[Main].deleting)
        BY <2>2, <3>1 DEF MayDelete
      <4> QED
        BY <4>1, <4>2
    <3>3. interp[Main].kept = TRUE
      BY <3>2 DEF OwnInv, Owners, Interps
    <3> QED
      BY <2>2, <3>3
  <2> QED
    BY <2>1, <2>2 DEF Interps
<1> QED
  BY <1>1, OwnersInductive, PTL

=============================================================================
